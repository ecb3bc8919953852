---------------------------- MODULE MCImportRows ----------------------------
(* TLC instance of ImportRows: an order that three files of different days *)
(* name, a customer known by a phone two people share, a historical closer *)
(* and a status nobody mapped.                                             *)
EXTENDS ImportRows, TLC

Editor == [id |-> 1, role |-> "EDITOR", code |-> Blank, active |-> TRUE, scope |-> {}, teams |-> {}]
Lead == [id |-> 2, role |-> "TEAM_LEAD", code |-> Blank, active |-> TRUE, scope |-> {"T1"}, teams |-> {}]
MCPeople == {Editor, Lead}
MCStaff == {1, 2}
MCStaffName == [u \in MCStaff |-> <<"Ann", "Bea">>[u]]

R(no, date, name, phone, track, line) ==
    [no |-> no, date |-> date, name |-> name, phone |-> phone, alt |-> Blank, seller |-> "Ann",
     status |-> "SENT", team |-> "T1", track |-> track, line |-> line, bad |-> FALSE]
File(kind, rows) == [kind |-> kind, rows |-> rows]

MCFiles ==
    {File("INOUT_MANAGE_MAIN", <<R(1, 1, "Kai", 7, "x", "a")>>),
     File("INOUT_MANAGE_MAIN", <<[R(1, 2, "Kai", 7, "y", "b") EXCEPT !.seller = "Bea"]>>),
     File("CRM_CUSTOMERS", <<[R(1, 2, "Kai", 7, "z", "c") EXCEPT !.seller = "Old"]>>),
     File("CRM_CUSTOMERS", <<[R(2, 3, "Lek", 8, "x", "a") EXCEPT !.status = "Odd"], R(3, 3, "Kay", 7, "x", "a")>>),
     File("LITE_DETAIL_ORDER", <<[R(1, 3, Blank, Blank, "x", Blank) EXCEPT !.seller = Blank]>>),
     File("CRM_CUSTOMERS", <<[R(4, 1, "Kai", 7, "x", "a") EXCEPT !.bad = TRUE]>>)}

Alike == Permutations(Batch)

Mon == [name |-> "Mon", phone |-> 8, alt |-> Blank, line |-> "s", key |-> <<"phone", 8, Blank>>]
Kai == [name |-> "Kai", phone |-> 7, alt |-> Blank, line |-> "s", key |-> <<"phone", 7, Blank>>]
MCSeeds ==
    {[customers |-> <<Mon>>, orders |-> <<>>],
     [customers |-> <<Mon, Kai>>,
      orders |-> <<[customer |-> 2, no |-> 1, value |-> [date |-> 1, closer |-> 1, track |-> "s", line |-> "s"],
                    stamp |-> NoValues]>>]}
=============================================================================

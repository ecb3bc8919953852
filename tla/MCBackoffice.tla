---------------------------- MODULE MCBackoffice ----------------------------
(* TLC instance of Backoffice: two customers and a third number, one order *)
(* that three online files name, and a user who changes teams.             *)
EXTENDS Backoffice

User(id, role, code, active) ==
    [id |-> id, role |-> role, code |-> code, active |-> active, scope |-> {}, teams |-> {}]

ThreeStaff ==
    { User(1, "TELESELL", "S1", FALSE), User(2, "EDITOR", "S1", TRUE), User(3, "EDITOR", Blank, TRUE) }

Owned1AndUnowned == << Customer(1, "S1"), Customer(2, Blank) >>

MainRec(no, tracking, phone) == [no |-> no, tracking |-> tracking, phone |-> phone]
DetailRec(no, tracking, status, sku) == [no |-> no, tracking |-> tracking, status |-> status, sku |-> sku]
RowRec(no, p1, p2, sku, qty, date) ==
    [named |-> TRUE, no |-> no, p1 |-> p1, p2 |-> p2, sku |-> sku, qty |-> qty, date |-> date, staff |-> Blank]

SomeFiles ==
    << [kind |-> "MAIN", rows |-> << MainRec("N1", "T1", 1), MainRec(Blank, "T1", 3) >>],
       [kind |-> "MAIN", rows |-> << MainRec("N1", "T2", 3) >>],
       [kind |-> "DETAIL", rows |-> << DetailRec("N1", "T2", "SENT", "K1"), DetailRec("N1", "T2", "SENT", "K1") >>],
       [kind |-> "ROWS", rows |-> << RowRec("O1", 2, 3, "K1", 0, Blank), RowRec("O1", Blank, 2, "K1", 2, 1),
                                     RowRec("O1", Blank, Blank, "K1", 1, 1) >>],
       [kind |-> "WIDE", rows |-> << [named |-> TRUE, no |-> "O1", p1 |-> 2, p2 |-> Blank, date |-> 2, skus |->
            << [sku |-> "K2", qty |-> 1], [sku |-> Blank, qty |-> 1], [sku |-> "K1", qty |-> 1] >>] >>],
       [kind |-> "BAD", rows |-> << >>] >>

SomePushes == { [tracking |-> "T1", status |-> "RETURN_CLOSED"], [tracking |-> "T2", status |-> "BACK_IN_STORE"] }
Returned == [ s \in {"RETURN_CLOSED", "BACK_IN_STORE"} |-> "RETURNED" ]
TwoSources == {Blank, "O9"}
=============================================================================

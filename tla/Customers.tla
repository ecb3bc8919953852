----------------------------- MODULE Customers -----------------------------
(***************************************************************************)
(* The customer table, as the parts that find or add customers see it      *)
(* (crm/customers/models.py, crm/customers/services.py,                    *)
(* crm/core/identity.py).  A customer's primary key is her place in the    *)
(* table; phone keys are not unique, and the oldest customer wins.         *)
(***************************************************************************)
EXTENDS Naturals, Sequences, Access

CONSTANTS
    Phones,         \* phone numbers, as numbers
    Codes,          \* staff codes
    MaxCustomers,   \* bound: customers
    MaxOps          \* bound: operations that are begun

ASSUME PhonesAreNumbers == Phones \subseteq Nat
ASSUME NullIsNoCode == Blank \notin Codes
ASSUME TableIsBounded == {MaxCustomers, MaxOps} \subseteq Nat

VARIABLES
    customers,  \* customers[c]: phone key, staff code, and order rollups
    ops         \* operations begun so far

Customer(phone, staff) == [phone |-> phone, staff |-> staff, last |-> Blank, count |-> 0]

CustomersOK ==
    /\ customers \in Seq([phone : Phones, staff : Codes \cup {Blank},
                          last : Nat \cup {Blank}, count : Nat])
    /\ Len(customers) <= MaxCustomers
    /\ ops \in 0..MaxOps

Begun == ops < MaxOps /\ ops' = ops + 1

(* The key of two numbers, of which one may be blank: not transitive.      *)
PhoneKey(p1, p2) ==
    IF Blank \in {p1, p2} THEN (IF p1 = Blank THEN p2 ELSE p1)
    ELSE IF p1 < p2 THEN p1 ELSE p2

NoCustomer == 0

(* The oldest customer with the key, in a table of customers.              *)
Oldest(table, key) ==
    LET Same == {c \in DOMAIN table : table[c].phone = key}
    IN IF Same = {} THEN NoCustomer ELSE CHOOSE c \in Same : \A d \in Same : c <= d

(* A customer comes by another way: the order form, or the other importer. *)
CustomerArrives(phone, staff) ==
    /\ Begun
    /\ Len(customers) < MaxCustomers
    /\ customers' = IF Oldest(customers, phone) # NoCustomer THEN customers
                    ELSE Append(customers, Customer(phone, staff))
=============================================================================

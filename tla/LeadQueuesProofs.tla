-------------------------- MODULE LeadQueuesProofs --------------------------
(***************************************************************************)
(* Proofs about LeadQueues, for any number of leads, every page size, any  *)
(* rows, viewers and queries, and every bound.                             *)
(***************************************************************************)
EXTENDS LeadQueues, FiniteSetTheorems, WellFoundedInduction, TLAPS

-----------------------------------------------------------------------------
(* Sorting a finite set.                                                   *)

(* R orders the elements of S, no two of them alike.                       *)
Orders(R, S) ==
    /\ \A x \in S : <<x, x>> \notin R
    /\ \A x, y \in S : x # y => <<x, y>> \in R \/ <<y, x>> \in R
    /\ \A x, y, z \in S : <<x, y>> \in R /\ <<y, z>> \in R => <<x, z>> \in R

(* r lists the elements of S in the order R.                               *)
Lists(r, S, R) ==
    /\ r \in Seq(S)
    /\ \A x \in S : \E i \in DOMAIN r : r[i] = x
    /\ \A i, j \in DOMAIN r : i < j => <<r[i], r[j]>> \in R

(* A property that some finite subset of S lacks is lacked by one none of  *)
(* whose proper subsets lacks it.                                          *)
LEMMA LeastSubset ==
    ASSUME NEW S, NEW B \in SUBSET FiniteSubsetsOf(S), B # {}
    PROVE  \E T \in B : \A U \in B : U \subseteq T => U = T
<1>1. PICK T \in B : \A U \in B : ~ (<<U, T>> \in StrictSubsetOrdering(S))
  BY FS_StrictSubsetOrderingWellFounded, WFMin
<1>2. ASSUME NEW U \in B, U \subseteq T
      PROVE  U = T
  <2>1. <<U, T>> \notin {ss \in (SUBSET S) \X (SUBSET S) : ss[1] \subseteq ss[2] /\ ss[1] # ss[2]}
    BY <1>1 DEF StrictSubsetOrdering
  <2>2. U \in SUBSET S /\ T \in SUBSET S
    BY DEF FiniteSubsetsOf
  <2> QED
    BY <1>2, <2>1, <2>2
<1> QED
  BY <1>2

(* A finite set that is not empty has a greatest element.                  *)
LEMMA GreatestElement ==
    ASSUME NEW S, IsFiniteSet(S), S # {}, NEW R, Orders(R, S)
    PROVE  \E m \in S : \A x \in S \ {m} : <<x, m>> \in R
<1> DEFINE Greatest(T) == \E m \in T : \A x \in T \ {m} : <<x, m>> \in R
           B == {T \in FiniteSubsetsOf(S) : T # {} /\ ~ Greatest(T)}
<1>1. SUFFICES ASSUME B # {} PROVE FALSE
  <2>1. S \in FiniteSubsetsOf(S)
    BY DEF FiniteSubsetsOf
  <2> QED
    BY <1>1, <2>1
<1>2. PICK T \in B : \A U \in B : U \subseteq T => U = T
  <2>1. B \in SUBSET FiniteSubsetsOf(S)
    OBVIOUS
  <2> HIDE DEF B
  <2> QED
    BY <1>1, <2>1, LeastSubset
<1>3. T \subseteq S /\ IsFiniteSet(T) /\ T # {} /\ ~ Greatest(T)
  BY DEF FiniteSubsetsOf
<1>4. PICK x \in T : TRUE
  BY <1>3
<1>5. T \ {x} \in FiniteSubsetsOf(S)
  BY <1>3, FS_RemoveElement DEF FiniteSubsetsOf
<1>6. T \ {x} # {}
  BY <1>3, <1>4
<1>7. PICK m \in T \ {x} : \A y \in (T \ {x}) \ {m} : <<y, m>> \in R
  <2>1. T \ {x} \notin B
    BY <1>2, <1>4
  <2>2. Greatest(T \ {x})
    BY <1>5, <1>6, <2>1
  <2> QED
    BY <2>2
<1>8. CASE <<x, m>> \in R
  BY <1>3, <1>7, <1>8
<1>9. CASE <<m, x>> \in R
  <2>1. \A y \in T \ {x} : <<y, x>> \in R
    BY <1>3, <1>4, <1>7, <1>9 DEF Orders
  <2> QED
    BY <1>3, <2>1
<1> QED
  BY <1>3, <1>4, <1>7, <1>8, <1>9 DEF Orders

(* A finite set can be listed in any order of its elements.                *)
LEMMA ListingExists ==
    ASSUME NEW S, IsFiniteSet(S), NEW R, Orders(R, S)
    PROVE  \E r : Lists(r, S, R)
<1> DEFINE B == {T \in FiniteSubsetsOf(S) : ~ \E r : Lists(r, T, R)}
<1>1. SUFFICES ASSUME B # {} PROVE FALSE
  <2>1. S \in FiniteSubsetsOf(S)
    BY DEF FiniteSubsetsOf
  <2> QED
    BY <1>1, <2>1
<1>2. PICK T \in B : \A U \in B : U \subseteq T => U = T
  <2>1. B \in SUBSET FiniteSubsetsOf(S)
    OBVIOUS
  <2> HIDE DEF B
  <2> QED
    BY <1>1, <2>1, LeastSubset
<1>3. T \subseteq S /\ IsFiniteSet(T) /\ ~ \E r : Lists(r, T, R)
  BY DEF FiniteSubsetsOf
<1>4. T # {}
  <2>1. Lists(<<>>, {}, R)
    BY DEF Lists
  <2> QED
    BY <1>3, <2>1
<1>5. PICK m \in T : \A x \in T \ {m} : <<x, m>> \in R
  <2>1. Orders(R, T)
    BY <1>3 DEF Orders
  <2> QED
    BY <1>3, <1>4, <2>1, GreatestElement
<1>6. T \ {m} \in FiniteSubsetsOf(S)
  BY <1>3, FS_RemoveElement DEF FiniteSubsetsOf
<1>7. PICK r : Lists(r, T \ {m}, R)
  BY <1>2, <1>5, <1>6
<1>8. r \in Seq(T) /\ Len(r) \in Nat /\ DOMAIN r = 1..Len(r)
  <2>1. r \in Seq(T \ {m})
    BY <1>7 DEF Lists
  <2>2. Len(r) \in Nat /\ DOMAIN r = 1..Len(r) /\ \A i \in 1..Len(r) : r[i] \in T
    BY <2>1
  <2> QED
    BY <2>1, <2>2
<1>9. PICK s : s = Append(r, m)
  OBVIOUS
<1>10. /\ s \in Seq(T) /\ DOMAIN s = 1..(Len(r) + 1) /\ s[Len(r) + 1] = m
       /\ \A i \in 1..Len(r) : s[i] = r[i]
  BY <1>8, <1>9
<1>11. ASSUME NEW x \in T PROVE \E i \in DOMAIN s : s[i] = x
  <2>1. CASE x = m
    BY <1>8, <1>10, <2>1
  <2>2. CASE x # m
    <3>1. PICK i \in 1..Len(r) : r[i] = x
      BY <1>7, <1>8, <2>2 DEF Lists
    <3> QED
      BY <1>8, <1>10, <3>1
  <2> QED
    BY <2>1, <2>2
<1>12. ASSUME NEW i \in DOMAIN s, NEW j \in DOMAIN s, i < j PROVE <<s[i], s[j]>> \in R
  <2>1. i \in 1..Len(r) /\ s[i] = r[i] /\ r[i] \in T \ {m}
    <3>1. i \in 1..Len(r)
      BY <1>8, <1>10, <1>12
    <3>2. r \in Seq(T \ {m})
      BY <1>7 DEF Lists
    <3> QED
      BY <1>8, <1>10, <3>1, <3>2
  <2>2. CASE j = Len(r) + 1
    BY <1>5, <1>10, <2>1, <2>2
  <2>3. CASE j \in 1..Len(r)
    BY <1>7, <1>8, <1>10, <1>12, <2>1, <2>3 DEF Lists
  <2> QED
    BY <1>8, <1>10, <2>2, <2>3
<1>13. Lists(s, T, R)
  BY <1>10, <1>11, <1>12 DEF Lists
<1> QED
  BY <1>3, <1>13

(* The elements of a finite set, listed in an order, are as many as it     *)
(* has, each once.                                                         *)
LEMMA ListingIsBijective ==
    ASSUME NEW S, NEW R, Orders(R, S), NEW r, Lists(r, S, R)
    PROVE  /\ IsFiniteSet(S) /\ Len(r) = Cardinality(S) /\ DOMAIN r = 1..Cardinality(S)
           /\ \A i, j \in DOMAIN r : r[i] = r[j] => i = j
<1>1. r \in Seq(S) /\ Len(r) \in Nat /\ DOMAIN r = 1..Len(r)
  BY DEF Lists
<1>2. ASSUME NEW i \in DOMAIN r, NEW j \in DOMAIN r, r[i] = r[j] PROVE i = j
  <2>1. r[i] \in S /\ <<r[i], r[i]>> \notin R
    BY <1>1 DEF Orders
  <2>2. ~ (i < j) /\ ~ (j < i)
    BY <1>2, <2>1 DEF Lists
  <2> QED
    BY <1>1, <2>2
<1>3. r \in Bijection(1..Len(r), S)
  <2>1. r \in [1..Len(r) -> S]
    BY <1>1
  <2>2. \A x \in S : \E i \in 1..Len(r) : r[i] = x
    BY <1>1 DEF Lists
  <2> QED
    BY <1>1, <1>2, <2>1, <2>2 DEF Bijection, Injection, Surjection, IsInjective
<1>4. ExistsBijection(1..Len(r), S)
  BY <1>3 DEF ExistsBijection
<1>5. IsFiniteSet(S) /\ Len(r) = Cardinality(S)
  BY <1>1, <1>4, FS_CountingElements, FS_NatBijection
<1> QED
  BY <1>1, <1>2, <1>5

-----------------------------------------------------------------------------
(* Pages.                                                                  *)

Found(u, q, cursor, at) ==
    {l \in Lead : /\ ForUser(u, rows[l]) /\ Filter(q, rows[l], at)
                  /\ cursor # NoCursor => Ahead(q.sort, Key(q.sort, l, at), cursor)}

Ranked(sort, at) ==
    {x \in Lead \X Lead : Before(sort, Key(sort, x[1], at), Key(sort, x[2], at))}

(* ORDER BY lists what the query has found in the order of the keys.       *)
LEMMA PageIsListed ==
    ASSUME NEW u, NEW q, NEW cursor, NEW at,
           IsFiniteSet(Found(u, q, cursor, at)), Orders(Ranked(q.sort, at), Found(u, q, cursor, at))
    PROVE  Lists(Page(u, q, cursor, at), Found(u, q, cursor, at), Ranked(q.sort, at))
<1> DEFINE F == Found(u, q, cursor, at)
           R == Ranked(q.sort, at)
           n == Cardinality(F)
           First(l, k) == Before(q.sort, Key(q.sort, l, at), Key(q.sort, k, at))
           Sorted(p) == \A i, j \in DOMAIN p : i < j => First(p[i], p[j])
<1>1. Page(u, q, cursor, at) = CHOOSE p \in [1..n -> F] : Sorted(p)
  BY DEF Page, Found
<1>2. \A l, k \in F : First(l, k) <=> <<l, k>> \in R
  BY DEF Found, Ranked
<1>3. IsFiniteSet(F) /\ Orders(R, F)
  OBVIOUS
<1>4. n \in Nat
  BY FS_CardinalityType
<1> HIDE DEF F, R, First
<1>5. PICK p : Lists(p, F, R)
  BY <1>3, ListingExists
<1>6. DOMAIN p = 1..n /\ p \in Seq(F)
  BY <1>3, <1>5, ListingIsBijective DEF Lists
<1>7. p \in [1..n -> F] /\ \A i \in 1..n : p[i] \in F
  <2>1. p \in [1..Len(p) -> F] /\ DOMAIN p = 1..Len(p)
    BY <1>6
  <2> QED
    BY <1>6, <2>1
<1>8. Sorted(p)
  BY <1>2, <1>5, <1>6, <1>7 DEF Lists
<1>9. PICK r : r = Page(u, q, cursor, at)
  OBVIOUS
<1>10. r \in [1..n -> F] /\ Sorted(r)
  BY <1>1, <1>7, <1>8, <1>9
<1>11. DOMAIN r = 1..n /\ \A i \in 1..n : r[i] \in F
  BY <1>10
<1>12. \A i, j \in 1..n : i < j => <<r[i], r[j]>> \in R
  BY <1>2, <1>10, <1>11
<1>13. ASSUME NEW i \in 1..n, NEW j \in 1..n, r[i] = r[j] PROVE i = j
  <2>1. <<r[i], r[i]>> \notin R
    BY <1>3, <1>11 DEF Orders
  <2>2. ~ (i < j) /\ ~ (j < i)
    BY <1>12, <1>13, <2>1
  <2> QED
    BY <1>4, <2>2
<1>14. r \in Injection(1..n, F)
  BY <1>10, <1>11, <1>13 DEF Injection, IsInjective
<1>15. IsFiniteSet(1..n) /\ Cardinality(1..n) = n
  BY <1>4, FS_Interval
<1>16. r \in Surjection(1..n, F)
  BY <1>3, <1>14, <1>15, FS_Injection
<1>17. \A x \in F : \E i \in 1..n : r[i] = x
  BY <1>16 DEF Surjection
<1>18. r \in Seq(F)
  BY <1>4, <1>10
<1>19. Lists(r, F, R)
  BY <1>11, <1>12, <1>17, <1>18 DEF Lists
<1> QED
  BY <1>9, <1>19 DEF F, R

-----------------------------------------------------------------------------
(* Keys.                                                                   *)

Column == Nat \cup {Blank}

(* One column of ORDER BY: nulls come last.                                *)
Comes(down, x, y) ==
    /\ x # y
    /\ y = Blank \/ ({x, y} \subseteq Nat /\ IF down THEN x > y ELSE x < y)

(* A key, as a row has it or a cursor remembers it.                        *)
IsKey(sort, k) == k \in [(IF sort = "WORK_PRIORITY" THEN 1..3 ELSE 1..2) -> Column]

(* A column is in one order, up or down.                                   *)
LEMMA ColumnsAreOrdered ==
    ASSUME NEW down, NEW x \in Column, NEW y \in Column, NEW z \in Column
    PROVE  /\ ~ Comes(down, x, x)
           /\ x # y => Comes(down, x, y) \/ Comes(down, y, x)
           /\ Comes(down, x, y) /\ Comes(down, y, z) => Comes(down, x, z)
<1>1. Blank \notin Nat
  BY BlankIsNoNumber
<1>2. CASE down
  BY <1>1, <1>2 DEF Comes, Column
<1>3. CASE ~ down
  BY <1>1, <1>3 DEF Comes, Column
<1> QED
  BY <1>2, <1>3

(* ORDER BY compares the first column in which two keys differ; the keyset *)
(* predicate is the same comparison.                                       *)
LEMMA BeforeIsFirstColumn ==
    ASSUME NEW sort, NEW a, NEW b, IsKey(sort, a), IsKey(sort, b)
    PROVE  /\ Before(sort, a, b) <=> \E i \in DOMAIN a :
                   (\A j \in 1..(i-1) : a[j] = b[j]) /\ Comes(Descending(sort, i), a[i], b[i])
           /\ Ahead(sort, b, a) <=> Before(sort, a, b)
<1>1. DOMAIN a = DOMAIN b /\ \A i \in DOMAIN a : a[i] \in Column /\ b[i] \in Column
  BY DEF IsKey
<1>2. Before(sort, a, b) <=> \E i \in DOMAIN a :
           (\A j \in 1..(i-1) : a[j] = b[j]) /\ Comes(Descending(sort, i), a[i], b[i])
  BY DEF Before, Comes
<1>3. ASSUME NEW i \in DOMAIN a
      PROVE  Comes(Descending(sort, i), a[i], b[i]) <=>
                 /\ a[i] # Blank
                 /\ \/ b[i] = Blank
                    \/ b[i] # Blank /\ IF Descending(sort, i) THEN b[i] < a[i] ELSE b[i] > a[i]
  <2>1. a[i] \in Column /\ b[i] \in Column /\ Blank \notin Nat
    BY <1>1, BlankIsNoNumber
  <2>2. CASE Descending(sort, i)
    BY <2>1, <2>2 DEF Comes, Column
  <2>3. CASE ~ Descending(sort, i)
    BY <2>1, <2>3 DEF Comes, Column
  <2> QED
    BY <2>2, <2>3
<1>4. (\A i : \A j \in 1..(i-1) : a[j] = b[j] <=> b[j] = a[j])
  OBVIOUS
<1>5. Ahead(sort, b, a) <=> \E i \in DOMAIN a :
           (\A j \in 1..(i-1) : a[j] = b[j]) /\ Comes(Descending(sort, i), a[i], b[i])
  BY <1>1, <1>3, <1>4 DEF Ahead
<1> QED
  BY <1>2, <1>5

(* Keys are in one order.                                                  *)
LEMMA KeysAreOrdered ==
    ASSUME NEW sort, NEW a, NEW b, NEW c, IsKey(sort, a), IsKey(sort, b), IsKey(sort, c)
    PROVE  /\ ~ Before(sort, a, a)
           /\ a = b \/ Before(sort, a, b) \/ Before(sort, b, a)
           /\ Before(sort, a, b) /\ Before(sort, b, c) => Before(sort, a, c)
<1> DEFINE D == DOMAIN a
           Same(x, y, i) == \A j \in 1..(i-1) : x[j] = y[j]
           Less(x, y, i) == Comes(Descending(sort, i), x[i], y[i])
<1>1. /\ D = DOMAIN b /\ D = DOMAIN c /\ D \in {1..3, 1..2}
      /\ \A i \in D : a[i] \in Column /\ b[i] \in Column /\ c[i] \in Column
  BY DEF IsKey
<1>2. \A x, y \in {a, b, c} : Before(sort, x, y) <=> \E i \in D : Same(x, y, i) /\ Less(x, y, i)
  <2>1. \A x, y : IsKey(sort, x) /\ IsKey(sort, y) =>
            (Before(sort, x, y) <=> \E i \in DOMAIN x : Same(x, y, i) /\ Less(x, y, i))
    BY BeforeIsFirstColumn
  <2> HIDE DEF Same, Less
  <2> QED
    BY <1>1, <2>1
<1>3. \A i \in D : /\ ~ Less(a, a, i)
                   /\ a[i] # b[i] => Less(a, b, i) \/ Less(b, a, i)
                   /\ Less(a, b, i) /\ Less(b, c, i) => Less(a, c, i)
  BY <1>1, ColumnsAreOrdered
<1>4. ~ Before(sort, a, a)
  BY <1>2, <1>3
<1> HIDE DEF Less
<1>5. ASSUME a # b PROVE Before(sort, a, b) \/ Before(sort, b, a)
  <2>1. PICK i \in D : a[i] # b[i] /\ Same(a, b, i)
    <3>1. \E i \in D : a[i] # b[i]
      <4>1. a \in [D -> Column] /\ b \in [D -> Column]
        BY <1>1 DEF IsKey
      <4> QED
        BY <1>5, <4>1
    <3>2. CASE a[1] # b[1]
      <4>1. 1 \in D /\ 1..(1-1) = {}
        BY <1>1
      <4> QED
        BY <3>2, <4>1
    <3>3. CASE a[1] = b[1] /\ a[2] # b[2]
      <4>1. 2 \in D /\ 1..(2-1) = {1}
        BY <1>1
      <4> QED
        BY <3>3, <4>1
    <3>4. CASE a[1] = b[1] /\ a[2] = b[2]
      <4>1. 3 \in D /\ a[3] # b[3] /\ 1..(3-1) = {1, 2}
        BY <1>1, <3>1, <3>4
      <4> QED
        BY <3>4, <4>1
    <3> QED
      BY <3>2, <3>3, <3>4
  <2>2. Same(b, a, i)
    BY <2>1
  <2> QED
    BY <1>2, <1>3, <2>1, <2>2
<1>6. ASSUME Before(sort, a, b), Before(sort, b, c) PROVE Before(sort, a, c)
  <2>1. PICK i \in D : Same(a, b, i) /\ Less(a, b, i)
    BY <1>2, <1>6
  <2>2. PICK j \in D : Same(b, c, j) /\ Less(b, c, j)
    BY <1>2, <1>6
  <2>3. i \in Nat /\ j \in Nat /\ i > 0 /\ j > 0
    BY <1>1
  <2>4. CASE i = j
    BY <1>2, <1>3, <2>1, <2>2, <2>4
  <2>5. CASE i < j
    <3>1. b[i] = c[i] /\ Same(a, c, i)
      BY <2>1, <2>2, <2>3, <2>5
    <3>2. Less(a, c, i)
      BY <2>1, <3>1 DEF Less
    <3> QED
      BY <1>2, <3>1, <3>2
  <2>6. CASE j < i
    <3>1. a[j] = b[j] /\ Same(a, c, j)
      BY <2>1, <2>2, <2>3, <2>6
    <3>2. Less(a, c, j)
      BY <2>2, <3>1 DEF Less
    <3> QED
      BY <1>2, <3>1, <3>2
  <2> QED
    BY <2>3, <2>4, <2>5, <2>6
<1> QED
  BY <1>4, <1>5, <1>6

(* A row's key is one, and leads' keys differ.                             *)
LEMMA LeadsHaveKeys ==
    ASSUME rows \in [Lead -> RowSet], NEW sort, NEW at, NEW l \in Lead
    PROVE  /\ IsKey(sort, Key(sort, l, at))
           /\ \A k \in Lead : Key(sort, k, at) = Key(sort, l, at) => k = l
<1>1. rows[l] \in RowSet
  OBVIOUS
<1>2. rows[l].last \in Column /\ rows[l].follow \in Column
  BY <1>1, RowsAreRows DEF Column
<1>3. WorkRank(rows[l], at) \in Column /\ l \in Column
  BY DEF WorkRank, Column, Lead
<1>4. CASE sort = "WORK_PRIORITY"
  BY <1>2, <1>3, <1>4 DEF Key, IsKey
<1>5. CASE sort # "WORK_PRIORITY"
  BY <1>2, <1>3, <1>5 DEF Key, IsKey
<1> QED
  BY <1>4, <1>5 DEF Key

(* The leads are finite, Leads of them.                                    *)
LEMMA LeadsAreFinite == IsFiniteSet(Lead) /\ Cardinality(Lead) = Leads
<1>1. 1 \in Int /\ Leads \in Int /\ Leads \in Nat
  BY QueueBoundsAreNat
<1> QED
  BY <1>1, FS_Interval DEF Lead

(* So they order the leads.                                                *)
LEMMA LeadsAreRanked ==
    ASSUME rows \in [Lead -> RowSet], NEW sort, NEW at, NEW F \in SUBSET Lead
    PROVE  IsFiniteSet(F) /\ Orders(Ranked(sort, at), F)
<1>1. IsFiniteSet(F)
  BY LeadsAreFinite, FS_Subset
<1>2. \A l, k \in F : <<l, k>> \in Ranked(sort, at) <=> Before(sort, Key(sort, l, at), Key(sort, k, at))
  BY DEF Ranked
<1>3. \A l \in F : ~ Before(sort, Key(sort, l, at), Key(sort, l, at))
  BY LeadsHaveKeys, KeysAreOrdered
<1>4. \A l, k \in F : l # k => \/ Before(sort, Key(sort, l, at), Key(sort, k, at))
                               \/ Before(sort, Key(sort, k, at), Key(sort, l, at))
  BY LeadsHaveKeys, KeysAreOrdered
<1>5. \A l, k, m \in F : /\ Before(sort, Key(sort, l, at), Key(sort, k, at))
                         /\ Before(sort, Key(sort, k, at), Key(sort, m, at))
                         => Before(sort, Key(sort, l, at), Key(sort, m, at))
  BY LeadsHaveKeys, KeysAreOrdered
<1> QED
  BY <1>1, <1>2, <1>3, <1>4, <1>5 DEF Orders

-----------------------------------------------------------------------------
(* Filters and badges.                                                     *)

Holds(p, age) == p.min <= age /\ (p.max = Blank \/ age <= p.max)

(* The presets cut the ages into pieces, each with its name.               *)
LEMMA PresetsPartition ==
    /\ \A p \in Range(Presets) :
          p.min \in Nat /\ p.max \in Column /\ p.id \notin {"NO_ORDER", "DATE_ANOMALY"}
    /\ \A p, q \in Range(Presets) : p.id = q.id => p = q
    /\ \A age \in Nat : \E p \in Range(Presets) : Holds(p, age)
    /\ \A age \in Nat : \A p, q \in Range(Presets) : Holds(p, age) /\ Holds(q, age) => p = q
<1>1. Presets \in Seq({Presets[i] : i \in 1..7}) /\ DOMAIN Presets = 1..7
  BY DEF Presets
<1>2. /\ Presets[1] = [id |-> "0_7", min |-> 0, max |-> 7]
      /\ Presets[2] = [id |-> "8_15", min |-> 8, max |-> 15]
      /\ Presets[3] = [id |-> "16_30", min |-> 16, max |-> 30]
      /\ Presets[4] = [id |-> "31_45", min |-> 31, max |-> 45]
      /\ Presets[5] = [id |-> "46_60", min |-> 46, max |-> 60]
      /\ Presets[6] = [id |-> "61_90", min |-> 61, max |-> 90]
      /\ Presets[7] = [id |-> "OVER_90", min |-> 91, max |-> Blank]
  BY DEF Presets
<1>3. \A p : p \in Range(Presets) <=> \E i \in 1..7 : p = Presets[i]
  BY <1>1 DEF Range
<1>4. \A p \in Range(Presets) :
          \/ p = Presets[1] /\ p.id = "0_7" /\ p.min = 0 /\ p.max = 7
          \/ p = Presets[2] /\ p.id = "8_15" /\ p.min = 8 /\ p.max = 15
          \/ p = Presets[3] /\ p.id = "16_30" /\ p.min = 16 /\ p.max = 30
          \/ p = Presets[4] /\ p.id = "31_45" /\ p.min = 31 /\ p.max = 45
          \/ p = Presets[5] /\ p.id = "46_60" /\ p.min = 46 /\ p.max = 60
          \/ p = Presets[6] /\ p.id = "61_90" /\ p.min = 61 /\ p.max = 90
          \/ p = Presets[7] /\ p.id = "OVER_90" /\ p.min = 91 /\ p.max = Blank
  BY <1>2, <1>3
<1>5. Blank \notin Nat
  BY BlankIsNoNumber
<1>6. ASSUME NEW age \in Nat PROVE \E p \in Range(Presets) : Holds(p, age)
  <2>1. \/ Holds(Presets[1], age) \/ Holds(Presets[2], age) \/ Holds(Presets[3], age)
        \/ Holds(Presets[4], age) \/ Holds(Presets[5], age) \/ Holds(Presets[6], age)
        \/ Holds(Presets[7], age)
    BY <1>2 DEF Holds
  <2> QED
    BY <1>3, <2>1
<1>7. ASSUME NEW age \in Nat, NEW p \in Range(Presets), NEW q \in Range(Presets),
             Holds(p, age), Holds(q, age)
      PROVE  p = q
  BY <1>4, <1>5, <1>7 DEF Holds
<1>8. \A p \in Range(Presets) :
          p.min \in Nat /\ p.max \in Column /\ p.id \notin {"NO_ORDER", "DATE_ANOMALY"}
  BY <1>4 DEF Column
<1>9. \A p, q \in Range(Presets) : p.id = q.id => p = q
  BY <1>4
<1> QED
  BY <1>6, <1>7, <1>8, <1>9

(* The instants of a range of days select the ages in it.                  *)
LEMMA CutoffsSelectAges ==
    ASSUME NEW t \in Nat, NEW at \in Nat, NEW min \in Nat, NEW max \in Column
    PROVE  /\ Between(t, Cutoffs(min, max, at))
                  <=> min <= Age(t, at) /\ (max = Blank \/ Age(t, at) <= max)
           /\ Age(t, at) \in Int
<1>1. \A n \in Nat : n \div 2 \in Nat /\ 2 * (n \div 2) <= n /\ n < 2 * (n \div 2) + 2
  OBVIOUS
<1>2. PICK d \in Nat, e \in Nat : d = t \div 2 /\ e = at \div 2 /\ 2 * d <= t /\ t < 2 * d + 2
  BY <1>1
<1>3. Age(t, at) = e - d
  BY <1>2 DEF Age, Day
<1>4. Cutoffs(min, max, at) = [from |-> IF max = Blank THEN Blank ELSE 2 * (e - max),
                               before |-> 2 * (e - min + 1)]
  BY <1>2 DEF Cutoffs, Day, DayStart
<1>5. t < 2 * (e - min + 1) <=> min <= e - d
  BY <1>2
<1>6. Blank \notin Nat /\ t # Blank
  BY BlankIsNoNumber
<1>7. CASE max = Blank
  BY <1>3, <1>4, <1>5, <1>6, <1>7 DEF Between
<1>8. CASE max \in Nat
  <2>1. t >= 2 * (e - max) <=> e - d <= max
    BY <1>2, <1>8
  <2>2. max # Blank /\ (2 * (e - max) # Blank \/ e - max < 0)
    BY <1>2, <1>6, <1>8
  <2>3. 2 * (e - max) = Blank \/ t >= 2 * (e - max) <=> e - d <= max
    BY <1>2, <1>8, <2>1, <2>2
  <2> QED
    BY <1>3, <1>4, <1>5, <1>6, <1>8, <2>3 DEF Between
<1> QED
  BY <1>2, <1>3, <1>7, <1>8 DEF Column

(* The age filter selects the leads whose badge shows the preset.          *)
LEMMA AgeFilterIsBucket ==
    ASSUME NEW r, r.last \in Column, NEW at \in Nat, NEW preset \in PresetIds
    PROVE  AgeFilter(preset, r, at) <=> AgeBucket(r.last, at) = preset
<1>1. CASE r.last = Blank
  <2>1. AgeBucket(r.last, at) = "NO_ORDER"
    BY <1>1 DEF AgeBucket
  <2>2. \A cut : ~ Between(r.last, cut)
    BY <1>1 DEF Between
  <2> QED
    BY <1>1, <2>1, <2>2 DEF AgeFilter
<1>2. CASE r.last \in Nat
  <2>1. r.last # Blank
    BY <1>2, BlankIsNoNumber
  <2>2. PICK t, age : t = r.last /\ age = Age(t, at)
    OBVIOUS
  <2>3. age \in Int /\ t \in Nat
    BY <1>2, <2>2, CutoffsSelectAges DEF Column
  <2>4. \A p \in Range(Presets) : Between(t, Cutoffs(p.min, p.max, at)) <=> Holds(p, age)
    BY <2>2, <2>3, PresetsPartition, CutoffsSelectAges DEF Holds
  <2>5. CASE preset = "NO_ORDER"
    <3>1. AgeBucket(t, at) # "NO_ORDER"
      <4>1. CASE age < 0
        BY <2>1, <2>2, <4>1 DEF AgeBucket
      <4>2. CASE age >= 0
        <5>1. PICK p \in Range(Presets) : p = CHOOSE x \in Range(Presets) : Holds(x, age)
          BY <2>3, <4>2, PresetsPartition
        <5>2. AgeBucket(t, at) = p.id
          BY <2>1, <2>2, <2>3, <4>2, <5>1 DEF AgeBucket, Holds
        <5> QED
          BY <5>2, PresetsPartition
      <4> QED
        BY <2>3, <4>1, <4>2
    <3> QED
      BY <2>1, <2>2, <2>5, <3>1 DEF AgeFilter
  <2>6. CASE preset # "NO_ORDER"
    <3>1. PICK p \in Range(Presets) : p.id = preset
      BY <2>6 DEF PresetIds
    <3>2. PresetNamed(preset) = p
      BY <3>1, PresetsPartition DEF PresetNamed
    <3>3. AgeFilter(preset, r, at) <=> Holds(p, age)
      BY <2>2, <2>4, <2>6, <3>2 DEF AgeFilter
    <3>4. AgeBucket(t, at) = preset <=> Holds(p, age)
      <4>1. CASE age < 0
        <5>1. AgeBucket(t, at) = "DATE_ANOMALY"
          BY <2>1, <2>2, <4>1 DEF AgeBucket
        <5>2. ~ Holds(p, age)
          BY <2>3, <4>1, PresetsPartition DEF Holds
        <5> QED
          BY <3>1, <5>1, <5>2, PresetsPartition
      <4>2. CASE age >= 0
        <5>1. PICK o \in Range(Presets) : Holds(o, age) /\ o = CHOOSE x \in Range(Presets) : Holds(x, age)
          BY <2>3, <4>2, PresetsPartition
        <5>2. AgeBucket(t, at) = o.id
          BY <2>1, <2>2, <2>3, <4>2, <5>1 DEF AgeBucket, Holds
        <5>3. age \in Nat
          BY <2>3, <4>2
        <5> QED
          BY <3>1, <5>1, <5>2, <5>3, PresetsPartition
      <4> QED
        BY <2>3, <4>1, <4>2
    <3> QED
      BY <2>2, <3>3, <3>4
  <2> QED
    BY <2>5, <2>6
<1> QED
  BY <1>1, <1>2 DEF Column

(* The review filter selects the leads badged for review.                  *)
LEMMA ReviewFilterIsCandidate ==
    ASSUME NEW r, r.last \in Column, NEW at \in Nat
    PROVE  ReviewFilter(r, at) <=> Candidate(r, at)
<1>1. ASSUME r.last # Blank
      PROVE  Between(r.last, Cutoffs(ReviewDays, Blank, at)) <=> Age(r.last, at) >= ReviewDays
  <2>1. r.last \in Nat /\ ReviewDays \in Nat /\ Blank \in Column
    BY <1>1 DEF Column, ReviewDays
  <2>2. PICK t, d, age : t = r.last /\ d = ReviewDays /\ age = Age(t, at)
    OBVIOUS
  <2>3. age \in Int /\ (Between(t, Cutoffs(d, Blank, at)) <=> d <= age)
    BY <2>1, <2>2, CutoffsSelectAges
  <2> QED
    BY <2>1, <2>2, <2>3
<1>2. r.last = Blank => ~ Between(r.last, Cutoffs(ReviewDays, Blank, at))
  BY DEF Between
<1> QED
  BY <1>1, <1>2 DEF ReviewFilter, Candidate

(* What a page shows is what its user should see: the query's scope and    *)
(* filters against the rules.                                              *)
LEMMA FilterIsWanted ==
    ASSUME NEW u \in Viewers, NEW q0 \in Requests, MayUse(u, q0.kind), NEW q, q = Restricted(u, q0),
           NEW r \in RowSet, NEW at \in Nat
    PROVE  ForUser(u, r) /\ Filter(q, r, at) <=> Wanted(u, q, r, at)
<1>1. r.last \in Column
  BY RowsAreRows DEF Column
<1>2. /\ q.kind = q0.kind /\ q.preset = q0.preset
      /\ q.preset \in PresetIds \cup {"ANY"}
      /\ q.caretaker = IF IsTelesell(u) /\ q.kind = "MY_WORK" THEN u.id ELSE q0.caretaker
      /\ q.kind \in {"MY_WORK", "TEAM", "STOPPED"}
  BY RequestsAreQueries DEF Restricted
<1>3. q.preset # "ANY" => (AgeFilter(q.preset, r, at) <=> AgeBucket(r.last, at) = q.preset)
  BY <1>1, <1>2, AgeFilterIsBucket
<1>4. ReviewFilter(r, at) <=> Candidate(r, at)
  BY <1>1, ReviewFilterIsCandidate
<1>5. u.active /\ u.id # Blank
  BY ViewersHaveIds DEF MayUse, CanUseLeadWorkspace, CanReviewAnyLead
<1>6. \/ u.role \in {"EDITOR", "TEAM_LEAD"}
      \/ u.role = "TELESELL" /\ q.kind = "MY_WORK"
  BY <1>2 DEF MayUse, CanUseLeadWorkspace, CanReviewAnyLead, IsTelesell, IsTeamLead
<1>7. IsTelesell(u) /\ q.kind = "MY_WORK" /\ Filter(q, r, at) => IsLeadCaretaker(u, r)
  BY <1>2, <1>5 DEF Filter, IsLeadCaretaker
<1>8. ForUser(u, r) <=> CanViewLead(u, r)
  BY <1>5, <1>6 DEF ForUser, CanViewLead, CanManageAll, IsTeamLead, IsTelesell, IsLeadCaretaker,
                    CanEditCustomerLead
<1> QED
  BY <1>3, <1>4, <1>7, <1>8 DEF Filter, Wanted

-----------------------------------------------------------------------------
(* The inductive invariant.                                                *)

Listed(x) == {x.listed[i] : i \in DOMAIN x.listed}

(* A lead that was left alone is listed once at most.                      *)
ListedOnce(x) ==
    \A i, j \in DOMAIN x.listed :
        x.listed[i] = x.listed[j] /\ x.listed[i] \notin x.changed => i = j

(* The leads after the cursor.                                             *)
Coming(q, cursor, at) ==
    {l \in Lead : cursor # NoCursor => Ahead(q.sort, Key(q.sort, l, at), cursor)}

WalkIsTyped(x) ==
    /\ DOMAIN x = {"user", "query", "cursor", "at", "more", "listed", "always", "changed"}
    /\ x.listed \in Seq(Lead) /\ x.always \subseteq Lead /\ x.changed \subseteq Lead

(* Before a page: of the leads left alone the listed ones are behind the   *)
(* cursor, and those that belong to the queue and are not are ahead.       *)
WalkIsReady(x, q, cursor, at) ==
    /\ WalkIsTyped(x) /\ ListedOnce(x)
    /\ cursor = NoCursor \/ IsKey(q.sort, cursor)
    /\ \A l \in Listed(x) \ x.changed : l \notin Coming(q, cursor, at)
    /\ \A l \in x.always \ x.changed : l \in Listed(x) \/ l \in Coming(q, cursor, at)
    /\ Len(x.listed) + Cardinality(Coming(q, cursor, at)) <= Leads + changes

(* The query is one the user may make.                                     *)
QueryIsAllowed(u, q) ==
    /\ u \in Viewers
    /\ \E q0 \in Requests : MayUse(u, q0.kind) /\ q = Restricted(u, q0)

WalkIsSound(x) ==
    /\ WalkIsTyped(x) /\ ListedOnce(x)
    /\ QueryIsAllowed(x.user, x.query) /\ x.at \in Nat /\ x.more \in BOOLEAN
    /\ x.more => x.cursor # NoCursor /\ WalkIsReady(x, x.query, x.cursor, x.at)
    /\ ~ x.more => x.always \ x.changed \subseteq Listed(x) /\ Len(x.listed) <= Leads + changes

IInv ==
    /\ now \in Nat /\ changes \in 0..MaxChanges
    /\ rows \in [Lead -> RowSet]
    /\ walk = Closed \/ WalkIsSound(walk)

-----------------------------------------------------------------------------
(* One page.                                                               *)

(* x is the walk w with one more page: the first m of the rows r.          *)
IsShown(x, w, u, q, cursor, at, r, m) ==
    /\ Lists(r, Found(u, q, cursor, at), Ranked(q.sort, at))
    /\ m = IF Len(r) < PageSize THEN Len(r) ELSE PageSize
    /\ WalkIsTyped(x)
    /\ x.user = u /\ x.query = q /\ x.at = at /\ x.changed = w.changed
    /\ x.more \in BOOLEAN /\ (x.more <=> Len(r) > PageSize)
    /\ x.always = w.always \cap WantedNow(u, q, at)
    /\ Len(x.listed) = Len(w.listed) + m
    /\ \A i \in 1..Len(w.listed) : x.listed[i] = w.listed[i]
    /\ \A i \in 1..m : x.listed[Len(w.listed) + i] = r[i]
    /\ x.more => x.cursor = Key(q.sort, r[m], at)

(* ShowPage lists the first rows that the query finds.                     *)
LEMMA PageIsShown ==
    ASSUME rows \in [Lead -> RowSet], NEW u, NEW q, NEW cursor, NEW at, NEW w, WalkIsTyped(w),
           ShowPage(u, q, cursor, at, w)
    PROVE  \E x, r, m : x = walk' /\ IsShown(x, w, u, q, cursor, at, r, m)
<1>1. Found(u, q, cursor, at) \in SUBSET Lead
  BY DEF Found
<1>2. PICK r : r = Page(u, q, cursor, at)
  OBVIOUS
<1>3. Lists(r, Found(u, q, cursor, at), Ranked(q.sort, at))
  BY <1>1, <1>2, LeadsAreRanked, PageIsListed
<1>4. r \in Seq(Lead) /\ Len(r) \in Nat
  <2>1. r \in Seq(Found(u, q, cursor, at))
    BY <1>3 DEF Lists
  <2>2. Len(r) \in Nat /\ DOMAIN r = 1..Len(r) /\ \A i \in 1..Len(r) : r[i] \in Lead
    BY <1>1, <2>1
  <2> QED
    BY <2>1, <2>2
<1>5. PICK m : m = IF Len(r) < PageSize THEN Len(r) ELSE PageSize
  OBVIOUS
<1>6. m \in Nat /\ m <= Len(r) /\ PageSize \in Nat \ {0}
  BY <1>4, <1>5, PagesAreNotEmpty
<1>7. PICK items : items = SubSeq(r, 1, m)
  OBVIOUS
<1>8. items \in Seq(Lead) /\ Len(items) = m /\ \A i \in 1..m : items[i] = r[i]
  BY <1>4, <1>6, <1>7
<1>9. PICK more \in BOOLEAN : more = (Len(r) > PageSize)
  <2>1. (Len(r) > PageSize) \in BOOLEAN
    BY <1>6
  <2> QED
    BY <2>1, Zenon
<1>10. walk' = [w EXCEPT !.user = u, !.query = q, !.at = at, !.more = more,
                         !.listed = @ \o items, !.always = @ \cap WantedNow(u, q, at),
                         !.cursor = IF more THEN Key(q.sort, items[PageSize], at) ELSE NoCursor]
  BY <1>2, <1>5, <1>7, <1>9 DEF ShowPage
<1>11. PICK x : x = walk'
  OBVIOUS
<1>12. /\ DOMAIN x = {"user", "query", "cursor", "at", "more", "listed", "always", "changed"}
       /\ x.user = u /\ x.query = q /\ x.at = at /\ x.changed = w.changed /\ x.more = more
       /\ x.always = w.always \cap WantedNow(u, q, at)
       /\ x.listed = w.listed \o items
       /\ more => x.cursor = Key(q.sort, items[PageSize], at)
  BY <1>10, <1>11 DEF WalkIsTyped
<1>13. w.listed \in Seq(Lead) /\ w.always \subseteq Lead /\ w.changed \subseteq Lead
  BY DEF WalkIsTyped
<1>14. /\ x.listed \in Seq(Lead) /\ Len(x.listed) = Len(w.listed) + m
       /\ \A i \in 1..Len(w.listed) : x.listed[i] = w.listed[i]
       /\ \A i \in 1..m : x.listed[Len(w.listed) + i] = r[i]
  <2>1. PICK s \in Seq(Lead) : s = w.listed
    BY <1>13
  <2>2. /\ s \o items \in Seq(Lead) /\ Len(s \o items) = Len(s) + m
        /\ \A i \in 1..Len(s) : (s \o items)[i] = s[i]
        /\ \A i \in 1..m : (s \o items)[Len(s) + i] = items[i]
    BY <1>6, <1>8
  <2> QED
    BY <1>8, <1>12, <2>1, <2>2
<1>15. more => x.cursor = Key(q.sort, r[m], at)
  <2>1. Len(r) > PageSize => m = PageSize /\ PageSize \in 1..m
    BY <1>4, <1>5, <1>6
  <2>2. more => items[PageSize] = r[m]
    BY <1>8, <1>9, <2>1
  <2> QED
    BY <1>12, <2>2
<1>16. WalkIsTyped(x)
  BY <1>12, <1>13, <1>14 DEF WalkIsTyped
<1>17. IsShown(x, w, u, q, cursor, at, r, m)
  <2>1. x.more \in BOOLEAN /\ (x.more <=> Len(r) > PageSize)
    BY <1>9, <1>12
  <2>2. x.more => x.cursor = Key(q.sort, r[m], at)
    BY <1>12, <1>15
  <2> QED
    BY <1>3, <1>5, <1>12, <1>14, <1>16, <2>1, <2>2 DEF IsShown
<1> QED
  BY <1>11, <1>17

(* A page's rows: they were found after the cursor, each once, in order.   *)
LEMMA RowsOfPage ==
    ASSUME rows \in [Lead -> RowSet], NEW x, NEW w, NEW u, NEW q, NEW cursor, NEW at, NEW r, NEW m,
           IsShown(x, w, u, q, cursor, at, r, m)
    PROVE  /\ Len(r) \in Nat /\ m \in Nat /\ m <= Len(r)
           /\ \A i \in 1..Len(r) : r[i] \in Found(u, q, cursor, at)
           /\ \A l \in Found(u, q, cursor, at) : \E i \in 1..Len(r) : r[i] = l
           /\ \A i, j \in 1..Len(r) : r[i] = r[j] => i = j
           /\ \A i, j \in 1..Len(r) : i < j =>
                  Before(q.sort, Key(q.sort, r[i], at), Key(q.sort, r[j], at))
           /\ x.more => m \in 1..Len(r)
           /\ ~ x.more => m = Len(r)
<1> DEFINE F == Found(u, q, cursor, at)
           R == Ranked(q.sort, at)
<1>1. F \in SUBSET Lead
  BY DEF Found
<1>2. Lists(r, F, R)
  BY DEF IsShown
<1>3. IsFiniteSet(F) /\ Orders(R, F)
  BY <1>1, LeadsAreRanked
<1>4. r \in Seq(F) /\ \A l \in F : \E i \in DOMAIN r : r[i] = l
  BY <1>2 DEF Lists
<1>5. \A i, j \in DOMAIN r : i < j => Before(q.sort, Key(q.sort, r[i], at), Key(q.sort, r[j], at))
  BY <1>2 DEF Lists, Ranked
<1> HIDE DEF F, R
<1>6. \A i, j \in DOMAIN r : r[i] = r[j] => i = j
  BY <1>2, <1>3, ListingIsBijective
<1>7. Len(r) \in Nat /\ DOMAIN r = 1..Len(r) /\ \A i \in 1..Len(r) : r[i] \in F
  BY <1>4
<1>8. /\ m = IF Len(r) < PageSize THEN Len(r) ELSE PageSize
      /\ x.more <=> Len(r) > PageSize
  BY DEF IsShown
<1>9. /\ m \in Nat /\ m <= Len(r)
      /\ Len(r) > PageSize => m \in 1..Len(r)
      /\ ~ (Len(r) > PageSize) => m = Len(r)
  <2>1. PICK n, size : n = Len(r) /\ size = PageSize
    OBVIOUS
  <2>2. n \in Nat /\ size \in Nat \ {0} /\ m = IF n < size THEN n ELSE size
    BY <1>7, <1>8, <2>1, PagesAreNotEmpty
  <2>3. /\ m \in Nat /\ m <= n
        /\ n > size => m \in 1..n
        /\ ~ (n > size) => m = n
    BY <2>2
  <2> QED
    BY <2>1, <2>3
<1> QED
  BY <1>4, <1>5, <1>6, <1>7, <1>8, <1>9 DEF F

(* What comes after a row that was found came after the old cursor, and    *)
(* the rows before it do not.                                              *)
LEMMA CursorMovesOn ==
    ASSUME rows \in [Lead -> RowSet], NEW sort, NEW q, q.sort = sort, NEW cursor, NEW at,
           cursor = NoCursor \/ IsKey(sort, cursor),
           NEW k \in Coming(q, cursor, at), NEW c, c = Key(sort, k, at)
    PROVE  /\ IsKey(sort, c) /\ c # NoCursor
           /\ \A l \in Lead : l \in Coming(q, c, at) <=> Before(sort, c, Key(sort, l, at))
           /\ Coming(q, c, at) \subseteq Coming(q, cursor, at)
<1>1. k \in Lead
  BY DEF Coming
<1>2. IsKey(sort, c)
  BY <1>1, LeadsHaveKeys
<1>3. c # NoCursor
  <2>1. DOMAIN c \in {1..3, 1..2}
    BY <1>2 DEF IsKey
  <2>2. DOMAIN NoCursor = {}
    BY DEF NoCursor
  <2>3. 1 \in DOMAIN c
    BY <2>1
  <2> QED
    BY <2>2, <2>3
<1>4. \A l \in Lead : IsKey(sort, Key(sort, l, at))
  BY LeadsHaveKeys
<1>5. \A l \in Lead : l \in Coming(q, c, at) <=> Before(sort, c, Key(sort, l, at))
  BY <1>2, <1>3, <1>4, BeforeIsFirstColumn DEF Coming
<1>6. ASSUME NEW l \in Coming(q, c, at), cursor # NoCursor
      PROVE  Ahead(sort, Key(sort, l, at), cursor)
  <2>1. l \in Lead /\ IsKey(sort, cursor) /\ IsKey(sort, Key(sort, l, at))
    BY <1>4, <1>6 DEF Coming
  <2>2. Before(sort, c, Key(sort, l, at))
    BY <1>5, <1>6, <2>1
  <2>3. Ahead(sort, c, cursor)
    BY <1>6 DEF Coming
  <2>4. Before(sort, cursor, c)
    BY <1>2, <2>1, <2>3, BeforeIsFirstColumn
  <2>5. Before(sort, cursor, Key(sort, l, at))
    BY <1>2, <2>1, <2>2, <2>4, KeysAreOrdered
  <2> QED
    BY <2>1, <2>5, BeforeIsFirstColumn
<1> QED
  BY <1>2, <1>3, <1>5, <1>6 DEF Coming

(* A page leaves the walk sound.                                           *)
LEMMA PageKeepsSound ==
    ASSUME rows \in [Lead -> RowSet], changes \in Nat, NEW x, NEW w, NEW u, NEW q, NEW cursor,
           NEW at \in Nat, NEW r, NEW m,
           WalkIsReady(w, q, cursor, at), QueryIsAllowed(u, q), IsShown(x, w, u, q, cursor, at, r, m)
    PROVE  WalkIsSound(x)
<1>1. PICK C : C = Coming(q, cursor, at)
  OBVIOUS
<1>2. PICK F : F = Found(u, q, cursor, at)
  OBVIOUS
<1>3. F \subseteq C /\ C \subseteq Lead /\ IsFiniteSet(Lead) /\ IsFiniteSet(C)
  <2>1. F \subseteq C /\ C \subseteq Lead
    BY <1>1, <1>2 DEF Found, Coming
  <2> QED
    BY <2>1, LeadsAreFinite, FS_Subset
<1>4. PICK K \in [Lead -> {Key(q.sort, l, at) : l \in Lead}] : \A l \in Lead : K[l] = Key(q.sort, l, at)
  <2>1. [l \in Lead |-> Key(q.sort, l, at)] \in [Lead -> {Key(q.sort, l, at) : l \in Lead}]
    OBVIOUS
  <2> QED
    BY <2>1
<1>5. /\ Len(r) \in Nat /\ m \in Nat /\ m <= Len(r)
      /\ \A i \in 1..Len(r) : r[i] \in F
      /\ \A l \in F : \E i \in 1..Len(r) : r[i] = l
      /\ \A i, j \in 1..Len(r) : r[i] = r[j] => i = j
      /\ \A i, j \in 1..Len(r) : i < j => Before(q.sort, Key(q.sort, r[i], at), Key(q.sort, r[j], at))
      /\ x.more => m \in 1..Len(r)
      /\ ~ x.more => m = Len(r)
  BY <1>2, RowsOfPage
<1>6. \A i, j \in 1..Len(r) : i < j => Before(q.sort, K[r[i]], K[r[j]])
  BY <1>3, <1>4, <1>5
<1>7. PICK n, old :
          /\ n \in Nat /\ old \in [1..n -> Lead]
          /\ Len(w.listed) = n /\ DOMAIN w.listed = 1..n
          /\ \A i \in 1..n : w.listed[i] = old[i]
  <2>1. w.listed \in Seq(Lead)
    BY DEF WalkIsReady, WalkIsTyped
  <2>2. Len(w.listed) \in Nat /\ DOMAIN w.listed = 1..Len(w.listed) /\ w.listed \in [1..Len(w.listed) -> Lead]
    BY <2>1
  <2> QED
    BY <2>2
<1>8. /\ DOMAIN x.listed = 1..(n + m) /\ Len(x.listed) = n + m
      /\ \A i \in 1..n : x.listed[i] = old[i]
      /\ \A i \in 1..m : x.listed[n + i] = r[i]
  <2>1. Len(x.listed) = n + m
    BY <1>7 DEF IsShown
  <2>2. x.listed \in Seq(Lead)
    BY DEF IsShown, WalkIsTyped
  <2>3. DOMAIN x.listed = 1..Len(x.listed)
    BY <2>2
  <2> QED
    BY <1>7, <2>1, <2>3 DEF IsShown
<1>9. PICK changed : changed = w.changed /\ changed = x.changed
  BY DEF IsShown
<1>10. ASSUME NEW i \in 1..(n + m)
       PROVE  \/ i \in 1..n /\ x.listed[i] = old[i]
              \/ i > n /\ i - n \in 1..m /\ x.listed[i] = r[i - n]
  <2>1. CASE i <= n
    BY <1>7, <1>8, <2>1
  <2>2. CASE i > n
    <3>1. i - n \in 1..m /\ i = n + (i - n)
      BY <1>5, <1>7, <2>2
    <3> QED
      BY <1>8, <2>2, <3>1
  <2> QED
    BY <1>7, <2>1, <2>2
<1>11. \A i \in 1..m : i \in 1..Len(r) /\ r[i] \in F /\ r[i] \in C /\ r[i] \in Lead
  BY <1>3, <1>5
<1>12. \A i \in 1..n : old[i] \in C => old[i] \in changed
  <2>1. \A l \in Listed(w) \ w.changed : l \notin Coming(q, cursor, at)
    BY DEF WalkIsReady
  <2>2. \A i \in 1..n : old[i] \in Listed(w)
    BY <1>7 DEF Listed
  <2> QED
    BY <1>1, <1>9, <2>1, <2>2
<1>13. ListedOnce(x)
  <2>1. ASSUME NEW i \in 1..(n + m), NEW j \in 1..(n + m),
               x.listed[i] = x.listed[j], x.listed[i] \notin changed
        PROVE  i = j
    <3>1. CASE i \in 1..n /\ j \in 1..n /\ x.listed[i] = old[i] /\ x.listed[j] = old[j]
      BY <1>7, <1>9, <2>1, <3>1 DEF WalkIsReady, ListedOnce
    <3>2. CASE i \in 1..n /\ x.listed[i] = old[i] /\ j - n \in 1..m /\ x.listed[j] = r[j - n]
      BY <1>11, <1>12, <2>1, <3>2
    <3>3. CASE j \in 1..n /\ x.listed[j] = old[j] /\ i - n \in 1..m /\ x.listed[i] = r[i - n]
      BY <1>11, <1>12, <2>1, <3>3
    <3>4. CASE /\ i - n \in 1..m /\ x.listed[i] = r[i - n]
               /\ j - n \in 1..m /\ x.listed[j] = r[j - n]
      <4>1. i - n = j - n
        BY <1>5, <1>11, <2>1, <3>4
      <4> QED
        BY <1>5, <1>7, <4>1
    <3> QED
      BY <1>10, <3>1, <3>2, <3>3, <3>4
  <2> QED
    BY <1>8, <1>9, <2>1 DEF ListedOnce
<1>14. Listed(x) = {old[i] : i \in 1..n} \cup {r[i] : i \in 1..m}
  <2>1. \A i \in 1..n : old[i] \in Listed(x)
    <3>1. \A i \in 1..n : i \in 1..(n + m)
      BY <1>5, <1>7
    <3> QED
      BY <1>8, <3>1 DEF Listed
  <2>2. \A i \in 1..m : r[i] \in Listed(x)
    <3>1. \A i \in 1..m : n + i \in 1..(n + m)
      BY <1>5, <1>7
    <3> QED
      BY <1>8, <3>1 DEF Listed
  <2>3. \A l \in Listed(x) : l \in {old[i] : i \in 1..n} \cup {r[i] : i \in 1..m}
    BY <1>8, <1>10 DEF Listed
  <2> QED
    BY <2>1, <2>2, <2>3
(* A lead always wanted is listed by now, or is among the rows left.       *)
<1>15. ASSUME NEW l \in x.always \ changed
       PROVE  l \in Listed(x) \/ \E i \in 1..Len(r) : i > m /\ r[i] = l
  <2>1. l \in w.always /\ l \in Lead /\ Wanted(u, q, rows[l], at)
    BY <1>15 DEF IsShown, WantedNow
  <2>2. CASE l \in Listed(w)
    BY <1>7, <1>14, <2>2 DEF Listed
  <2>3. CASE l \notin Listed(w)
    <3>1. l \in C
      BY <1>1, <1>9, <1>15, <2>1, <2>3 DEF WalkIsReady
    <3>2. ForUser(u, rows[l]) /\ Filter(q, rows[l], at)
      <4>1. PICK q0 \in Requests : u \in Viewers /\ MayUse(u, q0.kind) /\ q = Restricted(u, q0)
        BY DEF QueryIsAllowed
      <4>2. rows[l] \in RowSet
        BY <2>1
      <4> QED
        BY <2>1, <4>1, <4>2, FilterIsWanted
    <3>3. l \in F
      BY <1>1, <1>2, <2>1, <3>1, <3>2 DEF Found, Coming
    <3>4. PICK i \in 1..Len(r) : r[i] = l
      BY <1>5, <3>3
    <3>5. i > m \/ i \in 1..m
      BY <1>5
    <3> QED
      BY <1>14, <3>4, <3>5
  <2> QED
    BY <2>2, <2>3
<1>16. PICK Items : Items = {r[i] : i \in 1..m}
  OBVIOUS
<1>17. Items \subseteq C /\ IsFiniteSet(Items) /\ Cardinality(Items) = m
  <2>1. Items \subseteq C
    BY <1>11, <1>16
  <2>2. PICK f \in [1..m -> Items] : \A i \in 1..m : f[i] = r[i]
    <3>1. [i \in 1..m |-> r[i]] \in [1..m -> Items]
      BY <1>16
    <3> QED
      BY <3>1
  <2>3. \A i, j \in 1..m : f[i] = f[j] => i = j
    BY <1>5, <1>11, <2>2
  <2>4. \A y \in Items : \E i \in 1..m : f[i] = y
    BY <1>16, <2>2
  <2>5. f \in Bijection(1..m, Items)
    BY <2>2, <2>3, <2>4 DEF Bijection, Injection, Surjection, IsInjective
  <2>6. ExistsBijection(1..m, Items)
    BY <2>5 DEF ExistsBijection
  <2> QED
    BY <1>5, <2>1, <2>6, FS_CountingElements, FS_NatBijection
<1>18. n + Cardinality(C) <= Leads + changes /\ Cardinality(C) \in Nat
  BY <1>1, <1>3, <1>7, FS_CardinalityType DEF WalkIsReady
<1>19. ASSUME NEW D \in SUBSET C, D \cap Items = {}
       PROVE  n + m + Cardinality(D) <= Leads + changes
  <2>1. IsFiniteSet(D) /\ Cardinality(D) \in Nat
    BY <1>3, <1>19, FS_Subset, FS_CardinalityType
  <2>2. Cardinality(D \cup Items) = Cardinality(D) + Cardinality(Items)
    <3>1. Cardinality(D \cup Items) = Cardinality(D) + Cardinality(Items) - Cardinality(D \cap Items)
      BY <1>17, <2>1, FS_Union
    <3>2. Cardinality(D \cap Items) = 0
      BY <1>19, FS_EmptySet
    <3> QED
      BY <1>5, <1>17, <2>1, <3>1, <3>2
  <2>3. Cardinality(D \cup Items) <= Cardinality(C)
    <3>1. D \cup Items \subseteq C
      BY <1>17
    <3> QED
      BY <1>3, <3>1, FS_Subset
  <2> QED
    BY <1>5, <1>7, <1>17, <1>18, <2>1, <2>2, <2>3, QueueBoundsAreNat
<1>20. ASSUME ~ x.more
       PROVE  x.always \ x.changed \subseteq Listed(x) /\ Len(x.listed) <= Leads + changes
  <2>1. n + m <= Leads + changes
    <3>1. n + m + Cardinality({}) <= Leads + changes
      BY <1>19
    <3> QED
      BY <1>5, <1>7, <3>1, FS_EmptySet
  <2>2. m = Len(r)
    BY <1>5, <1>20
  <2>3. \A i \in 1..Len(r) : ~ (i > m)
    BY <1>5, <2>2
  <2> QED
    BY <1>8, <1>9, <1>15, <2>1, <2>3
<1>21. ASSUME x.more
       PROVE  x.cursor # NoCursor /\ WalkIsReady(x, x.query, x.cursor, x.at)
  <2>1. m \in 1..Len(r) /\ m \in 1..m /\ r[m] \in C /\ r[m] \in Lead
    BY <1>5, <1>11, <1>21
  <2>2. PICK c : c = K[r[m]] /\ c = Key(q.sort, r[m], at) /\ c = x.cursor
    BY <1>4, <1>21, <2>1 DEF IsShown
  <2>3. cursor = NoCursor \/ IsKey(q.sort, cursor)
    BY DEF WalkIsReady
  <2>4. PICK D : D = Coming(q, c, at)
    OBVIOUS
  <2>5. /\ IsKey(q.sort, c) /\ c # NoCursor /\ D \subseteq C
        /\ \A l \in Lead : l \in D <=> Before(q.sort, c, Key(q.sort, l, at))
    BY <1>1, <2>1, <2>2, <2>3, <2>4, CursorMovesOn
  <2>6. \A l \in Lead : l \in D <=> Before(q.sort, c, K[l])
    BY <1>4, <2>5
  <2>7. \A l \in Lead : IsKey(q.sort, K[l])
    BY <1>4, LeadsHaveKeys
  <2>8. \A i \in 1..m : r[i] \notin D
    <3>1. ASSUME NEW i \in 1..m, Before(q.sort, c, K[r[i]]) PROVE FALSE
      <4>1. r[i] \in Lead /\ IsKey(q.sort, K[r[i]])
        BY <1>11, <2>7
      <4>2. CASE i = m
        BY <2>2, <2>5, <3>1, <4>2, KeysAreOrdered
      <4>3. CASE i < m
        <5>1. Before(q.sort, K[r[i]], c)
          BY <1>6, <1>11, <2>1, <2>2, <4>3
        <5>2. Before(q.sort, c, c)
          BY <2>5, <3>1, <4>1, <5>1, KeysAreOrdered
        <5> QED
          BY <2>5, <5>2, KeysAreOrdered
      <4> QED
        BY <1>5, <4>2, <4>3
    <3> QED
      BY <1>11, <2>6, <3>1
  <2>9. \A l \in Listed(x) \ changed : l \notin D
    BY <1>12, <1>14, <2>5, <2>8
  <2>10. \A l \in x.always \ changed : l \in Listed(x) \/ l \in D
    <3>1. \A i \in 1..Len(r) : i > m => r[i] \in D
      <4>1. \A i \in 1..Len(r) : i > m => Before(q.sort, K[r[m]], K[r[i]])
        BY <1>5, <1>6, <2>1
      <4>2. \A i \in 1..Len(r) : r[i] \in Lead
        BY <1>3, <1>5
      <4> QED
        BY <2>2, <2>6, <4>1, <4>2
    <3> QED
      BY <1>15, <3>1
  <2>11. Len(x.listed) + Cardinality(D) <= Leads + changes
    <3>1. D \cap Items = {}
      BY <1>16, <2>8
    <3> QED
      BY <1>8, <1>19, <2>5, <3>1
  <2>12. x.query = q /\ x.at = at /\ WalkIsTyped(x)
    BY DEF IsShown
  <2> QED
    BY <1>9, <1>13, <2>2, <2>4, <2>5, <2>9, <2>10, <2>11, <2>12 DEF WalkIsReady
<1>22. x.user = u /\ x.query = q /\ x.at = at /\ x.more \in BOOLEAN /\ WalkIsTyped(x)
  BY DEF IsShown
<1> QED
  BY <1>13, <1>20, <1>21, <1>22 DEF WalkIsSound

-----------------------------------------------------------------------------
(* The invariant is inductive.                                             *)

(* A sound walk stays sound while rows stay.                               *)
LEMMA SoundnessStays ==
    ASSUME NEW x, x = walk', rows' = rows, changes' = changes, WalkIsSound(x)
    PROVE  WalkIsSound(walk)'
BY DEF WalkIsSound, WalkIsReady, WalkIsTyped, ListedOnce, Listed, Coming, Key, QueryIsAllowed

(* The first page.                                                         *)
LEMMA OpenKeepsSound ==
    ASSUME rows \in [Lead -> RowSet], changes \in Nat, now \in Nat,
           NEW u \in Viewers, NEW q0 \in Requests, Open(u, q0)
    PROVE  \E x : x = walk' /\ WalkIsSound(x)
<1>1. PICK w, q : w = [Closed EXCEPT !.always = Lead] /\ q = Restricted(u, q0)
  OBVIOUS
<1>2. /\ DOMAIN w = {"user", "query", "cursor", "at", "more", "listed", "always", "changed"}
      /\ w.listed = <<>> /\ w.always = Lead /\ w.changed = {}
  BY <1>1 DEF Closed
<1>3. PICK s \in Seq(Lead) : s = w.listed /\ Len(s) = 0 /\ DOMAIN s = {}
  <2>1. <<>> \in Seq(Lead) /\ Len(<<>>) = 0 /\ DOMAIN <<>> = {}
    OBVIOUS
  <2> QED
    BY <1>2, <2>1
<1>4. WalkIsTyped(w)
  BY <1>2, <1>3 DEF WalkIsTyped
<1>5. Coming(q, NoCursor, now) = Lead
  BY DEF Coming
<1>6. Len(w.listed) + Cardinality(Coming(q, NoCursor, now)) <= Leads + changes
  BY <1>3, <1>5, LeadsAreFinite, QueueBoundsAreNat
<1>7. Listed(w) = {} /\ ListedOnce(w)
  BY <1>3 DEF Listed, ListedOnce
<1>8. WalkIsReady(w, q, NoCursor, now)
  BY <1>2, <1>4, <1>5, <1>6, <1>7 DEF WalkIsReady
<1>9. QueryIsAllowed(u, q)
  BY <1>1 DEF Open, QueryIsAllowed
<1>10. ShowPage(u, q, NoCursor, now, w)
  BY <1>1 DEF Open
<1>11. PICK x, r, m : x = walk' /\ IsShown(x, w, u, q, NoCursor, now, r, m)
  BY <1>4, <1>10, PageIsShown
<1> QED
  BY <1>8, <1>9, <1>11, PageKeepsSound

(* A cursor means the same at the instant the next page is computed at.    *)
LEMMA CursorKeepsItsPlace ==
    ASSUME NEW x, NEW q, q = x.query, NEW cursor, WalkIsReady(x, q, cursor, x.at)
    PROVE  WalkIsReady(x, q, cursor, PageInstant(x))
<1>1. CASE q.sort = "WORK_PRIORITY"
  BY <1>1 DEF PageInstant
<1>2. CASE q.sort # "WORK_PRIORITY"
  <2>1. \A l \in Lead : Key(q.sort, l, PageInstant(x)) = Key(q.sort, l, x.at)
    BY <1>2 DEF Key
  <2>2. Coming(q, cursor, PageInstant(x)) = Coming(q, cursor, x.at)
    BY <2>1 DEF Coming
  <2> QED
    BY <2>2 DEF WalkIsReady
<1> QED
  BY <1>1, <1>2

(* The next page.                                                          *)
LEMMA MoreKeepsSound ==
    ASSUME rows \in [Lead -> RowSet], changes \in Nat, now \in Nat, WalkIsSound(walk), More
    PROVE  \E x : x = walk' /\ WalkIsSound(x)
<1>1. PICK w : w = walk
  OBVIOUS
<1>2. WalkIsSound(w) /\ w.more
  BY <1>1 DEF More
<1>3. WalkIsReady(w, w.query, w.cursor, PageInstant(w))
  BY <1>2, CursorKeepsItsPlace DEF WalkIsSound
<1>4. PageInstant(w) \in Nat
  BY <1>2 DEF PageInstant, WalkIsSound
<1>5. QueryIsAllowed(w.user, w.query) /\ WalkIsTyped(w)
  BY <1>2 DEF WalkIsSound
<1>6. ShowPage(w.user, w.query, w.cursor, PageInstant(w), w)
  BY <1>1 DEF More
<1>7. PICK x, r, m : x = walk' /\ IsShown(x, w, w.user, w.query, w.cursor, PageInstant(w), r, m)
  BY <1>5, <1>6, PageIsShown
<1> QED
  BY <1>3, <1>4, <1>5, <1>7, PageKeepsSound

(* A row changes: its lead may come again, or be missed, no other.         *)
LEMMA ChangeKeepsSound ==
    ASSUME rows \in [Lead -> RowSet], changes \in Nat, WalkIsSound(walk),
           NEW l \in Lead, NEW r \in RowSet, Change(l, r)
    PROVE  WalkIsSound(walk)'
<1>1. PICK w, x : w = walk /\ x = walk'
  OBVIOUS
<1>2. WalkIsSound(w) /\ w.more /\ changes' = changes + 1 /\ rows' = [rows EXCEPT ![l] = r]
  BY <1>1 DEF Change
<1>3. WalkIsTyped(w) /\ w.cursor # NoCursor /\ WalkIsReady(w, w.query, w.cursor, w.at)
  BY <1>2 DEF WalkIsSound
<1>4. x = [w EXCEPT !.changed = @ \cup {l}]
  BY <1>1 DEF Change
<1>5. /\ DOMAIN x = {"user", "query", "cursor", "at", "more", "listed", "always", "changed"}
      /\ x.user = w.user /\ x.query = w.query /\ x.cursor = w.cursor /\ x.at = w.at
      /\ x.more = w.more /\ x.listed = w.listed /\ x.always = w.always
      /\ x.changed = w.changed \cup {l}
  BY <1>3, <1>4 DEF WalkIsTyped
<1>6. WalkIsTyped(x)
  BY <1>3, <1>5 DEF WalkIsTyped
<1>7. ListedOnce(x)
  BY <1>3, <1>5 DEF WalkIsReady, ListedOnce
<1>8. PICK C, D : /\ C = Coming(w.query, w.cursor, w.at)
                  /\ D = {k \in Lead : w.cursor # NoCursor =>
                            Ahead(w.query.sort, Key(w.query.sort, k, w.at)', w.cursor)}
  OBVIOUS
<1>9. C \subseteq Lead /\ D \subseteq Lead /\ \A k \in Lead \ {l} : k \in C <=> k \in D
  <2>1. \A k \in Lead \ {l} : rows'[k] = rows[k]
    BY <1>2
  <2>2. \A k \in Lead \ {l} : Key(w.query.sort, k, w.at)' = Key(w.query.sort, k, w.at)
    BY <2>1 DEF Key
  <2> QED
    BY <1>8, <2>2 DEF Coming
<1>10. Listed(x) = Listed(w)
  BY <1>5 DEF Listed
<1>11. /\ \A k \in Listed(x) \ x.changed : k \notin D
       /\ \A k \in x.always \ x.changed : k \in Listed(x) \/ k \in D
  <2>1. /\ \A k \in Listed(w) \ w.changed : k \notin C
        /\ \A k \in w.always \ w.changed : k \in Listed(w) \/ k \in C
        /\ w.always \subseteq Lead
    BY <1>3, <1>8 DEF WalkIsReady, WalkIsTyped
  <2> QED
    BY <1>5, <1>9, <1>10, <2>1
<1>12. Len(x.listed) + Cardinality(D) <= Leads + changes'
  <2>1. IsFiniteSet(C) /\ IsFiniteSet(D) /\ Cardinality(C) \in Nat /\ Cardinality(D) \in Nat
    BY <1>9, LeadsAreFinite, FS_Subset, FS_CardinalityType
  <2>2. IsFiniteSet(C \cup {l}) /\ Cardinality(C \cup {l}) \in {Cardinality(C), Cardinality(C) + 1}
    BY <2>1, FS_AddElement
  <2>3. D \subseteq C \cup {l}
    BY <1>9
  <2>4. Cardinality(D) <= Cardinality(C) + 1
    BY <2>1, <2>2, <2>3, FS_Subset
  <2>5. PICK n \in Nat : n = Len(w.listed)
    <3>1. w.listed \in Seq(Lead)
      BY <1>3 DEF WalkIsTyped
    <3> QED
      BY <3>1
  <2>6. n + Cardinality(C) <= Leads + changes
    BY <1>3, <1>8, <2>5 DEF WalkIsReady
  <2>7. PICK d, c \in Nat : d = Cardinality(D) /\ c = Cardinality(C) /\ d <= c + 1
    BY <2>1, <2>4
  <2>8. n + d <= Leads + (changes + 1)
    BY <1>2, <2>6, <2>7, QueueBoundsAreNat
  <2> QED
    BY <1>2, <1>5, <2>5, <2>7, <2>8
<1>13. x.cursor = NoCursor \/ IsKey(x.query.sort, x.cursor)
  BY <1>3, <1>5 DEF WalkIsReady
<1>14. QueryIsAllowed(x.user, x.query) /\ x.at \in Nat /\ x.more \in BOOLEAN /\ x.more
  BY <1>2, <1>5 DEF WalkIsSound
<1>15. D = {k \in Lead : x.cursor # NoCursor =>
              Ahead(x.query.sort, Key(x.query.sort, k, x.at)', x.cursor)}
  BY <1>5, <1>8
<1> QED
  BY <1>1, <1>3, <1>5, <1>6, <1>7, <1>11, <1>12, <1>13, <1>14, <1>15
     DEF WalkIsSound, WalkIsReady, WalkIsTyped, ListedOnce, Listed, Coming, QueryIsAllowed

(* Nobody has opened a page at first.                                      *)
LEMMA InitIInv == Init => IInv
BY QueueBoundsAreNat DEF Init, IInv

(* One case per action.                                                    *)
LEMMA NextIInv == IInv /\ [Next]_vars => IInv'
<1> SUFFICES ASSUME IInv, [Next]_vars PROVE IInv'
  OBVIOUS
<1>1. /\ now \in Nat /\ changes \in Nat /\ changes \in 0..MaxChanges
      /\ rows \in [Lead -> RowSet]
      /\ walk = Closed \/ WalkIsSound(walk)
  BY QueueBoundsAreNat DEF IInv
<1>2. \A x : x = walk' /\ rows' = rows /\ changes' = changes /\ WalkIsSound(x) => WalkIsSound(walk)'
  BY SoundnessStays
<1>3. ASSUME NEW u \in Viewers, NEW q \in Requests, Open(u, q) PROVE IInv'
  <2>1. rows' = rows /\ changes' = changes /\ now' = now
    BY <1>3 DEF Open
  <2>2. WalkIsSound(walk)'
    BY <1>1, <1>2, <1>3, <2>1, OpenKeepsSound
  <2> QED
    BY <1>1, <2>1, <2>2 DEF IInv
<1>4. CASE More
  <2>1. rows' = rows /\ changes' = changes /\ now' = now
    BY <1>4 DEF More
  <2>2. walk # Closed
    BY <1>4 DEF More, Closed
  <2>3. WalkIsSound(walk)'
    BY <1>1, <1>2, <1>4, <2>1, <2>2, MoreKeepsSound
  <2> QED
    BY <1>1, <2>1, <2>3 DEF IInv
<1>5. ASSUME NEW l \in Lead, NEW r \in RowSet, Change(l, r) PROVE IInv'
  <2>1. /\ rows' = [rows EXCEPT ![l] = r] /\ changes' = changes + 1 /\ now' = now
        /\ changes < MaxChanges /\ walk.more
    BY <1>5 DEF Change
  <2>2. walk # Closed
    BY <2>1 DEF Closed
  <2>3. WalkIsSound(walk)'
    BY <1>1, <1>5, <2>2, ChangeKeepsSound
  <2>4. rows' \in [Lead -> RowSet] /\ changes' \in 0..MaxChanges
    BY <1>1, <2>1, QueueBoundsAreNat
  <2> QED
    BY <1>1, <2>1, <2>3, <2>4 DEF IInv
<1>6. CASE Tick \/ UNCHANGED vars
  <2>1. now' \in Nat /\ rows' = rows /\ changes' = changes /\ walk' = walk
    BY <1>1, <1>6 DEF Tick, vars
  <2>2. WalkIsSound(walk) => WalkIsSound(walk)'
    BY <1>2, <2>1
  <2> QED
    BY <1>1, <2>1, <2>2 DEF IInv
<1> QED
  BY <1>3, <1>4, <1>5, <1>6 DEF Next

(* Every state of the paging is sound.                                     *)
LEMMA SpecIInv == Spec => []IInv
BY InitIInv, NextIInv, PTL DEF Spec

-----------------------------------------------------------------------------
(* What follows.                                                           *)

(* However leads change under her, a user's pages list no more rows than   *)
(* there are leads and changes of leads: paging ends (pagination.py, the   *)
(* cursor only moves on).                                                  *)
THEOREM PagingStaysTyped == Spec => []TypeOK
<1>1. ASSUME IInv PROVE TypeOK
  <2>1. ASSUME WalkIsSound(walk) PROVE Len(walk.listed) <= Leads + changes
    <3>1. CASE walk.more
      <4>1. PICK C : C = Coming(walk.query, walk.cursor, walk.at)
        OBVIOUS
      <4>2. C \subseteq Lead
        BY <4>1 DEF Coming
      <4>3. Cardinality(C) \in Nat
        BY <4>2, LeadsAreFinite, FS_Subset, FS_CardinalityType
      <4>4. PICK n \in Nat : n = Len(walk.listed)
        <5>1. walk.listed \in Seq(Lead)
          BY <2>1 DEF WalkIsSound, WalkIsTyped
        <5> QED
          BY <5>1
      <4>5. n + Cardinality(C) <= Leads + changes
        BY <2>1, <3>1, <4>1, <4>4 DEF WalkIsSound, WalkIsReady
      <4>6. changes \in Nat /\ Leads \in Nat
        BY <1>1, QueueBoundsAreNat DEF IInv
      <4> QED
        BY <4>3, <4>4, <4>5, <4>6
    <3> QED
      BY <2>1, <3>1 DEF WalkIsSound
  <2>2. WalkIsSound(walk) => /\ walk.user \in Viewers
                             /\ walk.more => walk.cursor # NoCursor
                             /\ walk.always \subseteq Lead /\ walk.changed \subseteq Lead
    BY DEF WalkIsSound, WalkIsTyped, QueryIsAllowed
  <2> QED
    BY <1>1, <2>1, <2>2 DEF IInv, TypeOK
<1> QED
  BY <1>1, SpecIInv, PTL

(* Paging to the end shows every lead that belongs to the queue throughout *)
(* and is left alone, once and only once, whatever the page size, however  *)
(* others move and the clock runs (selectors._split_work_cursor: no skips  *)
(* or duplicates around midnight).                                         *)
THEOREM PagesMissNobody == Spec => []EachIsListedOnce
<1>1. ASSUME IInv PROVE EachIsListedOnce
  <2>1. SUFFICES ASSUME walk # Closed, NEW l \in Lead \ walk.changed
                 PROVE  /\ Times(l) <= 1
                        /\ l \in walk.always /\ ~walk.more => Times(l) = 1
    BY DEF EachIsListedOnce
  <2>2. WalkIsSound(walk)
    BY <1>1, <2>1 DEF IInv
  <2>3. PICK I : I = {i \in DOMAIN walk.listed : walk.listed[i] = l}
    OBVIOUS
  <2>4. \A i, j \in I : i = j
    BY <2>1, <2>2, <2>3 DEF WalkIsSound, ListedOnce
  <2>5. CASE I = {}
    <3>1. Times(l) = 0
      BY <2>3, <2>5, FS_EmptySet DEF Times
    <3>2. l \notin Listed(walk)
      BY <2>3, <2>5 DEF Listed
    <3>3. ~walk.more => l \notin walk.always
      BY <2>1, <2>2, <3>2 DEF WalkIsSound
    <3> QED
      BY <3>1, <3>3
  <2>6. CASE I # {}
    <3>1. PICK i : I = {i}
      BY <2>4, <2>6
    <3>2. Times(l) = 1
      BY <2>3, <3>1, FS_Singleton DEF Times
    <3> QED
      BY <3>2
  <2> QED
    BY <2>5, <2>6
<1> QED
  BY <1>1, SpecIInv, PTL

(* What a filter selects is what its badge shows, for every lead on every  *)
(* day: the age presets, and the review queue (selectors.py against        *)
(* presenters.py).                                                         *)
THEOREM BadgesStayTrue == Spec => []FiltersAreTheBadges
<1>1. ASSUME IInv PROVE FiltersAreTheBadges
  <2>1. now \in Nat /\ \A l \in Lead : rows[l] \in RowSet
    BY <1>1 DEF IInv
  <2>2. \A l \in Lead : rows[l].last \in Column
    BY <2>1, RowsAreRows DEF Column
  <2>3. AgeFilterIsTheBadge
    BY <2>1, <2>2, AgeFilterIsBucket DEF AgeFilterIsTheBadge
  <2>4. ReviewFilterIsTheBadge
    BY <2>1, <2>2, ReviewFilterIsCandidate DEF ReviewFilterIsTheBadge
  <2> QED
    BY <2>3, <2>4 DEF FiltersAreTheBadges
<1> QED
  BY <1>1, SpecIInv, PTL

(* The rows a page adds are wanted there.                                  *)
LEMMA PageIsWanted ==
    ASSUME rows \in [Lead -> RowSet], NEW x, NEW w, NEW u, NEW q, NEW cursor, NEW at \in Nat, NEW r,
           NEW m, WalkIsTyped(w), QueryIsAllowed(u, q), IsShown(x, w, u, q, cursor, at, r, m)
    PROVE  \A i \in DOMAIN x.listed \ DOMAIN w.listed :
               Wanted(x.user, x.query, rows[x.listed[i]], x.at)
<1>1. PICK n : n \in Nat /\ n = Len(w.listed) /\ DOMAIN w.listed = 1..n
  <2>1. w.listed \in Seq(Lead)
    BY DEF WalkIsTyped
  <2> QED
    BY <2>1
<1>2. /\ m \in Nat /\ m <= Len(r) /\ Len(r) \in Nat
      /\ \A i \in 1..Len(r) : r[i] \in Found(u, q, cursor, at)
  BY RowsOfPage
<1>3. DOMAIN x.listed = 1..(n + m) /\ \A i \in 1..m : x.listed[n + i] = r[i]
  <2>1. x.listed \in Seq(Lead)
    BY DEF IsShown, WalkIsTyped
  <2>2. DOMAIN x.listed = 1..Len(x.listed)
    BY <2>1
  <2> QED
    BY <1>1, <2>2 DEF IsShown
<1>4. x.user = u /\ x.query = q /\ x.at = at
  BY DEF IsShown
<1>5. PICK q0 \in Requests : u \in Viewers /\ MayUse(u, q0.kind) /\ q = Restricted(u, q0)
  BY DEF QueryIsAllowed
<1>6. ASSUME NEW i \in (1..(n + m)) \ (1..n) PROVE Wanted(u, q, rows[x.listed[i]], at)
  <2>1. i - n \in 1..m /\ n + (i - n) = i /\ i - n \in 1..Len(r)
    BY <1>1, <1>2
  <2>2. PICK l : l = x.listed[i] /\ l \in Found(u, q, cursor, at)
    BY <1>2, <1>3, <2>1
  <2>3. l \in Lead /\ ForUser(u, rows[l]) /\ Filter(q, rows[l], at)
    BY <2>2 DEF Found
  <2>4. rows[l] \in RowSet
    BY <2>3
  <2> QED
    BY <1>5, <2>2, <2>3, <2>4, FilterIsWanted
<1> QED
  BY <1>1, <1>3, <1>4, <1>6

(* A page lists what its user may see and asked for, and nothing else, for *)
(* every user the page is open to and every query (scoping.for_user        *)
(* mirrors can_view_lead).                                                 *)
THEOREM PagesShowOnlyTheWanted == Spec => OnlyWantedAreListed
<1> DEFINE Shown == \A i \in DOMAIN walk'.listed \ DOMAIN walk.listed :
                        Wanted(walk'.user, walk'.query, rows[walk'.listed[i]], walk'.at)
<1>1. ASSUME IInv, [Next]_vars PROVE [Shown]_vars
  <2>1. rows \in [Lead -> RowSet] /\ now \in Nat /\ (walk = Closed \/ WalkIsSound(walk))
    BY <1>1 DEF IInv
  <2>2. ASSUME NEW u \in Viewers, NEW q0 \in Requests, Open(u, q0) PROVE Shown
    <3>1. PICK w, q : w = [Closed EXCEPT !.always = Lead] /\ q = Restricted(u, q0)
      OBVIOUS
    <3>2. /\ DOMAIN w = {"user", "query", "cursor", "at", "more", "listed", "always", "changed"}
          /\ w.listed = <<>> /\ w.always = Lead /\ w.changed = {}
      BY <3>1 DEF Closed
    <3>3. WalkIsTyped(w)
      <4>1. <<>> \in Seq(Lead)
        OBVIOUS
      <4> QED
        BY <3>2, <4>1 DEF WalkIsTyped
    <3>4. ShowPage(u, q, NoCursor, now, w) /\ QueryIsAllowed(u, q) /\ walk = Closed
      BY <2>2, <3>1 DEF Open, QueryIsAllowed
    <3>5. PICK x, r, m : x = walk' /\ IsShown(x, w, u, q, NoCursor, now, r, m)
      BY <2>1, <3>3, <3>4, PageIsShown
    <3>6. walk.listed = w.listed
      BY <3>2, <3>4 DEF Closed
    <3> QED
      BY <2>1, <3>3, <3>4, <3>5, <3>6, PageIsWanted
  <2>3. CASE More
    <3>1. PICK w : w = walk
      OBVIOUS
    <3>2. WalkIsSound(w)
      BY <2>1, <2>3, <3>1 DEF More, Closed
    <3>3. /\ QueryIsAllowed(w.user, w.query) /\ WalkIsTyped(w) /\ PageInstant(w) \in Nat
          /\ ShowPage(w.user, w.query, w.cursor, PageInstant(w), w)
      BY <2>1, <2>3, <3>1, <3>2 DEF WalkIsSound, PageInstant, More
    <3>4. PICK x, r, m : x = walk' /\ IsShown(x, w, w.user, w.query, w.cursor, PageInstant(w), r, m)
      BY <2>1, <3>3, PageIsShown
    <3> QED
      BY <2>1, <3>1, <3>3, <3>4, PageIsWanted
  <2>4. ASSUME NEW l \in Lead, NEW r \in RowSet, Change(l, r) PROVE Shown
    <3>1. walk # Closed /\ walk' = [walk EXCEPT !.changed = @ \cup {l}]
      BY <2>4 DEF Change, Closed
    <3>2. walk'.listed = walk.listed
      BY <2>1, <3>1 DEF WalkIsSound, WalkIsTyped
    <3> QED
      BY <3>2
  <2>5. CASE Tick
    BY <2>5 DEF Tick
  <2> QED
    BY <1>1, <2>2, <2>3, <2>4, <2>5 DEF Next
<1> QED
  BY <1>1, SpecIInv, PTL DEF Spec, OnlyWantedAreListed
=============================================================================

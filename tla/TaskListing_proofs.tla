------------------------ MODULE TaskListing_proofs ------------------------
(***************************************************************************)
(* The safety properties of TaskListing for every finite set of task ids,  *)
(* page size and number of writes.                                         *)
(*                                                                         *)
(* What the sort of InMemoryTaskStore::list returns is not given but       *)
(* proved (InOrderSorts): every finite set of tasks can be put in order    *)
(* (Sortable: the smallest set that could not be is one task larger than   *)
(* one that can, and that task has a place in the order), and the order    *)
(* has each of its tasks in one place.                                     *)
(*                                                                         *)
(* A store page goes on from the token: its tasks begin there, the next    *)
(* token is behind them, and no matching task lies between (StorePage-     *)
(* GoesOn); so does a response that fills up midway (ResumeGoesOn), and so *)
(* each of the three things list_tasks may do with a page (ReadGoesOn).    *)
(* The invariant says what a walk has left behind it (Covered) and, while  *)
(* nothing is written, in which order (InOrderYet).                        *)
(***************************************************************************)
EXTENDS TaskListing, SequenceTheorems, FiniteSetTheorems, FunctionTheorems,
        WellFoundedInduction, TLAPS

Rows == DOMAIN store \subseteq Ids /\ store \in [DOMAIN store -> Row]
Sorted(q) == \A i, j \in DOMAIN q : i < j => Before(q[i], q[j])

\* A non-empty set of numbers has a least one.
LEMMA Least ==
    ASSUME NEW T \in SUBSET Nat, T # {}
    PROVE  \E n \in T : \A m \in T : n <= m
<1> DEFINE below == {p \in Nat \X Nat : p[1] < p[2]}
<1>1. IsWellFoundedOn(below, Nat)
  BY NatLessThanWellFounded DEF OpToRel
<1>2. PICK n \in T : \A m \in T : <<m, n>> \notin below
  <2> HIDE DEF below
  <2> QED BY <1>1, WFMin
<1>3. \A m \in T : ~(m < n)
  BY <1>2
<1> QED BY <1>3

\* The most recent first, the id for a tie-breaker, is a strict total order.
LEMMA BeforeOrders ==
    ASSUME ListingAssumption, Rows
    PROVE  /\ \A s, t \in DOMAIN store :
                 s # t => Before(s, t) \/ Before(t, s)
           /\ \A s, t \in DOMAIN store : Before(s, t) => s # t /\ ~Before(t, s)
           /\ \A s, t, u \in DOMAIN store :
                 Before(s, t) /\ Before(t, u) => Before(s, u)
<1>1. \A t \in DOMAIN store : t \in Nat /\ store[t].time \in Nat
  BY DEF ListingAssumption, Rows, Row
<1> QED BY <1>1 DEF Before

\* A task finds its place between those of an ordered list.
LEMMA Insertion ==
    ASSUME ListingAssumption, Rows, NEW S \in SUBSET DOMAIN store,
           NEW n \in Nat \ {0}, NEW t \in S,
           NEW q \in [1 .. n - 1 -> S \ {t}], Sorted(q)
    PROVE  \E r \in [1 .. n -> S] : Sorted(r)
<1> DEFINE r == [i \in 1 .. n |->
                   IF i <= n - 1 /\ Before(q[i], t) THEN q[i]
                   ELSE IF i = 1 \/ Before(q[i - 1], t) THEN t
                   ELSE q[i - 1]]
<1>1. r \in [1 .. n -> S]
  <2> SUFFICES ASSUME NEW i \in 1 .. n PROVE r[i] \in S
    OBVIOUS
  <2>1. i <= n - 1 => q[i] \in S
    OBVIOUS
  <2>2. i # 1 => q[i - 1] \in S
    OBVIOUS
  <2> QED BY <2>1, <2>2
<1>2. ASSUME NEW i \in 1 .. n, NEW j \in 1 .. n, i < j
      PROVE  Before(r[i], r[j])
  <2> DEFINE D == DOMAIN store
  <2>1. \A k \in 1 .. n - 1 : q[k] \in D /\ q[k] # t
    OBVIOUS
  <2>2. t \in D
    OBVIOUS
  <2>3. /\ i \in 1 .. n - 1 /\ j - 1 \in 1 .. n - 1
        /\ i # 1 => i - 1 \in 1 .. n - 1
        /\ j <= n - 1 => j \in 1 .. n - 1
    BY <1>2
  <2>4. \A k, l \in 1 .. n - 1 : k < l => Before(q[k], q[l])
    BY DEF Sorted
  <2>5. \A k \in 1 .. n - 1 : Before(q[k], t) \/ Before(t, q[k])
    BY <2>1, <2>2, BeforeOrders
  <2>6. \A k, l \in 1 .. n - 1 : k < l /\ Before(q[l], t) => Before(q[k], t)
    BY <2>1, <2>2, <2>4, BeforeOrders
  <2>7. \A k, l \in 1 .. n - 1 : k < l /\ Before(t, q[k]) => Before(t, q[l])
    BY <2>1, <2>2, <2>4, BeforeOrders
  <2>8. \A k \in 1 .. n - 1 : ~Before(q[k], t) => Before(t, q[k])
    BY <2>5
  <2>i. r[i] = IF Before(q[i], t) THEN q[i]
               ELSE IF i = 1 \/ Before(q[i - 1], t) THEN t ELSE q[i - 1]
    BY <2>3
  <2>j. r[j] = IF j <= n - 1 /\ Before(q[j], t) THEN q[j]
               ELSE IF Before(q[j - 1], t) THEN t ELSE q[j - 1]
    BY <1>2
  <2> HIDE DEF r
  <2>9. CASE Before(q[i], t)
    <3>1. r[i] = q[i]
      BY <2>9, <2>i
    <3>2. CASE j <= n - 1 /\ Before(q[j], t)
      BY <3>1, <3>2, <2>j, <2>3, <2>4, <1>2
    <3>3. CASE ~(j <= n - 1 /\ Before(q[j], t)) /\ Before(q[j - 1], t)
      BY <3>1, <3>3, <2>j, <2>9
    <3>4. CASE ~(j <= n - 1 /\ Before(q[j], t)) /\ ~Before(q[j - 1], t)
      <4>1. i < j - 1
        BY <3>4, <2>9, <1>2
      <4> QED BY <3>1, <3>4, <4>1, <2>j, <2>3, <2>4
    <3> QED BY <3>2, <3>3, <3>4
  <2>10. CASE ~Before(q[i], t)
    <3>1. ~Before(q[j - 1], t)
      <4>1. CASE i = j - 1
        BY <4>1, <2>10
      <4>2. CASE i < j - 1
        BY <4>2, <2>10, <2>6, <2>3
      <4> QED BY <4>1, <4>2, <1>2
    <3>2. ~(j <= n - 1 /\ Before(q[j], t))
      BY <2>10, <2>6, <2>3, <1>2
    <3>3. r[j] = q[j - 1]
      BY <3>1, <3>2, <2>j
    <3>4. CASE i = 1 \/ Before(q[i - 1], t)
      BY <3>3, <3>1, <3>4, <2>10, <2>i, <2>8, <2>3
    <3>5. CASE ~(i = 1 \/ Before(q[i - 1], t))
      <4>1. r[i] = q[i - 1]
        BY <3>5, <2>10, <2>i
      <4> QED BY <4>1, <3>3, <3>5, <2>3, <2>4, <1>2
    <3> QED BY <3>4, <3>5
  <2> QED BY <2>9, <2>10
<1> HIDE DEF r
<1>3. Sorted(r)
  BY <1>1, <1>2 DEF Sorted
<1> QED BY <1>1, <1>3

\* Any finite set of tasks can be put in order.
LEMMA Sortable ==
    ASSUME ListingAssumption, Rows, NEW S \in SUBSET DOMAIN store
    PROVE  IsFiniteSet(S) /\ \E q \in [1 .. Cardinality(S) -> S] : Sorted(q)
<1> DEFINE CanSort(Q) == \E q \in [1 .. Cardinality(Q) -> Q] : Sorted(q)
           bad == {Cardinality(Q) : Q \in {Q \in SUBSET DOMAIN store : ~CanSort(Q)}}
<1>1. \A Q \in SUBSET DOMAIN store : IsFiniteSet(Q) /\ Cardinality(Q) \in Nat
  BY FS_Subset, FS_CardinalityType DEF ListingAssumption, Rows
<1>2. bad = {}
  <2>1. SUFFICES ASSUME bad # {} PROVE FALSE
    OBVIOUS
  <2>2. bad \in SUBSET Nat
    BY <1>1
  <2> HIDE DEF bad
  <2>3. PICK n \in bad : \A m \in bad : n <= m
    BY <2>1, <2>2, Least
  <2>4. PICK Q \in SUBSET DOMAIN store : n = Cardinality(Q) /\ ~CanSort(Q)
    BY <2>3 DEF bad
  <2>5. n \in Nat /\ IsFiniteSet(Q)
    BY <1>1, <2>4
  <2>6. CASE n = 0
    <3>1. Q = {}
      BY <2>4, <2>5, <2>6, FS_EmptySet
    <3>2. <<>> \in [1 .. 0 -> Q] /\ Sorted(<<>>)
      BY DEF Sorted
    <3> QED BY <3>2, <2>4, <2>6
  <2>7. CASE n # 0
    <3>1. PICK t \in Q : TRUE
      BY <2>4, <2>5, <2>7, FS_EmptySet
    <3>2. Cardinality(Q \ {t}) = n - 1
      BY <3>1, <2>4, <2>5, FS_RemoveElement
    <3>3. CanSort(Q \ {t})
      <4>1. SUFFICES ASSUME ~CanSort(Q \ {t}) PROVE FALSE
        OBVIOUS
      <4>2. n - 1 \in bad
        BY <3>2, <4>1, <2>4 DEF bad
      <4> QED BY <4>2, <2>3, <2>5
    <3>4. PICK q \in [1 .. n - 1 -> Q \ {t}] : Sorted(q)
      BY <3>2, <3>3
    <3>5. \E r \in [1 .. n -> Q] : Sorted(r)
      BY <3>1, <3>4, <2>4, <2>5, <2>7, Insertion
    <3> QED BY <3>5, <2>4
  <2> QED BY <2>6, <2>7
<1>3. CanSort(S)
  BY <1>2
<1> QED BY <1>1, <1>3

\* The order of a set of tasks is a list of exactly these, sorted.
LEMMA InOrderSorts ==
    ASSUME ListingAssumption, Rows, NEW S \in SUBSET DOMAIN store
    PROVE  /\ InOrder(S) \in Seq(S)
           /\ Sorted(InOrder(S))
           /\ \A t \in S : \E i \in DOMAIN InOrder(S) : InOrder(S)[i] = t
<1> DEFINE n == Cardinality(S)
           q == InOrder(S)
<1>1. IsFiniteSet(S) /\ n \in Nat
  BY Sortable, FS_CardinalityType
<1>2. \E r \in [1 .. n -> S] : Sorted(r)
  BY Sortable
<1>3. q \in [1 .. n -> S] /\ Sorted(q)
  BY <1>2 DEF InOrder, Sorted
<1> HIDE DEF q
<1>4. \A i, j \in 1 .. n : q[i] = q[j] => i = j
  <2> SUFFICES ASSUME NEW i \in 1 .. n, NEW j \in 1 .. n, q[i] = q[j], i < j
               PROVE  FALSE
    BY <1>1
  <2>1. Before(q[i], q[j])
    BY <1>3 DEF Sorted
  <2>2. q[i] \in DOMAIN store /\ q[j] \in DOMAIN store
    BY <1>3
  <2> QED BY <2>1, <2>2, BeforeOrders
<1>5. q \in Injection(1 .. n, S)
  BY <1>3, <1>4, Fun_IsInj
<1>6. Cardinality(1 .. n) = n
  BY <1>1, FS_Interval
<1>7. q \in Surjection(1 .. n, S)
  BY <1>1, <1>5, <1>6, FS_Injection
<1>8. \A t \in S : \E i \in 1 .. n : q[i] = t
  BY <1>7, <1>3 DEF Surjection
<1>9. q \in Seq(S) /\ DOMAIN q = 1 .. n
  BY <1>1, <1>3
<1> QED BY <1>3, <1>8, <1>9 DEF q

-----------------------------------------------------------------------------
(***************************************************************************)
(* What one store page is.                                                 *)
(***************************************************************************)
Matches == {t \in DOMAIN store : store[t].matches}
Has(q, t) == \E i \in DOMAIN q : q[i] = t
\* t is listed at or after the task a token names.
From(token, t) == token = NoToken \/ t = token \/ Before(token, t)

\* Tasks, of a set that is listed, begin at the token and are in order, the
\* next token comes after all of them, and no task of the set from the token
\* on is left between.
GoesOn(tasks, next, S) ==
    /\ tasks \in Seq(S) /\ Sorted(tasks)
    /\ next \in Matches \cup {NoToken}
    /\ \A i \in DOMAIN tasks : next # NoToken => Before(tasks[i], next)
    /\ \A i \in DOMAIN tasks : cursor \in Matches => From(cursor, tasks[i])
    /\ cursor \in Matches /\ next # NoToken => Before(cursor, next)
    /\ \A t \in S : From(cursor, t) =>
          Has(tasks, t) \/ (next # NoToken /\ From(next, t))

\* No task has the id of no token.
LEMMA MatchesAreTasks ==
    ASSUME ListingAssumption, TypeOK
    PROVE  /\ Rows /\ Matches \subseteq DOMAIN store /\ NoToken \notin DOMAIN store
           /\ pageSize \in Nat \ {0}
<1>1. Rows
  BY DEF TypeOK, Rows
<1>2. NoToken \notin DOMAIN store
  BY DEF ListingAssumption, TypeOK, NoToken
<1>3. pageSize \in Nat \ {0}
  <2>1. pageSize \in PageSizes /\ PageSizes \subseteq 1 .. 100
    BY DEF ListingAssumption, TypeOK
  <2>2. pageSize \in 1 .. 100
    BY <2>1
  <2> QED BY <2>2
<1> QED BY <1>1, <1>2, <1>3 DEF Matches

\* The page that starts at the token's task goes on from the token; the one
\* that starts at the beginning, because that task is not listed, does too.
LEMMA StorePageGoesOn ==
    ASSUME ListingAssumption, TypeOK
    PROVE  GoesOn(StorePage.tasks, StorePage.next, Matches)
<1> DEFINE s == Start(Matching)
           n == Len(Matching)
           end == s + pageSize
<1>0. PICK all : all = Matching
  OBVIOUS
<1>1. /\ Rows /\ Matches \subseteq DOMAIN store /\ NoToken \notin DOMAIN store
      /\ pageSize \in Nat \ {0}
  BY MatchesAreTasks
<1>2. /\ all \in Seq(Matches) /\ Sorted(all)
      /\ \A t \in Matches : \E i \in DOMAIN all : all[i] = t
  BY <1>0, <1>1, InOrderSorts DEF Matching, Matches
<1>3. n \in Nat /\ DOMAIN all = 1 .. n /\ n = Len(all)
  BY <1>0, <1>2
<1>4. /\ s \in Nat \ {0}
      /\ s <= n \/ s = 1
      /\ cursor \in Matches => s \in DOMAIN all /\ all[s] = cursor
      /\ s # 1 => s \in DOMAIN all /\ all[s] = cursor
  <2>1. CASE \E i \in DOMAIN all : all[i] = cursor
    BY <2>1, <1>0, <1>3 DEF Start
  <2>2. CASE ~\E i \in DOMAIN all : all[i] = cursor
    BY <2>2, <1>0, <1>2 DEF Start
  <2> QED BY <2>1, <2>2
<1> HIDE DEF s, n
<1>5. \A i, j \in 1 .. n : i < j => Before(all[i], all[j])
  BY <1>2, <1>3 DEF Sorted
<1>6. \A i \in 1 .. n : all[i] \in Matches
  BY <1>2, <1>3
<1>7. \A t \in Matches : From(cursor, t) => \E k \in 1 .. n : k >= s /\ all[k] = t
  <2> SUFFICES ASSUME NEW t \in Matches, From(cursor, t)
               PROVE  \E k \in 1 .. n : k >= s /\ all[k] = t
    OBVIOUS
  <2>1. PICK k \in 1 .. n : all[k] = t
    BY <1>2, <1>3
  <2>2. CASE s = 1
    BY <2>1, <2>2
  <2>3. CASE s # 1
    <3>1. s \in 1 .. n /\ all[s] = cursor /\ cursor \in Matches
      BY <2>3, <1>3, <1>4, <1>6
    <3>2. t = cursor \/ Before(all[s], t)
      BY <3>1, <1>1 DEF From
    <3>3. CASE t = cursor
      BY <3>1, <3>3, <1>4
    <3>4. CASE Before(all[s], t) /\ k < s
      <4>1. Before(t, all[s])
        BY <3>1, <3>4, <2>1, <1>5
      <4> QED BY <4>1, <3>1, <3>4, <1>1, BeforeOrders
    <3> QED BY <3>2, <3>3, <3>4, <2>1, <1>4
  <2> QED BY <2>2, <2>3
<1>8. \A i \in 1 .. n : i >= s /\ cursor \in Matches => From(cursor, all[i])
  BY <1>3, <1>4, <1>5 DEF From
<1>9. CASE end <= n
  <2>1. PICK page : page = StorePage
    OBVIOUS
  <2>2. page = [tasks |-> SubSeq(all, s, end - 1), next |-> all[end]]
    BY <1>9, <1>0, <2>1 DEF StorePage, s, n
  <2>3. end - 1 \in s .. n /\ s \in 1 .. n /\ end \in 1 .. n
    BY <1>1, <1>4, <1>9, <1>3
  <2>4. /\ page.tasks \in Seq(Matches) /\ Len(page.tasks) = pageSize
        /\ \A i \in 1 .. pageSize : page.tasks[i] = all[s + i - 1]
    <3>1. \A i \in s .. end - 1 : all[i] \in Matches
      BY <2>3, <1>1, <1>3, <1>4, <1>6
    <3>2. end - 1 - s + 1 = pageSize /\ s <= end - 1
      BY <1>1, <1>4
    <3> QED BY <3>1, <3>2, <2>2, <2>3, <1>1, SubSeqProperties
  <2>5. page.next = all[end] /\ page.next \in Matches
    BY <2>2, <2>3, <1>6
  <2>6. \A i \in 1 .. pageSize : s + i - 1 \in 1 .. n /\ s + i - 1 < end /\ s + i - 1 >= s
    BY <2>3, <1>1, <1>3, <1>4
  <2> HIDE DEF end
  <2>7. Sorted(page.tasks)
    <3>1. DOMAIN page.tasks = 1 .. pageSize
      BY <2>4, <1>1
    <3>2. \A i, j \in 1 .. pageSize : i < j => s + i - 1 < s + j - 1
      BY <1>1, <1>4
    <3>3. \A i, j \in 1 .. pageSize : i < j => Before(all[s + i - 1], all[s + j - 1])
      BY <3>2, <2>6, <1>5
    <3> QED BY <3>1, <3>3, <2>4 DEF Sorted
  <2>8. \A i \in 1 .. pageSize : Before(page.tasks[i], page.next)
    BY <2>4, <2>5, <2>6, <2>3, <1>5
  <2>9. \A i \in 1 .. pageSize : cursor \in Matches => From(cursor, page.tasks[i])
    BY <2>4, <2>6, <1>8
  <2>10. \A k \in s .. n : Has(page.tasks, all[k]) \/ From(page.next, all[k])
    <3> SUFFICES ASSUME NEW k \in s .. n
                 PROVE  Has(page.tasks, all[k]) \/ From(page.next, all[k])
      OBVIOUS
    <3>1. CASE k < end
      <4>1. k - s + 1 \in 1 .. pageSize /\ s + (k - s + 1) - 1 = k
        BY <3>1, <1>1, <1>4, <1>3 DEF end
      <4>2. page.tasks[k - s + 1] = all[k] /\ k - s + 1 \in DOMAIN page.tasks
        BY <4>1, <2>4
      <4> QED BY <4>2 DEF Has
    <3>2. CASE k = end
      BY <3>2, <2>5 DEF From
    <3>3. CASE k > end
      BY <3>3, <2>3, <2>5, <1>5, <1>4, <1>3 DEF From
    <3> QED BY <3>1, <3>2, <3>3, <2>3, <1>4, <1>3
  <2>11. page.next # NoToken
    BY <2>5, <1>1
  <2>12. \A t \in Matches : From(cursor, t) => \E k \in s .. n : all[k] = t
    BY <1>7, <1>3, <1>4
  <2>13. DOMAIN page.tasks = 1 .. pageSize
    BY <2>4
  <2>14. \A t \in Matches : From(cursor, t) => Has(page.tasks, t) \/ From(page.next, t)
    BY <2>10, <2>12
  <2>15. cursor \in Matches => Before(cursor, page.next)
    BY <2>3, <2>5, <1>1, <1>4, <1>5
  <2> QED BY <2>1, <2>4, <2>5, <2>7, <2>8, <2>9, <2>11, <2>13, <2>14, <2>15 DEF GoesOn
<1>10. CASE ~(end <= n)
  <2>1. PICK page : page = StorePage
    OBVIOUS
  <2>2. page = [tasks |-> SubSeq(all, s, n), next |-> NoToken]
    BY <1>10, <1>0, <1>3, <2>1 DEF StorePage, s, n
  <2> DEFINE m == n - s + 1
  <2>3. m \in Nat /\ (m > 0 => s \in 1 .. n)
    BY <1>3, <1>4
  <2>4. /\ page.tasks \in Seq(Matches) /\ Len(page.tasks) = m
        /\ \A i \in 1 .. m : page.tasks[i] = all[s + i - 1]
    <3>1. \A i \in s .. n : all[i] \in Matches
      BY <1>3, <1>4, <1>6
    <3>2. s <= n <=> m > 0
      BY <1>3, <1>4
    <3> QED BY <3>1, <3>2, <2>2, <2>3, <1>3, <1>4, SubSeqProperties
  <2>5. page.next = NoToken
    BY <2>2
  <2>6. \A i \in 1 .. m : s + i - 1 \in 1 .. n /\ s + i - 1 >= s
    BY <2>3, <1>3, <1>4
  <2>7. DOMAIN page.tasks = 1 .. m
    BY <2>4, <2>3
  <2>8. \A k \in s .. n : k - s + 1 \in 1 .. m /\ s + (k - s + 1) - 1 = k
    BY <1>3, <1>4
  <2> HIDE DEF m
  <2>9. Sorted(page.tasks)
    <3>1. \A i, j \in 1 .. m : i < j => s + i - 1 < s + j - 1
      BY <2>3, <1>4
    <3>2. \A i, j \in 1 .. m : i < j => Before(all[s + i - 1], all[s + j - 1])
      BY <3>1, <2>6, <1>5
    <3> QED BY <3>2, <2>4, <2>7 DEF Sorted
  <2>10. \A i \in 1 .. m : cursor \in Matches => From(cursor, page.tasks[i])
    BY <2>4, <2>6, <1>8
  <2>11. \A k \in s .. n : Has(page.tasks, all[k])
    BY <2>4, <2>7, <2>8 DEF Has
  <2>12. \A t \in Matches : From(cursor, t) => \E k \in s .. n : all[k] = t
    BY <1>7, <1>3, <1>4
  <2>13. \A t \in Matches : From(cursor, t) => Has(page.tasks, t)
    BY <2>11, <2>12
  <2> QED BY <2>1, <2>4, <2>5, <2>7, <2>9, <2>10, <2>13 DEF GoesOn
<1> QED BY <1>9, <1>10

\* What the caller may see of a page stays in order.
LEMMA AuthorizedSorts ==
    ASSUME ListingAssumption, TypeOK, NEW tasks \in Seq(Matches)
    PROVE  /\ Authorized(tasks) \in Seq(Matches \ Hidden)
           /\ Sorted(Authorized(tasks))
           /\ \A t : Has(Authorized(tasks), t) <=> Has(tasks, t) /\ t \notin Hidden
<1> DEFINE S == {tasks[i] : i \in DOMAIN tasks} \ Hidden
<1>1. S \subseteq Matches \ Hidden /\ S \subseteq DOMAIN store /\ Rows
  BY MatchesAreTasks
<1>2. \A t : t \in S <=> Has(tasks, t) /\ t \notin Hidden
  BY DEF Has
<1>3. Authorized(tasks) = InOrder(S)
  BY DEF Authorized
<1> HIDE DEF S
<1>4. /\ InOrder(S) \in Seq(S) /\ Sorted(InOrder(S))
      /\ \A t \in S : Has(InOrder(S), t)
  BY <1>1, InOrderSorts DEF Has
<1>5. \A t : Has(InOrder(S), t) => t \in S
  BY <1>4 DEF Has
<1>6. InOrder(S) \in Seq(Matches \ Hidden)
  BY <1>1, <1>4, SeqMonotonic
<1> QED BY <1>2, <1>3, <1>4, <1>5, <1>6

\* A page that fills up before the store page is used goes on after its last
\* task.
LEMMA ResumeGoesOn ==
    ASSUME ListingAssumption, TypeOK, NEW page,
           GoesOn(page.tasks, page.next, Matches),
           NEW last, Has(page.tasks, last)
    PROVE  LET next == Resume(page, last) IN
           /\ next \in Matches \cup {NoToken}
           /\ next # NoToken => Before(last, next)
           /\ \A t \in Matches :
                 \/ Has(page.tasks, t) /\ Before(last, t)
                 \/ page.next # NoToken /\ From(page.next, t)
                 => next # NoToken /\ From(next, t)
<1> DEFINE tasks == page.tasks
           n == Len(tasks)
           i == CHOOSE j \in DOMAIN tasks : tasks[j] = last
           next == Resume(page, last)
<1>1. /\ tasks \in Seq(Matches) /\ Sorted(tasks)
      /\ page.next \in Matches \cup {NoToken}
      /\ \A j \in DOMAIN tasks : page.next # NoToken => Before(tasks[j], page.next)
  BY DEF GoesOn
<1>2. n \in Nat /\ DOMAIN tasks = 1 .. n
  BY <1>1
<1>3. i \in 1 .. n /\ tasks[i] = last
  BY <1>2 DEF Has
<1>4. next = IF i < n THEN tasks[i + 1] ELSE page.next
  BY DEF Resume
<1>5. /\ Rows /\ Matches \subseteq DOMAIN store /\ NoToken \notin DOMAIN store
  BY MatchesAreTasks
<1> HIDE DEF i, n, next, tasks
<1>6. \A j \in 1 .. n : tasks[j] \in Matches
  BY <1>1, <1>2
<1>7. \A j, k \in 1 .. n : j < k => Before(tasks[j], tasks[k])
  BY <1>1, <1>2 DEF Sorted
<1>8. \A j \in 1 .. n : page.next # NoToken => Before(tasks[j], page.next)
  BY <1>1, <1>2
<1>9. \A j, k \in 1 .. n : Before(tasks[j], tasks[k]) => j < k
  <2> SUFFICES ASSUME NEW j \in 1 .. n, NEW k \in 1 .. n,
                      Before(tasks[j], tasks[k]), ~(j < k)
               PROVE  FALSE
    OBVIOUS
  <2>1. tasks[j] \in DOMAIN store /\ tasks[k] \in DOMAIN store
    BY <1>5, <1>6
  <2>2. tasks[j] # tasks[k] /\ ~Before(tasks[k], tasks[j])
    BY <2>1, <1>5, BeforeOrders
  <2>3. CASE j = k
    BY <2>2, <2>3
  <2>4. CASE k < j
    BY <2>2, <2>4, <1>7
  <2> QED BY <2>3, <2>4
<1>10. CASE i < n
  <2>1. /\ i + 1 \in 1 .. n /\ next = tasks[i + 1] /\ next \in Matches
        /\ next # NoToken /\ Before(last, next)
    BY <1>10, <1>2, <1>3, <1>4, <1>5, <1>6, <1>7
  <2>2. ASSUME NEW t \in Matches, Has(tasks, t), Before(last, t)
        PROVE  From(next, t)
    <3>1. PICK k \in 1 .. n : tasks[k] = t
      BY <2>2, <1>2 DEF Has
    <3>2. i < k
      BY <3>1, <2>2, <1>3, <1>9
    <3>3. k = i + 1 \/ i + 1 < k
      BY <3>2, <1>3
    <3> QED BY <3>1, <3>3, <2>1, <1>7 DEF From
  <2>3. ASSUME NEW t \in Matches, page.next # NoToken, From(page.next, t)
        PROVE  From(next, t)
    <3>1. Before(next, page.next) /\ page.next \in Matches
      BY <2>1, <2>3, <1>1, <1>8
    <3>2. t = page.next \/ Before(page.next, t)
      BY <2>3 DEF From
    <3>3. Before(next, t)
      BY <3>1, <3>2, <2>1, <1>5, BeforeOrders
    <3> QED BY <3>3 DEF From
  <2> QED BY <2>1, <2>2, <2>3 DEF next, tasks
<1>11. CASE ~(i < n)
  <2>1. i = n /\ next = page.next
    BY <1>11, <1>2, <1>3, <1>4
  <2>2. ASSUME NEW t \in Matches, Has(tasks, t), Before(last, t)
        PROVE  FALSE
    <3>1. PICK k \in 1 .. n : tasks[k] = t
      BY <2>2, <1>2 DEF Has
    <3>2. i < k
      BY <3>1, <2>2, <1>3, <1>9
    <3> QED BY <3>1, <3>2, <2>1, <1>2
  <2>3. next # NoToken => Before(last, next)
    BY <2>1, <1>3, <1>8
  <2> QED BY <2>1, <2>2, <2>3, <1>1 DEF next, tasks
<1> QED BY <1>10, <1>11

\* What a response adds is the same whether it is put together first or not.
LEMMA Appended ==
    ASSUME NEW S, NEW p \in Seq(S), NEW q \in Seq(S), NEW r \in Seq(S)
    PROVE  /\ p \o (q \o r) = (p \o q) \o r
           /\ p \o (q \o r) \in Seq(S)
           /\ (p \o (q \o r)) \o <<>> = (p \o q) \o r
<1>1. p \o (q \o r) = (p \o q) \o r
  BY ConcatAssociative, SMTT(30)
<1>2. q \o r \in Seq(S)
  BY ConcatProperties
<1>3. p \o (q \o r) \in Seq(S)
  BY <1>2, ConcatProperties
<1>4. PICK s \in Seq(S) : s = p \o (q \o r)
  BY <1>3
<1>5. s \o <<>> = s
  OBVIOUS
<1> QED BY <1>1, <1>3, <1>4, <1>5

\* One store page takes the walk from its token to the next one, in both of
\* its ways to respond and when the response is not full yet.
LEMMA ReadGoesOn ==
    ASSUME ListingAssumption, TypeOK, ReadStorePage
    PROVE  \E tasks, next :
           /\ GoesOn(tasks, next, Matches \ Hidden)
           /\ listed' \o authorized' = (listed \o authorized) \o tasks
           /\ cursor' = next
           /\ walk' \in {"reading", "holding", "ended"}
           /\ walk' = "ended" <=> next = NoToken
           /\ walk' # "reading" => authorized' = <<>>
           /\ storePages' \in 0 .. MaxStorePages - 1
           /\ authorized' \in Seq(Ids \ Hidden) /\ Len(authorized') < pageSize
           /\ listed' \in Seq(Ids \ Hidden)
<1> DEFINE Seen == Ids \ Hidden
<1>0. /\ Rows /\ Matches \subseteq DOMAIN store /\ NoToken \notin DOMAIN store
      /\ pageSize \in Nat \ {0}
  BY MatchesAreTasks
<1>1. PICK page : page = StorePage
  OBVIOUS
<1>2. GoesOn(page.tasks, page.next, Matches)
  BY <1>1, StorePageGoesOn
<1>3. PICK more : more = Authorized(page.tasks)
  OBVIOUS
<1>4. /\ more \in Seq(Matches \ Hidden) /\ Sorted(more)
      /\ \A t : Has(more, t) <=> Has(page.tasks, t) /\ t \notin Hidden
  BY <1>2, <1>3, AuthorizedSorts DEF GoesOn
<1>5. Matches \ Hidden \subseteq Seen
  BY <1>0 DEF Rows
<1>6. more \in Seq(Seen) /\ Len(more) \in Nat
  BY <1>4, <1>5, SeqMonotonic
<1>7. /\ authorized \in Seq(Seen) /\ listed \in Seq(Seen)
      /\ Len(authorized) \in Nat /\ Len(authorized) < pageSize
      /\ storePages \in 0 .. MaxStorePages - 1
  BY DEF TypeOK
<1>8. MaxStorePages \in Nat \ {0}
  BY DEF ListingAssumption
<1> DEFINE missing == pageSize - Len(authorized)
<1>9. CASE FillsUp(authorized, more)
  <2>1. PICK taken : taken = SubSeq(more, 1, missing)
    OBVIOUS
  <2>2. PICK last : last = more[missing]
    OBVIOUS
  <2>3. PICK next : next = Resume(page, last)
    OBVIOUS
  <2>4. Respond(authorized \o taken, next)
    BY <1>9, <1>1, <1>3, <2>1, <2>2, <2>3 DEF ReadStorePage
  <2>5. missing \in 1 .. Len(more)
    BY <1>9, <1>0, <1>6, <1>7 DEF FillsUp
  <2>6. /\ taken \in Seq(Matches \ Hidden) /\ Len(taken) = missing
        /\ \A i \in 1 .. missing : taken[i] = more[i]
    <3>1. \A i \in 1 .. missing : more[i] \in Matches \ Hidden
      BY <2>5, <1>4, <1>6
    <3> QED BY <3>1, <2>1, <2>5, SubSeqProperties
  <2>7. taken \in Seq(Seen)
    BY <2>6, <1>5, SeqMonotonic
  <2>8. DOMAIN taken = 1 .. missing /\ DOMAIN more = 1 .. Len(more)
    BY <2>5, <2>6, <1>4
  <2> HIDE DEF missing
  <2>9. \A i, j \in 1 .. Len(more) : i < j => Before(more[i], more[j])
    BY <2>8, <1>4 DEF Sorted
  <2>10. last \in Matches \ Hidden /\ Has(page.tasks, last)
    BY <2>2, <2>5, <2>8, <1>4 DEF Has
  <2>11. /\ next \in Matches \cup {NoToken}
         /\ next # NoToken => Before(last, next)
         /\ \A t \in Matches :
                \/ Has(page.tasks, t) /\ Before(last, t)
                \/ page.next # NoToken /\ From(page.next, t)
                => next # NoToken /\ From(next, t)
    BY <2>3, <2>10, <1>2, ResumeGoesOn
  <2>12. \A i \in 1 .. missing : taken[i] = last \/ Before(taken[i], last)
    BY <2>2, <2>5, <2>6, <2>9
  <2>13. \A i \in 1 .. missing : taken[i] \in DOMAIN store
    BY <2>6, <2>8, <1>0
  <2>14. Sorted(taken)
    BY <2>5, <2>6, <2>8, <2>9 DEF Sorted
  <2>15. \A i \in 1 .. missing : next # NoToken => Before(taken[i], next)
    <3> SUFFICES ASSUME NEW i \in 1 .. missing, next # NoToken
                 PROVE  Before(taken[i], next)
      OBVIOUS
    <3>1. next \in DOMAIN store /\ last \in DOMAIN store /\ Before(last, next)
      BY <2>10, <2>11, <1>0
    <3> QED BY <3>1, <2>12, <2>13, <1>0, BeforeOrders
  <2>16. \A t : Has(page.tasks, t) /\ cursor \in Matches => From(cursor, t)
    BY <1>2 DEF GoesOn, Has
  <2>17. \A i \in 1 .. missing : cursor \in Matches => From(cursor, taken[i])
    <3>1. \A i \in 1 .. missing : Has(page.tasks, taken[i])
      BY <2>5, <2>6, <2>8, <1>4 DEF Has
    <3> QED BY <3>1, <2>16
  <2>18. cursor \in Matches /\ next # NoToken => Before(cursor, next)
    <3> SUFFICES ASSUME cursor \in Matches, next # NoToken
                 PROVE  Before(cursor, next)
      OBVIOUS
    <3>1. last = cursor \/ Before(cursor, last)
      BY <2>10, <2>16, <1>0 DEF From
    <3>2. cursor \in DOMAIN store /\ next \in DOMAIN store
          /\ last \in DOMAIN store /\ Before(last, next)
      BY <2>10, <2>11, <1>0
    <3> QED BY <3>1, <3>2, <1>0, BeforeOrders
  <2>19. ASSUME NEW t \in Matches \ Hidden, From(cursor, t), ~Has(taken, t)
         PROVE  next # NoToken /\ From(next, t)
    <3>1. CASE Has(page.tasks, t)
      <4>1. PICK k \in 1 .. Len(more) : more[k] = t
        BY <3>1, <2>8, <1>4 DEF Has
      <4>2. k > missing
        BY <4>1, <2>5, <2>6, <2>8, <2>19 DEF Has
      <4>3. Before(last, t)
        BY <4>1, <4>2, <2>2, <2>5, <2>9
      <4> QED BY <4>3, <3>1, <2>11
    <3>2. CASE ~Has(page.tasks, t)
      <4>1. page.next # NoToken /\ From(page.next, t)
        BY <3>2, <2>19, <1>2 DEF GoesOn
      <4> QED BY <4>1, <2>11
    <3> QED BY <3>1, <3>2
  <2>20. GoesOn(taken, next, Matches \ Hidden)
    BY <2>6, <2>8, <2>11, <2>14, <2>15, <2>17, <2>18, <2>19 DEF GoesOn
  <2>21. listed' \o authorized' = (listed \o authorized) \o taken
    <3>1. listed' = listed \o (authorized \o taken) /\ authorized' = <<>>
      BY <2>4 DEF Respond
    <3> QED BY <3>1, <2>7, <1>7, Appended
  <2>22. listed' \in Seq(Seen) /\ authorized' = <<>> /\ Len(authorized') < pageSize
    BY <2>4, <2>7, <1>0, <1>7, ConcatProperties DEF Respond
  <2>23. /\ cursor' = next /\ walk' \in {"reading", "holding", "ended"}
         /\ walk' = "ended" <=> next = NoToken
         /\ storePages' \in 0 .. MaxStorePages - 1
    BY <2>4, <1>8 DEF Respond
  <2> QED BY <2>20, <2>21, <2>22, <2>23
<1>10. ASSUME ~FillsUp(authorized, more)
       PROVE  /\ GoesOn(more, page.next, Matches \ Hidden)
              /\ authorized \o more \in Seq(Seen)
              /\ Len(authorized \o more) < pageSize
  <2>1. GoesOn(more, page.next, Matches \ Hidden)
    <3>1. \A i \in DOMAIN more : Has(page.tasks, more[i])
      BY <1>4 DEF Has
    <3>2. \A i \in DOMAIN more : page.next # NoToken => Before(more[i], page.next)
      BY <3>1, <1>2 DEF GoesOn, Has
    <3>3. \A i \in DOMAIN more : cursor \in Matches => From(cursor, more[i])
      BY <3>1, <1>2 DEF GoesOn, Has
    <3>4. \A t \in Matches \ Hidden : From(cursor, t) =>
             Has(more, t) \/ (page.next # NoToken /\ From(page.next, t))
      BY <1>2, <1>4 DEF GoesOn
    <3>5. /\ page.next \in Matches \cup {NoToken}
          /\ cursor \in Matches /\ page.next # NoToken => Before(cursor, page.next)
      BY <1>2 DEF GoesOn
    <3> QED BY <3>2, <3>3, <3>4, <3>5, <1>4 DEF GoesOn
  <2>2. /\ authorized \o more \in Seq(Seen)
        /\ Len(authorized \o more) = Len(authorized) + Len(more)
    BY <1>6, <1>7, ConcatProperties
  <2>3. Len(authorized) + Len(more) < pageSize
    BY <1>10, <1>0, <1>6, <1>7 DEF FillsUp
  <2> QED BY <2>1, <2>2, <2>3
<1>11. CASE ~FillsUp(authorized, more)
            /\ (page.next = NoToken \/ storePages + 1 = MaxStorePages)
  <2>1. Respond(authorized \o more, page.next)
    BY <1>11, <1>1, <1>3 DEF ReadStorePage
  <2>2. listed' = listed \o (authorized \o more) /\ authorized' = <<>>
    BY <2>1 DEF Respond
  <2>3. listed' \in Seq(Seen)
    BY <2>2, <1>6, <1>7, Appended
  <2>4. listed' \o authorized' = (listed \o authorized) \o more
    BY <2>2, <1>6, <1>7, Appended
  <2>5. authorized' \in Seq(Seen) /\ Len(authorized') < pageSize
    BY <2>2, <1>0
  <2>6. /\ cursor' = page.next /\ walk' \in {"reading", "holding", "ended"}
        /\ walk' = "ended" <=> page.next = NoToken
        /\ storePages' \in 0 .. MaxStorePages - 1
    BY <2>1, <1>8 DEF Respond
  <2>7. GoesOn(more, page.next, Matches \ Hidden)
    BY <1>10, <1>11
  <2> QED BY <2>2, <2>3, <2>4, <2>5, <2>6, <2>7
<1>12. CASE ~FillsUp(authorized, more)
            /\ ~(page.next = NoToken \/ storePages + 1 = MaxStorePages)
  <2>1. /\ authorized' = authorized \o more
        /\ cursor' = page.next
        /\ storePages' = storePages + 1
        /\ walk' = walk /\ listed' = listed
    BY <1>12, <1>1, <1>3 DEF ReadStorePage
  <2>2. walk = "reading"
    BY DEF ReadStorePage
  <2>3. storePages' \in 0 .. MaxStorePages - 1
    BY <2>1, <1>12, <1>7, <1>8
  <2>4. listed' \o authorized' = (listed \o authorized) \o more
    BY <2>1, <1>6, <1>7, Appended, SMTT(30)
  <2>5. /\ GoesOn(more, page.next, Matches \ Hidden)
        /\ authorized' \in Seq(Seen) /\ Len(authorized') < pageSize
    BY <2>1, <1>10, <1>12
  <2> QED BY <2>1, <2>2, <2>3, <2>4, <2>5, <1>7, <1>12
<1> QED BY <1>9, <1>11, <1>12

-----------------------------------------------------------------------------
(***************************************************************************)
(* The invariant.                                                          *)
(***************************************************************************)
Taken == listed \o authorized

\* The token names a task, for tasks are never removed; only a walk that is
\* reading has a response half filled.
Place ==
    /\ cursor # NoToken => cursor \in DOMAIN store
    /\ walk = "idle" => cursor = NoToken
    /\ walk # "reading" => authorized = <<>>

\* A task that was left alone has been taken or is still ahead of the token:
\* that one's task can be written too, but it moves to the front.
Covered ==
    \A t \in undisturbed : t \in Matches /\ t \notin Hidden =>
        Has(Taken, t) \/ (walk # "ended" /\ From(cursor, t))

\* While nothing is written the tasks taken are in order, and the token's task
\* comes next.
InOrderYet ==
    writes = 0 =>
        /\ Taken \in Seq(Matches) /\ Sorted(Taken)
        /\ walk # "ended" /\ cursor = NoToken => Taken = <<>>
        /\ walk # "ended" /\ cursor # NoToken =>
              /\ cursor \in Matches
              /\ \A i \in DOMAIN Taken : Before(Taken[i], cursor)

IInv == TypeOK /\ Place /\ Covered /\ InOrderYet

\* Before the walk nothing has been taken and nothing is owed.
LEMMA InitIsCovered ==
    ASSUME ListingAssumption, Init
    PROVE  IInv
<1>1. TypeOK
  BY DEF Init, TypeOK, ListingAssumption, Row
<1>2. Place /\ Covered
  BY DEF Init, Place, Covered
<1>3. Taken = <<>>
  BY DEF Init, Taken
<1>4. InOrderYet
  BY <1>3 DEF Init, InOrderYet, Sorted
<1> QED BY <1>1, <1>2, <1>4 DEF IInv

\* A write leaves the other tasks as they are, whatever it makes of its own.
LEMMA PutKeepsOthers ==
    ASSUME ListingAssumption, TypeOK, NEW t \in Ids, PutTask(t)
    PROVE  /\ Rows' /\ DOMAIN store' = DOMAIN store \cup {t}
           /\ \A s \in DOMAIN store : s # t => store'[s] = store[s]
<1>1. PICK row \in Row :
         store' = [i \in DOMAIN store \cup {t} |-> IF i = t THEN row ELSE store[i]]
  BY DEF PutTask
<1>2. DOMAIN store \subseteq Ids /\ store \in [DOMAIN store -> Row]
  BY DEF TypeOK
<1>4. DOMAIN store' = DOMAIN store \cup {t}
  BY <1>1
<1>5. store' \in [DOMAIN store' -> Row] /\ DOMAIN store' \subseteq Ids
  BY <1>1, <1>2, <1>4
<1>6. \A s \in DOMAIN store : s # t => store'[s] = store[s]
  BY <1>1
<1> QED BY <1>4, <1>5, <1>6 DEF Rows

\* What a write puts behind an undisturbed task, it disturbs.
LEMMA PutKeepsCovered ==
    ASSUME ListingAssumption, IInv, NEW t \in Ids, PutTask(t)
    PROVE  IInv'
<1> USE DEF IInv
<1>1. /\ Rows' /\ DOMAIN store' = DOMAIN store \cup {t}
      /\ \A s \in DOMAIN store : s # t => store'[s] = store[s]
  BY PutKeepsOthers
<1>2. /\ writes < MaxWrites /\ writes' = writes + 1
      /\ undisturbed' = undisturbed \ ({t} \cup MovedPast(t))
      /\ UNCHANGED <<pageSize, walk, cursor, storePages, authorized, listed>>
  BY DEF PutTask, call
<1>3. TypeOK'
  <2>1. writes' \in 0 .. MaxWrites
    BY <1>2 DEF TypeOK, ListingAssumption
  <2>2. undisturbed' \subseteq DOMAIN store'
    BY <1>1, <1>2 DEF TypeOK
  <2> QED BY <1>1, <1>2, <2>1, <2>2 DEF TypeOK, Rows
<1>4. Place'
  BY <1>1, <1>2 DEF Place
<1>5. Covered'
  <2> SUFFICES ASSUME NEW u \in undisturbed', (u \in Matches /\ u \notin Hidden)'
               PROVE  (Has(Taken, u) \/ (walk # "ended" /\ From(cursor, u)))'
    BY DEF Covered
  <2>1. /\ u \in undisturbed /\ u \in DOMAIN store /\ u # t /\ store'[u] = store[u]
        /\ u \notin MovedPast(t)
    BY <1>1, <1>2 DEF TypeOK
  <2>2. u \in Matches
    BY <2>1 DEF Matches
  <2>3. CASE Has(Taken, u)
    BY <2>3, <1>2 DEF Has, Taken
  <2>4. CASE walk # "ended" /\ From(cursor, u)
    <3>1. CASE cursor = NoToken \/ u = cursor
      BY <3>1, <2>4, <1>2 DEF From
    <3>2. CASE cursor # NoToken /\ Before(cursor, u)
      <4>1. CASE cursor = t
        <5>1. Before(cursor, u)'
          BY <4>1, <3>2, <2>1, <1>2 DEF MovedPast, Before
        <5> QED BY <5>1, <2>4, <1>2 DEF From, Before
      <4>2. CASE cursor # t
        <5>1. cursor \in DOMAIN store /\ store'[cursor] = store[cursor]
          BY <4>2, <3>2, <1>1 DEF Place
        <5> QED BY <5>1, <3>2, <2>1, <2>4, <1>2 DEF From, Before
      <4> QED BY <4>1, <4>2
    <3> QED BY <3>1, <3>2, <2>4 DEF From
  <2> QED BY <2>1, <2>2, <2>3, <2>4 DEF Covered
<1>6. InOrderYet'
  <2>1. writes' # 0
    BY <1>2 DEF TypeOK
  <2> QED BY <2>1 DEF InOrderYet
<1> QED BY <1>3, <1>4, <1>5, <1>6

\* A store page is added to what was taken, and the token moves on behind it.
LEMMA ReadKeepsCovered ==
    ASSUME ListingAssumption, IInv, ReadStorePage
    PROVE  IInv'
<1> USE DEF IInv
<1>1. PICK tasks, next :
         /\ GoesOn(tasks, next, Matches \ Hidden)
         /\ listed' \o authorized' = (listed \o authorized) \o tasks
         /\ cursor' = next
         /\ walk' \in {"reading", "holding", "ended"}
         /\ walk' = "ended" <=> next = NoToken
         /\ walk' # "reading" => authorized' = <<>>
         /\ storePages' \in 0 .. MaxStorePages - 1
         /\ authorized' \in Seq(Ids \ Hidden) /\ Len(authorized') < pageSize
         /\ listed' \in Seq(Ids \ Hidden)
  BY ReadGoesOn
<1>2. walk = "reading" /\ UNCHANGED <<store, writes, pageSize, undisturbed>>
  BY DEF ReadStorePage
<1>3. Rows /\ Matches \subseteq DOMAIN store /\ NoToken \notin DOMAIN store
  BY MatchesAreTasks
<1>4. next \in Matches \cup {NoToken}
  BY <1>1 DEF GoesOn
<1>5. TypeOK'
  <2>1. cursor' \in Ids \cup {NoToken}
    BY <1>1, <1>3, <1>4 DEF Rows
  <2> QED BY <1>1, <1>2, <2>1 DEF TypeOK
<1>6. Place'
  BY <1>1, <1>2, <1>3, <1>4 DEF Place
<1>7. /\ listed \in Seq(Ids \ Hidden) /\ authorized \in Seq(Ids \ Hidden)
      /\ tasks \in Seq(Ids \ Hidden)
  <2>1. Matches \ Hidden \subseteq Ids \ Hidden
    BY <1>3 DEF Rows
  <2> QED BY <2>1, <1>1, SeqMonotonic DEF GoesOn, TypeOK
<1>8. PICK before : before = Taken
  OBVIOUS
<1>9. PICK after : after = before \o tasks
  OBVIOUS
<1>10. Taken' = after
  BY <1>1, <1>8, <1>9 DEF Taken
<1>11. before \in Seq(Ids \ Hidden)
  BY <1>7, <1>8, ConcatProperties DEF Taken
<1>12. DOMAIN before = 1 .. Len(before) /\ Len(before) \in Nat
       /\ DOMAIN tasks = 1 .. Len(tasks) /\ Len(tasks) \in Nat
  BY <1>7, <1>11
<1>13. /\ DOMAIN after = 1 .. Len(before) + Len(tasks)
       /\ \A i \in DOMAIN before : i \in DOMAIN after /\ after[i] = before[i]
       /\ \A j \in DOMAIN tasks :
             Len(before) + j \in DOMAIN after /\ after[Len(before) + j] = tasks[j]
       /\ \A i \in DOMAIN after :
             \/ i \in DOMAIN before /\ after[i] = before[i]
             \/ /\ i - Len(before) \in DOMAIN tasks
                /\ after[i] = tasks[i - Len(before)]
  <2>1. /\ after \in Seq(Ids \ Hidden) /\ Len(after) = Len(before) + Len(tasks)
        /\ \A i \in 1 .. Len(before) + Len(tasks) : after[i] =
              IF i <= Len(before) THEN before[i] ELSE tasks[i - Len(before)]
    BY <1>7, <1>9, <1>11, ConcatProperties
  <2>2. DOMAIN after = 1 .. Len(before) + Len(tasks)
    BY <2>1
  <2> QED BY <2>1, <2>2, <1>12
<1>14. Covered'
  <2> SUFFICES ASSUME NEW u \in undisturbed', (u \in Matches /\ u \notin Hidden)'
               PROVE  (Has(Taken, u) \/ (walk # "ended" /\ From(cursor, u)))'
    BY DEF Covered
  <2>1. u \in undisturbed /\ u \in Matches \ Hidden
    BY <1>2 DEF Matches
  <2>2. CASE Has(before, u)
    BY <2>2, <1>10, <1>13 DEF Has
  <2>3. CASE ~Has(before, u)
    <3>1. From(cursor, u)
      BY <2>1, <2>3, <1>8 DEF Covered
    <3>2. Has(tasks, u) \/ (next # NoToken /\ From(next, u))
      BY <3>1, <2>1, <1>1 DEF GoesOn
    <3>3. CASE Has(tasks, u)
      BY <3>3, <1>10, <1>13 DEF Has
    <3>4. CASE next # NoToken /\ From(next, u)
      <4>1. walk' # "ended" /\ cursor' = next
        BY <3>4, <1>1
      <4>2. From(cursor, u)'
        BY <4>1, <3>4, <1>2 DEF From, Before
      <4> QED BY <4>1, <4>2
    <3> QED BY <3>2, <3>3, <3>4
  <2> QED BY <2>2, <2>3
<1>15. ASSUME writes = 0
       PROVE  /\ after \in Seq(Matches) /\ Sorted(after)
              /\ next # NoToken => \A i \in DOMAIN after : Before(after[i], next)
  <2>1. /\ before \in Seq(Matches) /\ Sorted(before)
        /\ cursor = NoToken => before = <<>>
        /\ cursor # NoToken =>
              cursor \in Matches /\ \A i \in DOMAIN before : Before(before[i], cursor)
    BY <1>2, <1>8, <1>15 DEF InOrderYet
  <2>2. /\ tasks \in Seq(Matches) /\ Sorted(tasks)
        /\ \A i \in DOMAIN tasks : next # NoToken => Before(tasks[i], next)
        /\ \A i \in DOMAIN tasks : cursor \in Matches => From(cursor, tasks[i])
        /\ cursor \in Matches /\ next # NoToken => Before(cursor, next)
    <3>1. tasks \in Seq(Matches)
      BY <1>1, SeqMonotonic DEF GoesOn
    <3> QED BY <3>1, <1>1 DEF GoesOn
  <2>3. after \in Seq(Matches)
    BY <2>1, <2>2, <1>9, ConcatProperties
  <2>4. \A i \in DOMAIN before : before[i] \in DOMAIN store
    BY <2>1, <1>3
  <2>5. \A i \in DOMAIN tasks : tasks[i] \in DOMAIN store
    BY <2>2, <1>3
  <2>6. \A i \in DOMAIN before, j \in DOMAIN tasks : Before(before[i], tasks[j])
    <3> SUFFICES ASSUME NEW i \in DOMAIN before, NEW j \in DOMAIN tasks
                 PROVE  Before(before[i], tasks[j])
      OBVIOUS
    <3>1. cursor # NoToken
      BY <2>1
    <3>2. /\ cursor \in DOMAIN store /\ Before(before[i], cursor)
          /\ tasks[j] = cursor \/ Before(cursor, tasks[j])
      BY <3>1, <2>1, <2>2, <1>3 DEF From
    <3> QED BY <3>2, <2>4, <2>5, <1>3, BeforeOrders
  <2>7. Sorted(after)
    <3> SUFFICES ASSUME NEW i \in DOMAIN after, NEW j \in DOMAIN after, i < j
                 PROVE  Before(after[i], after[j])
      BY DEF Sorted
    <3>1. CASE j \in DOMAIN before /\ after[j] = before[j]
      <4>1. i \in DOMAIN before /\ after[i] = before[i]
        BY <3>1, <1>12, <1>13
      <4> QED BY <3>1, <4>1, <2>1 DEF Sorted
    <3>2. CASE i \in DOMAIN before /\ after[i] = before[i]
               /\ j - Len(before) \in DOMAIN tasks
               /\ after[j] = tasks[j - Len(before)]
      BY <3>2, <2>6
    <3>3. CASE i - Len(before) \in DOMAIN tasks
               /\ after[i] = tasks[i - Len(before)]
               /\ j - Len(before) \in DOMAIN tasks
               /\ after[j] = tasks[j - Len(before)]
      <4>1. i - Len(before) < j - Len(before)
        BY <1>12, <1>13
      <4> QED BY <3>3, <4>1, <2>2 DEF Sorted
    <3> QED BY <3>1, <3>2, <3>3, <1>13
  <2>8. ASSUME NEW i \in DOMAIN after, next # NoToken
        PROVE  Before(after[i], next)
    <3>1. CASE i \in DOMAIN before /\ after[i] = before[i]
      <4>1. cursor # NoToken
        BY <3>1, <2>1
      <4>2. /\ cursor \in DOMAIN store /\ next \in DOMAIN store
            /\ Before(before[i], cursor) /\ Before(cursor, next)
        BY <4>1, <3>1, <2>1, <2>2, <2>8, <1>3, <1>4
      <4> QED BY <3>1, <4>2, <2>4, <1>3, BeforeOrders
    <3>2. CASE i - Len(before) \in DOMAIN tasks
               /\ after[i] = tasks[i - Len(before)]
      BY <3>2, <2>2, <2>8
    <3> QED BY <3>1, <3>2, <1>13
  <2> QED BY <2>3, <2>7, <2>8
<1>16. InOrderYet'
  <2> SUFFICES ASSUME writes' = 0 PROVE InOrderYet'
    BY DEF InOrderYet
  <2>1. writes = 0 /\ Matches' = Matches
    BY <1>2 DEF Matches
  <2>2. Sorted(Taken)'
    <3>1. \A i, j \in DOMAIN after : i < j => Before(after[i], after[j])
      BY <2>1, <1>15 DEF Sorted
    <3> QED BY <3>1, <1>2, <1>10 DEF Sorted, Before
  <2>3. (Taken \in Seq(Matches))'
    BY <2>1, <1>10, <1>15
  <2>4. walk' # "ended" =>
           /\ cursor' # NoToken /\ cursor' = next /\ next \in Matches
           /\ \A i \in DOMAIN after : Before(after[i], next)
    BY <2>1, <1>1, <1>4, <1>15
  <2>5. walk' # "ended" =>
           (cursor \in Matches /\ \A i \in DOMAIN Taken : Before(Taken[i], cursor))'
    BY <2>1, <2>4, <1>2, <1>10 DEF Before
  <2> QED BY <2>2, <2>3, <2>4, <2>5 DEF InOrderYet
<1> QED BY <1>5, <1>6, <1>14, <1>16

\* Nothing is taken while the client and the server wait for each other.
LEMMA WaitingKeepsOrder ==
    ASSUME InOrderYet, UNCHANGED <<store, writes, listed, authorized, cursor>>,
           walk # "ended" \/ walk' = "ended"
    PROVE  InOrderYet'
<1>1. Taken' = Taken /\ Matches' = Matches
  BY DEF Taken, Matches
<1>2. Sorted(Taken)' <=> Sorted(Taken)
  BY <1>1 DEF Sorted, Before
<1>3. (\A i \in DOMAIN Taken : Before(Taken[i], cursor))' <=>
        \A i \in DOMAIN Taken : Before(Taken[i], cursor)
  BY <1>1 DEF Before
<1> QED BY <1>1, <1>2, <1>3 DEF InOrderYet

LEMMA StepKeepsCovered ==
    ASSUME ListingAssumption, IInv, [Next]_vars
    PROVE  IInv'
<1> USE DEF IInv
<1> DEFINE Kept == UNCHANGED <<store, writes, listed, authorized, cursor>>
<1>2. ASSUME NEW t \in Ids, PutTask(t) PROVE IInv'
  BY <1>2, PutKeepsCovered
<1>4. CASE BeginWalk
  <2>1. Kept /\ walk = "idle" /\ walk' = "reading" /\ undisturbed' = DOMAIN store
        /\ UNCHANGED <<pageSize, storePages>>
    BY <1>4 DEF BeginWalk
  <2>2. TypeOK'
    BY <2>1 DEF TypeOK
  <2>3. Place' /\ Covered'
    BY <2>1 DEF Place, Covered, From
  <2>4. InOrderYet'
    BY <2>1, WaitingKeepsOrder
  <2> QED BY <2>2, <2>3, <2>4
<1>5. CASE NextPage
  <2>1. Kept /\ walk = "holding" /\ walk' = "reading"
        /\ UNCHANGED <<pageSize, storePages, undisturbed>>
    BY <1>5 DEF NextPage
  <2>2. TypeOK'
    BY <2>1 DEF TypeOK
  <2>3. Place'
    BY <2>1 DEF Place
  <2>4. Covered'
    BY <2>1 DEF Covered, Taken, Has, Matches, From, Before
  <2>5. InOrderYet'
    BY <2>1, WaitingKeepsOrder
  <2> QED BY <2>2, <2>3, <2>4, <2>5
<1>6. CASE ReadStorePage
  BY <1>6, ReadKeepsCovered
<1>7. CASE UNCHANGED vars
  <2>1. Kept /\ UNCHANGED <<walk, pageSize, storePages, undisturbed>>
    BY <1>7 DEF vars, call
  <2>2. TypeOK'
    BY <2>1 DEF TypeOK
  <2>3. Place'
    BY <2>1 DEF Place
  <2>4. Covered'
    BY <2>1 DEF Covered, Taken, Has, Matches, From, Before
  <2>5. InOrderYet'
    BY <2>1, WaitingKeepsOrder
  <2> QED BY <2>2, <2>3, <2>4, <2>5
<1> QED BY <1>2, <1>4, <1>5, <1>6, <1>7 DEF Next, Finished

\* The invariant holds from the first state on.
LEMMA WalkIsCovered == Spec => []IInv
<1> USE ListingAssumption
<1>1. Init => IInv
  BY InitIsCovered
<1>2. IInv /\ [Next]_vars => IInv'
  BY StepKeepsCovered
<1> QED BY <1>1, <1>2, PTL DEF Spec

\* A page never grows past the size it was asked for, tokens name tasks, and
\* nothing is listed that the caller may not see.
THEOREM ListingIsTyped == Spec => []TypeOK
<1>1. IInv => TypeOK
  BY DEF IInv
<1> QED BY <1>1, WalkIsCovered, PTL

\* A walk misses only tasks that were written meanwhile or that the task its
\* token named was put behind, whatever else was written (Engine::list_tasks
\* over InMemoryTaskStore::list).
THEOREM NothingUndisturbedEverMissed == Spec => []NothingUndisturbedMissed
<1>1. IInv => NothingUndisturbedMissed
  <2> SUFFICES ASSUME IInv, walk = "ended", NEW t \in undisturbed,
                      store[t].matches, t \notin Hidden
               PROVE  \E i \in DOMAIN listed : listed[i] = t
    BY DEF NothingUndisturbedMissed
  <2>1. t \in Matches
    BY DEF IInv, TypeOK, Matches
  <2>2. Has(listed \o authorized, t)
    BY <2>1 DEF IInv, Covered, Taken
  <2>3. authorized = <<>> /\ listed \in Seq(Ids \ Hidden)
    BY DEF IInv, Place, TypeOK
  <2>4. listed \o authorized = listed
    BY <2>3
  <2> QED BY <2>2, <2>4 DEF Has
<1> QED BY <1>1, WalkIsCovered, PTL

\* An undisturbed walk lists every task once, the most recent first.
THEOREM AlwaysListedOnceInOrder == Spec => []ListedOnceInOrder
<1> USE ListingAssumption
<1>1. IInv => ListedOnceInOrder
  <2> SUFFICES ASSUME IInv, writes = 0,
                      NEW i \in DOMAIN listed, NEW j \in DOMAIN listed, i < j
               PROVE  /\ listed[i] # listed[j]
                      /\ store[listed[i]].time >= store[listed[j]].time
    BY DEF ListedOnceInOrder
  <2>1. Taken \in Seq(Matches) /\ Sorted(Taken)
    BY DEF IInv, InOrderYet
  <2>2. listed \in Seq(Ids \ Hidden) /\ authorized \in Seq(Ids \ Hidden)
    BY DEF IInv, TypeOK
  <2>3. \A k \in DOMAIN listed : k \in DOMAIN Taken /\ Taken[k] = listed[k]
    <3>1. /\ Taken \in Seq(Ids \ Hidden) /\ Len(Taken) = Len(listed) + Len(authorized)
          /\ \A k \in 1 .. Len(listed) + Len(authorized) : Taken[k] =
                IF k <= Len(listed) THEN listed[k] ELSE authorized[k - Len(listed)]
      BY <2>2, ConcatProperties DEF Taken
    <3>2. /\ DOMAIN listed = 1 .. Len(listed) /\ Len(listed) \in Nat
          /\ Len(authorized) \in Nat
          /\ DOMAIN Taken = 1 .. Len(listed) + Len(authorized)
      BY <3>1, <2>2
    <3> QED BY <3>1, <3>2
  <2>4. Rows /\ Matches \subseteq DOMAIN store
    BY MatchesAreTasks DEF IInv
  <2>5. /\ listed[i] \in DOMAIN store /\ listed[j] \in DOMAIN store
        /\ Before(listed[i], listed[j])
    BY <2>1, <2>3, <2>4 DEF Sorted
  <2>6. listed[i] # listed[j]
    BY <2>4, <2>5, BeforeOrders
  <2>7. store[listed[i]].time \in Nat /\ store[listed[j]].time \in Nat
    BY <2>4, <2>5 DEF Rows, Row, ListingAssumption
  <2> QED BY <2>5, <2>6, <2>7 DEF Before
<1> QED BY <1>1, WalkIsCovered, PTL
=============================================================================

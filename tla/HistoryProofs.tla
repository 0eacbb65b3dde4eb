---------------------------- MODULE HistoryProofs ----------------------------
(***************************************************************************)
(* Proofs about the history: ids are not reused although SQLite gives out  *)
(* one more than the greatest id in the table and PruneEvents deletes rows *)
(* (the row with the greatest id is always there), pages have no gaps and  *)
(* show no event twice, and a page that has heard of every change of an    *)
(* event shows its row.                                                    *)
(***************************************************************************)
EXTENDS History, FiniteSetTheorems, SequenceTheorems, TLAPS

(* The bounds are numbers.                                                 *)
LEMMA Bounds == Keep \in Nat \ {0} /\ Page \in Nat \ {0} /\ MaxId \in Nat /\ \A i \in Ids : i \in Nat \ {0}
BY HistoryAssumption DEF Ids

(***************************************************************************)
(* Lists in the order of their ids.                                        *)
(***************************************************************************)

Distinct(s) == \A m, n \in DOMAIN s : s[m].id = s[n].id => m = n

Descending(s) == \A m, n \in DOMAIN s : m < n => s[m].id > s[n].id

(* The sequence s has the entries of a at the places K, newest first.      *)
Sorts(s, a, K) ==
  /\ s \in Seq(Shown)
  /\ DOMAIN s = 1..Cardinality(K) /\ Len(s) = Cardinality(K)
  /\ \A n \in DOMAIN s : \E k \in K : s[n] = a[k]
  /\ \A k \in K : \E n \in DOMAIN s : s[n] = a[k]
  /\ (\A j, k \in K : a[j].id = a[k].id => j = k) => Descending(s)

(* B is a total order of K.                                                *)
Orders(B, K) ==
  /\ B \subseteq K \X K
  /\ \A j, k \in K : <<j, k>> \in B \/ <<k, j>> \in B
  /\ \A j, k \in K : <<j, k>> \in B /\ <<k, j>> \in B => j = k
  /\ \A i, j, k \in K : <<i, j>> \in B /\ <<j, k>> \in B => <<i, k>> \in B

(* The ranks that an order gives to a finite set are the numbers up to its *)
(* size, each taken once.                                                  *)
LEMMA RanksAreTaken ==
  ASSUME NEW K, IsFiniteSet(K), NEW B, Orders(B, K),
         NEW R, DOMAIN R = K, \A k \in K : R[k] = Cardinality({j \in K : <<j, k>> \in B}),
         R = [k \in K |-> R[k]]
  PROVE  /\ Cardinality(K) \in Nat
         /\ R \in [K -> 1..Cardinality(K)]
         /\ \A j, k \in K : j # k /\ <<j, k>> \in B => R[j] < R[k]
         /\ \A n \in 1..Cardinality(K) : \E k \in K : R[k] = n
<1>0. \A k \in K : <<k, k>> \in B
  BY DEF Orders
<1> DEFINE S(k) == {j \in K : <<j, k>> \in B}
           N == Cardinality(K)
<1>1. N \in Nat
  BY FS_CardinalityType
<1>2. ASSUME NEW k \in K PROVE IsFiniteSet(S(k)) /\ R[k] = Cardinality(S(k)) /\ R[k] \in 1..N
  <2>1. S(k) \in SUBSET K /\ S(k) # {}
    BY <1>0
  <2>2. IsFiniteSet(S(k)) /\ Cardinality(S(k)) <= N
    BY <2>1, FS_Subset, Zenon
  <2>3. Cardinality(S(k)) \in Nat /\ Cardinality(S(k)) # 0
    BY <2>1, <2>2, FS_CardinalityType, FS_EmptySet, Zenon
  <2>4. R[k] = Cardinality(S(k))
    OBVIOUS
  <2> HIDE DEF S, N
  <2> QED BY <1>1, <2>2, <2>3, <2>4
<1>3. ASSUME NEW j \in K, NEW k \in K, j # k, <<j, k>> \in B PROVE R[j] < R[k]
  <2>1. S(j) \in SUBSET S(k) /\ k \in S(k) /\ k \notin S(j)
    BY <1>0, <1>3 DEF Orders
  <2>2. Cardinality(S(j)) <= Cardinality(S(k)) /\ (Cardinality(S(k)) = Cardinality(S(j)) => S(k) = S(j))
    <3> HIDE DEF S
    <3> QED BY <1>2, <2>1, FS_Subset
  <2>3. Cardinality(S(j)) # Cardinality(S(k))
    BY <2>1, <2>2
  <2>4. R[j] \in 1..N /\ R[k] \in 1..N /\ R[j] = Cardinality(S(j)) /\ R[k] = Cardinality(S(k))
    BY <1>2
  <2> HIDE DEF S, N
  <2> QED BY <1>1, <2>2, <2>3, <2>4
<1>4. R \in [K -> 1..N]
  BY <1>2
<1>5. R \in Injection(K, 1..N)
  <2>1. ASSUME NEW j \in K, NEW k \in K, R[j] = R[k], j # k PROVE FALSE
    <3>1. R[j] < R[k] \/ R[k] < R[j]
      BY <1>3, <2>1 DEF Orders
    <3>2. R[j] \in 1..N
      BY <1>4
    <3> HIDE DEF N
    <3> QED BY <2>1, <3>1, <3>2, <1>1
  <2>2. IsInjective(R)
    BY <1>4, <2>1 DEF IsInjective
  <2> QED BY <1>4, <2>2 DEF Injection
<1>6. IsFiniteSet(1..N) /\ Cardinality(1..N) = N
  <2> HIDE DEF N
  <2>1. IsFiniteSet(1..N) /\ Cardinality(1..N) = IF 1 > N THEN 0 ELSE N - 1 + 1
    BY <1>1, FS_Interval
  <2> QED BY <1>1, <2>1
<1>7. R \in Surjection(K, 1..N)
  BY <1>5, <1>6, FS_Injection
<1>8. \A n \in 1..N : \E k \in K : R[k] = n
  BY <1>7 DEF Surjection
<1> QED BY <1>1, <1>3, <1>4, <1>8

(* NewestFirst sorts.                                                      *)
LEMMA NewestFirstSorts ==
  ASSUME NEW a, NEW K, K \subseteq Nat, IsFiniteSet(K), \A k \in K : a[k] \in Shown
  PROVE  Sorts(NewestFirst(a, K), a, K)
<1> DEFINE Before(j, k) == a[j].id > a[k].id \/ (a[j].id = a[k].id /\ j <= k)
           B == {p \in K \X K : Before(p[1], p[2])}
           R == [k \in K |-> Cardinality({j \in K : <<j, k>> \in B})]
           N == Cardinality(K)
           At(n) == CHOOSE k \in K : Cardinality({j \in K : Before(j, k)}) = n
           s == NewestFirst(a, K)
<1>0. \A k \in K : k \in Nat /\ a[k].id \in Nat
  BY Bounds DEF Shown
<1>1. B \in SUBSET (K \X K) /\ \A j, k \in K : <<j, k>> \in B <=> Before(j, k)
  OBVIOUS
<1> HIDE DEF B
<1>1a. ASSUME NEW j \in K, NEW k \in K PROVE <<j, k>> \in B \/ <<k, j>> \in B
  <2>1. j \in Nat /\ k \in Nat /\ a[j].id \in Nat /\ a[k].id \in Nat
    BY <1>0
  <2>2. Before(j, k) \/ Before(k, j)
    BY <2>1
  <2> HIDE DEF Before
  <2> QED BY <1>1, <2>2
<1>2. R = [k \in K |-> Cardinality({j \in K : <<j, k>> \in B})]
  OBVIOUS
<1>3. ASSUME NEW k \in K PROVE R[k] = Cardinality({j \in K : Before(j, k)})
  <2>1. {j \in K : <<j, k>> \in B} = {j \in K : Before(j, k)}
    BY <1>1
  <2> HIDE DEF Before
  <2> QED BY <2>1
<1> HIDE DEF R
<1>4. /\ N \in Nat
      /\ R \in [K -> 1..N]
      /\ \A j, k \in K : j # k /\ <<j, k>> \in B => R[j] < R[k]
      /\ \A n \in 1..N : \E k \in K : R[k] = n
  <2>1. \A j, k \in K : <<j, k>> \in B /\ <<k, j>> \in B => j = k
    BY <1>0, <1>1
  <2>2. \A i, j, k \in K : <<i, j>> \in B /\ <<j, k>> \in B => <<i, k>> \in B
    BY <1>0, <1>1
  <2>3. Orders(B, K)
    BY <1>1, <1>1a, <2>1, <2>2 DEF Orders
  <2>4. DOMAIN R = K /\ R = [k \in K |-> R[k]] /\ \A k \in K : R[k] = Cardinality({j \in K : <<j, k>> \in B})
    BY <1>2
  <2> QED BY <2>3, <2>4, RanksAreTaken DEF N
<1> HIDE DEF N
<1>5. ASSUME NEW n \in 1..N PROVE At(n) \in K /\ R[At(n)] = n
  <2>1. \E k \in K : Cardinality({j \in K : Before(j, k)}) = n
    BY <1>3, <1>4
  <2>2. At(n) \in K /\ Cardinality({j \in K : Before(j, At(n))}) = n
    BY <2>1, Zenon
  <2> QED BY <1>3, <2>2
<1>5a. s = [n \in 1..N |-> a[At(n)]]
  BY Zenon DEF NewestFirst, N
<1> HIDE DEF At, s
<1>6. DOMAIN s = 1..N /\ \A n \in 1..N : s[n] = a[At(n)]
  BY <1>5a
<1>7. s \in Seq(Shown) /\ Len(s) = N
  <2>1. s \in [1..N -> Shown]
    BY <1>5, <1>5a
  <2> QED BY <1>4, <2>1
<1>8. ASSUME NEW k \in K PROVE s[R[k]] = a[k] /\ R[k] \in 1..N
  <2>1. R[k] \in 1..N /\ At(R[k]) \in K /\ R[At(R[k])] = R[k]
    BY <1>4, <1>5
  <2>2. <<k, At(R[k])>> \in B \/ <<At(R[k]), k>> \in B
    BY <1>1a, <2>1
  <2>3. At(R[k]) = k
    <3> DEFINE j == At(R[k])
    <3>1. j \in K /\ R[j] = R[k] /\ R[k] \in Nat
      BY <1>4, <2>1
    <3>2. j # k => R[j] < R[k] \/ R[k] < R[j]
      BY <1>4, <2>1, <2>2
    <3> HIDE DEF j
    <3>3. j = k
      BY <3>1, <3>2
    <3> QED BY <3>3 DEF j
  <2> QED BY <1>6, <2>1, <2>3
<1>9. ASSUME \A j, k \in K : a[j].id = a[k].id => j = k PROVE Descending(s)
  <2> SUFFICES ASSUME NEW m \in 1..N, NEW n \in 1..N, m < n PROVE a[At(m)].id > a[At(n)].id
    BY <1>6 DEF Descending
  <2>1. At(m) \in K /\ At(n) \in K /\ R[At(m)] = m /\ R[At(n)] = n
    BY <1>5
  <2>2. At(m) # At(n) /\ m \in Nat /\ n \in Nat
    BY <2>1, <1>4
  <2>3. <<At(n), At(m)>> \notin B
    <3>1. <<At(n), At(m)>> \in B => R[At(n)] < R[At(m)]
      BY <1>4, <2>1, <2>2
    <3> QED BY <2>1, <2>2, <3>1
  <2>4. ~Before(At(n), At(m))
    BY <1>1, <2>1, <2>3
  <2>5. a[At(m)].id # a[At(n)].id
    BY <1>9, <2>1, <2>2
  <2>6. At(m) \in Nat /\ At(n) \in Nat /\ a[At(m)].id \in Nat /\ a[At(n)].id \in Nat
    BY <1>0, <2>1
  <2> QED BY <2>4, <2>5, <2>6
<1>10. \A n \in DOMAIN s : \E k \in K : s[n] = a[k]
  BY <1>5, <1>6
<1>11. \A k \in K : \E n \in DOMAIN s : s[n] = a[k]
  BY <1>6, <1>8
<1> QED BY <1>6, <1>7, <1>9, <1>10, <1>11 DEF Sorts, s, N

(* Merged puts the events that the list does not show under it and sorts.  *)
LEMMA MergedSorts ==
  ASSUME NEW got \in Seq(Shown), list \in Seq(Shown), Distinct(list), Distinct(got)
  PROVE  /\ Merged(got) \in Seq(Shown)
         /\ Descending(Merged(got))
         /\ \A n \in DOMAIN Merged(got) :
              \/ \E k \in DOMAIN list : Merged(got)[n] = list[k]
              \/ \E k \in DOMAIN got : Merged(got)[n] = got[k] /\ got[k].id \notin ShownIds
         /\ \A k \in DOMAIN list : \E n \in DOMAIN Merged(got) : Merged(got)[n] = list[k]
         /\ \A k \in DOMAIN got : \E n \in DOMAIN Merged(got) : Merged(got)[n].id = got[k].id
<1> DEFINE all == list \o got
           K == {k \in DOMAIN all : k <= Len(list) \/ all[k].id \notin ShownIds}
           m == Merged(got)
<1>1. m = NewestFirst(all, K)
  BY Zenon DEF Merged
<1>2. /\ all \in Seq(Shown) /\ Len(list) \in Nat /\ Len(got) \in Nat
      /\ DOMAIN all = 1..(Len(list) + Len(got))
      /\ DOMAIN list = 1..Len(list) /\ DOMAIN got = 1..Len(got)
      /\ \A k \in DOMAIN list : k \in DOMAIN all /\ all[k] = list[k]
      /\ \A k \in DOMAIN got : Len(list) + k \in DOMAIN all /\ all[Len(list) + k] = got[k]
      /\ \A k \in DOMAIN all : all[k] \in Shown /\ k \in Nat
  OBVIOUS
<1> HIDE DEF all
<1>3. \A k \in DOMAIN all : k <= Len(list) \/ k - Len(list) \in DOMAIN got
  BY <1>2
<1>4. ASSUME NEW k \in K
      PROVE  \/ k \in DOMAIN list /\ all[k] = list[k]
             \/ /\ k - Len(list) \in DOMAIN got /\ all[k] = got[k - Len(list)]
                /\ all[k].id \notin ShownIds
  BY <1>2, <1>3
<1>5. IsFiniteSet(K) /\ K \subseteq Nat /\ \A k \in K : all[k] \in Shown
  <2>1. IsFiniteSet(DOMAIN all)
    BY <1>2, FS_Interval
  <2> QED BY <1>2, <2>1, FS_Subset
<1>6. \A j, k \in K : all[j].id = all[k].id => j = k
  <2> SUFFICES ASSUME NEW j \in K, NEW k \in K, all[j].id = all[k].id PROVE j = k
    OBVIOUS
  <2>1. \A l \in DOMAIN list : list[l].id \in ShownIds
    BY DEF ShownIds
  <2>2. CASE j \in DOMAIN list /\ k \in DOMAIN list
    BY <1>2, <2>2 DEF Distinct
  <2>3. CASE j \notin DOMAIN list /\ k \notin DOMAIN list
    <3>1. j - Len(list) = k - Len(list)
      BY <1>4, <2>3 DEF Distinct
    <3> QED BY <1>2, <3>1
  <2> HIDE DEF K
  <2> QED BY <1>4, <2>1, <2>2, <2>3
<1>7. Sorts(m, all, K)
  BY <1>1, <1>5, NewestFirstSorts
<1>8. ASSUME NEW k \in DOMAIN list PROVE \E n \in DOMAIN m : m[n] = list[k]
  <2>1. k \in K /\ all[k] = list[k]
    BY <1>2
  <2> HIDE DEF K, m
  <2> QED BY <1>7, <2>1 DEF Sorts
<1>9. ASSUME NEW k \in DOMAIN got PROVE \E n \in DOMAIN m : m[n].id = got[k].id
  <2>1. CASE got[k].id \in ShownIds
    <3>1. PICK l \in DOMAIN list : list[l].id = got[k].id
      BY <2>1 DEF ShownIds
    <3> HIDE DEF m
    <3> QED BY <1>8, <3>1
  <2>2. CASE got[k].id \notin ShownIds
    <3>1. Len(list) + k \in K /\ all[Len(list) + k] = got[k]
      BY <1>2, <2>2
    <3> HIDE DEF K, m
    <3> QED BY <1>7, <3>1 DEF Sorts
  <2> QED BY <2>1, <2>2
<1> HIDE DEF K, m
<1>10. ASSUME NEW n \in DOMAIN m
       PROVE  \/ \E k \in DOMAIN list : m[n] = list[k]
              \/ \E k \in DOMAIN got : m[n] = got[k] /\ got[k].id \notin ShownIds
  BY <1>4, <1>7 DEF Sorts
<1>11. m \in Seq(Shown) /\ Descending(m)
  BY <1>6, <1>7 DEF Sorts
<1> QED BY <1>8, <1>9, <1>10, <1>11 DEF m

(* ListEvents gives the newest rows below an id, a page of them at most,   *)
(* and none is left out between them.                                      *)
LEMMA ListEventsLists ==
  ASSUME DOMAIN rows \subseteq Ids, \A i \in DOMAIN rows : rows[i] \in Row, NEW before \in Ids \cup {0}
  PROVE  /\ ListEvents(before) \in Seq(Shown) /\ Len(ListEvents(before)) <= Page
         /\ Descending(ListEvents(before))
         /\ \A n \in DOMAIN ListEvents(before) :
              /\ ListEvents(before)[n].id \in DOMAIN rows /\ ListEvents(before)[n].status = rows[ListEvents(before)[n].id].status
              /\ before > 0 => ListEvents(before)[n].id < before
         /\ \A i \in DOMAIN rows :
              (before > 0 => i < before) /\ (Len(ListEvents(before)) < Page \/ i >= ListEvents(before)[Len(ListEvents(before))].id)
              => \E n \in DOMAIN ListEvents(before) : ListEvents(before)[n].id = i
<1> DEFINE ids == {i \in DOMAIN rows : before > 0 => i < before}
           a == [i \in DOMAIN rows |-> [id |-> i, status |-> rows[i].status]]
           all == NewestFirst(a, ids)
           g == ListEvents(before)
           L == IF Len(all) < Page THEN Len(all) ELSE Page
<1>1. g = SubSeq(all, 1, L)
  BY Zenon DEF ListEvents
<1>2. \A i \in DOMAIN rows : a[i] \in Shown /\ a[i].id = i /\ a[i].status = rows[i].status /\ i \in Nat
  BY Bounds DEF Shown, Row
<1>3. ids \subseteq Nat /\ IsFiniteSet(ids)
  <2>1. IsFiniteSet(Ids)
    BY Bounds, FS_Interval DEF Ids
  <2> QED BY <2>1, FS_Subset, Bounds
<1>4. Sorts(all, a, ids)
  <2>1. \A i \in ids : a[i] \in Shown
    BY <1>2
  <2> HIDE DEF a, ids
  <2> QED BY <1>3, <2>1, NewestFirstSorts
<1>5. Descending(all)
  <2>1. \A i, j \in ids : a[i].id = a[j].id => i = j
    BY <1>2
  <2> QED BY <1>4, <2>1 DEF Sorts
<1>6. \A n \in DOMAIN all : all[n].id \in ids /\ all[n].status = rows[all[n].id].status
  <2> SUFFICES ASSUME NEW n \in DOMAIN all PROVE all[n].id \in ids /\ all[n].status = rows[all[n].id].status
    OBVIOUS
  <2>1. PICK i \in ids : all[n] = a[i]
    BY <1>4 DEF Sorts
  <2>2. all[n].id = i /\ all[n].status = rows[i].status
    BY <1>2, <2>1
  <2> QED BY <2>2
<1>7. \A i \in ids : \E n \in DOMAIN all : all[n].id = i
  <2> SUFFICES ASSUME NEW i \in ids PROVE \E n \in DOMAIN all : all[n].id = i
    OBVIOUS
  <2>1. PICK n \in DOMAIN all : all[n] = a[i]
    BY <1>4 DEF Sorts
  <2>2. all[n].id = i
    BY <1>2, <2>1
  <2> QED BY <2>2
<1>8. all \in Seq(Shown) /\ Len(all) \in Nat /\ DOMAIN all = 1..Len(all)
  BY <1>4 DEF Sorts
<1>9. \A n \in DOMAIN all : all[n].id \in Nat
  BY <1>6, <1>3
<1> HIDE DEF all, a, g
<1>10. L \in Nat /\ L <= Len(all) /\ L <= Page
  BY <1>8, Bounds
<1>11. g \in Seq(Shown) /\ Len(g) = L /\ DOMAIN g = 1..L /\ \A n \in 1..L : g[n] = all[n] /\ n \in DOMAIN all
  <2>1. \A n \in 1..L : all[n] \in Shown /\ n \in DOMAIN all
    BY <1>8, <1>10
  <2> HIDE DEF L
  <2> QED BY <1>1, <1>8, <1>10, <2>1, SubSeqProperties
<1>12. Descending(g)
  <2> HIDE DEF L
  <2> QED BY <1>5, <1>11 DEF Descending
<1>13. ASSUME NEW n \in DOMAIN g
       PROVE  /\ g[n].id \in DOMAIN rows /\ g[n].status = rows[g[n].id].status
              /\ before > 0 => g[n].id < before
  BY <1>6, <1>11
<1>14. ASSUME NEW i \in DOMAIN rows, before > 0 => i < before, Len(g) < Page \/ i >= g[Len(g)].id
       PROVE  \E n \in DOMAIN g : g[n].id = i
  <2>1. PICK n \in DOMAIN all : all[n].id = i
    BY <1>7, <1>14
  <2>2. n <= L
    <3>1. SUFFICES ASSUME n > L PROVE FALSE
      BY <1>8, <1>10, <2>1
    <3>2. L = Page /\ L \in DOMAIN all /\ L \in DOMAIN g
      <4>1. n \in Nat /\ n <= Len(all)
        BY <1>8, <2>1
      <4>2. Len(all) > L
        BY <1>8, <1>10, <3>1, <4>1
      <4>3. L = Page
        <5>1. CASE Len(all) < Page
          <6>1. L = Len(all)
            BY <5>1
          <6> HIDE DEF L
          <6> QED BY <1>8, <4>2, <6>1
        <5>2. CASE ~(Len(all) < Page)
          BY <5>2
        <5> QED BY <5>1, <5>2
      <4> HIDE DEF L
      <4> QED BY <1>8, <1>10, <1>11, <4>2, <4>3, Bounds
    <3>3. i >= g[L].id /\ g[L] = all[L]
      BY <1>11, <1>14, <3>2, Bounds
    <3>4. all[L].id > all[n].id
      BY <1>5, <3>1, <3>2 DEF Descending
    <3> QED BY <1>9, <2>1, <3>2, <3>3, <3>4
  <2>3. n \in DOMAIN g
    BY <1>8, <1>10, <1>11, <2>2
  <2> QED BY <1>11, <2>1, <2>3
<1> HIDE DEF g, L
<1> QED BY <1>10, <1>11, <1>12, <1>13, <1>14 DEF g

(* A streamed event takes the place of its older copy, or the first one.   *)
LEMMA WithStreamedShows ==
  ASSUME list \in Seq(Shown), Distinct(list), NEW e \in Shown
  PROVE  /\ WithStreamed(e) \in Seq(Shown) /\ Distinct(WithStreamed(e))
         /\ \A n \in DOMAIN WithStreamed(e) : WithStreamed(e)[n] = e \/ \E k \in DOMAIN list : WithStreamed(e)[n] = list[k] /\ list[k].id # e.id
         /\ \E n \in DOMAIN WithStreamed(e) : WithStreamed(e)[n] = e
         /\ \A k \in DOMAIN list : \E n \in DOMAIN WithStreamed(e) : WithStreamed(e)[n].id = list[k].id
<1> DEFINE w == WithStreamed(e)
<1>0. Len(list) \in Nat /\ DOMAIN list = 1..Len(list)
  OBVIOUS
<1>1. CASE e.id \in ShownIds
  <2>1. w = [k \in DOMAIN list |-> IF list[k].id = e.id THEN e ELSE list[k]]
    BY <1>1 DEF WithStreamed
  <2>2. PICK l \in DOMAIN list : list[l].id = e.id
    BY <1>1 DEF ShownIds
  <2>3. w \in [1..Len(list) -> Shown] /\ w[l] = e /\ DOMAIN w = DOMAIN list
    BY <1>0, <2>1, <2>2
  <2>4. \A k \in DOMAIN list : w[k].id = list[k].id
    BY <2>1
  <2>5. w \in Seq(Shown)
    BY <1>0, <2>3
  <2>6. Distinct(w)
    BY <2>3, <2>4 DEF Distinct
  <2>7. \A n \in DOMAIN w : w[n] = e \/ \E k \in DOMAIN list : w[n] = list[k] /\ list[k].id # e.id
    BY <2>1
  <2> QED BY <2>2, <2>3, <2>4, <2>5, <2>6, <2>7
<1>2. CASE e.id \notin ShownIds
  <2>1. w = <<e>> \o list
    BY <1>2 DEF WithStreamed
  <2>2. w \in Seq(Shown) /\ DOMAIN w = 1..(Len(list) + 1)
    BY <2>1, <1>0
  <2>3. w[1] = e /\ 1 \in DOMAIN w /\ \A k \in DOMAIN list : k + 1 \in DOMAIN w /\ w[k + 1] = list[k]
    BY <2>1, <1>0
  <2>4. \A n \in DOMAIN w : n = 1 \/ (n - 1 \in DOMAIN list /\ w[n] = list[n - 1])
    BY <2>1, <2>2, <1>0
  <2>5. \A k \in DOMAIN list : list[k].id # e.id
    BY <1>2 DEF ShownIds
  <2>6. Distinct(w)
    <3> SUFFICES ASSUME NEW m \in DOMAIN w, NEW n \in DOMAIN w, w[m].id = w[n].id PROVE m = n
      BY DEF Distinct
    <3>1. m = 1 <=> n = 1
      BY <2>3, <2>4, <2>5
    <3>2. m # 1 => m - 1 = n - 1
      BY <2>4, <3>1 DEF Distinct
    <3> QED BY <2>2, <3>1, <3>2
  <2>7. \A n \in DOMAIN w : w[n] = e \/ \E k \in DOMAIN list : w[n] = list[k] /\ list[k].id # e.id
    BY <2>3, <2>4, <2>5
  <2>8. \A k \in DOMAIN list : \E n \in DOMAIN w : w[n].id = list[k].id
    BY <2>3
  <2> QED BY <2>2, <2>3, <2>6, <2>7, <2>8
<1> HIDE DEF w
<1> QED BY <1>1, <1>2 DEF w

(***************************************************************************)
(* The inductive invariant.                                                *)
(***************************************************************************)

(* The newest event of all is in the table, and none is newer.             *)
RowsInv ==
  /\ DOMAIN rows \subseteq Ids
  /\ newest \in Nat
  /\ newest = 0 \/ newest \in DOMAIN rows
  /\ \A i \in DOMAIN rows : i <= newest

(* What is under way or shown is of events that there have been; the list  *)
(* has each once, and only an answer that has come holds rows.             *)
KnownInv ==
  /\ \A d \in due : d.id <= newest
  /\ \A n \in DOMAIN buf : buf[n].id <= newest
  /\ \A k \in DOMAIN list : list[k].id <= newest
  /\ \A k \in DOMAIN fetch.got : fetch.got[k].id <= newest
  /\ Distinct(list)
  /\ Descending(fetch.got)
  /\ fetch.pc # "answered" => fetch.got = << >>

(* Nothing more is on its way from the row of event i to the bus.          *)
Published(i) == i \in DOMAIN rows \ missed /\ \A d \in due : d.id # i

(* A change that is due is what the row says, and the last of its event.   *)
DueInv ==
  /\ \A d, e \in due : d.id = e.id => d = e
  /\ \A d \in due : d.id \in DOMAIN rows => rows[d.id].status = d.status

(* The last change in the channel is what the row says.                    *)
BufInv ==
  \A n \in DOMAIN buf :
    /\ Published(buf[n].id)
    /\ \A m \in DOMAIN buf : m > n => buf[m].id # buf[n].id
    => buf[n].status = rows[buf[n].id].status

(* So does an answer, of an event that the page has not heard of.          *)
AnswerInv ==
  \A k \in DOMAIN fetch.got :
    /\ Published(fetch.got[k].id)
    /\ fetch.got[k].id \notin ShownIds \cup BufIds
    => fetch.got[k].status = rows[fetch.got[k].id].status

(* Of the rows below the list, the answer that has come has what it should. *)
AnswerIsNext ==
  \A i \in DOMAIN rows :
    /\ IF list = << >> THEN fetch.got # << >> /\ i <= fetch.got[1].id
       ELSE i < list[Len(list)].id
    /\ Len(fetch.got) < Page \/ i >= fetch.got[Len(fetch.got)].id
    => \E k \in DOMAIN fetch.got : fetch.got[k].id = i

(* A page that the stream has brought nothing has been filled from the top *)
(* to the bottom.                                                          *)
PagesInv ==
  ~streamed =>
    /\ Descending(list)
    /\ fetch.pc = "opening" => list = << >> /\ fetch.before = 0
    /\ fetch.pc = "asked" => list # << >> /\ fetch.before = list[Len(list)].id
    /\ list # << >> /\ fetch.pc # "idle" => fetch.more
    /\ fetch.pc = "answered" =>
         /\ list # << >> => \A k \in DOMAIN fetch.got : fetch.got[k].id < list[Len(list)].id
         /\ AnswerIsNext
    /\ PagesAreComplete

HistoryInv ==
  /\ TypeOK /\ RowsInv /\ KnownInv
  /\ DueInv /\ BufInv /\ AnswerInv /\ FeedIsCurrent
  /\ PagesInv

(***************************************************************************)
(* The rows.                                                               *)
(***************************************************************************)

(* SQLite gives the next event the next id.                                *)
LEMMA NewIdIsNext == ASSUME RowsInv PROVE NewId = newest + 1
<1>1. CASE DOMAIN rows = {}
  BY <1>1 DEF RowsInv, NewId
<1>2. CASE DOMAIN rows # {}
  <2>1. PICK i \in DOMAIN rows : TRUE
    BY <1>2
  <2>2. newest \in DOMAIN rows
    BY <2>1, Bounds DEF RowsInv
  <2>3. ASSUME NEW n \in DOMAIN rows, \A j \in DOMAIN rows : j <= n
        PROVE  n = newest
    BY <2>2, <2>3, Bounds DEF RowsInv
  <2> DEFINE last == CHOOSE n \in DOMAIN rows : \A j \in DOMAIN rows : j <= n
  <2>4. last \in DOMAIN rows /\ \A j \in DOMAIN rows : j <= last
    BY <2>2 DEF RowsInv
  <2>5. last = newest
    BY <2>3, <2>4
  <2>6. NewId = 1 + last
    BY <1>2 DEF NewId
  <2>7. newest \in Nat /\ 1 + newest = newest + 1
    BY DEF RowsInv
  <2> HIDE DEF last
  <2> QED BY <2>5, <2>6, <2>7
<1> QED BY <1>1, <1>2

(* An insert adds the row with the next id.                                *)
LEMMA InsertInv ==
  ASSUME RowsInv, NEW a, NEW status, Insert(a, status)
  PROVE  RowsInv' /\ \A i \in DOMAIN rows' \ DOMAIN rows : i > newest
<1>1. NewId = newest + 1 /\ NewId \in Ids /\ newest \in Nat
  BY NewIdIsNext DEF Insert, RowsInv
<1>2. DOMAIN rows' = DOMAIN rows \cup {NewId} /\ newest' = NewId
  BY <1>1 DEF Insert
<1>3. \A i \in DOMAIN rows : i \in Nat /\ i <= newest
  BY Bounds DEF RowsInv
<1>4. DOMAIN rows' \subseteq Ids
  BY <1>1, <1>2 DEF RowsInv
<1>5. \A i \in DOMAIN rows' : i <= newest'
  BY <1>1, <1>2, <1>3
<1>6. \A i \in DOMAIN rows' \ DOMAIN rows : i > newest
  BY <1>1, <1>2
<1>7. newest' \in Nat /\ newest' \in DOMAIN rows'
  BY <1>1, <1>2
<1> QED BY <1>4, <1>5, <1>6, <1>7 DEF RowsInv

(* The newest event is the first of its app's, and kept.                   *)
LEMMA NewestIsKept ==
  ASSUME RowsInv, newest \in DOMAIN rows, NEW last
  PROVE  ~Prunable(newest, last)
<1> SUFFICES ASSUME rows[newest].status = "ended" PROVE ~(RowNumber(newest) > Keep)
  BY DEF Prunable
<1> DEFINE S == {j \in DOMAIN rows : /\ j >= newest
                                     /\ rows[j].app = rows[newest].app
                                     /\ rows[j].status = "ended"}
<1>1. S = {newest}
  BY Bounds DEF RowsInv
<1>2. RowNumber(newest) = Cardinality({newest})
  BY <1>1 DEF RowNumber
<1>3. Cardinality({newest}) = 1
  BY FS_Singleton
<1> QED BY <1>2, <1>3, Bounds

(* Pruning leaves the newest event.                                        *)
LEMMA PruneInv ==
  ASSUME RowsInv, NEW last, PruneEvents(last)
  PROVE  RowsInv' /\ DOMAIN rows' \subseteq DOMAIN rows
<1>1. DOMAIN rows' = {i \in DOMAIN rows : ~Prunable(i, last)} /\ newest' = newest
  BY DEF PruneEvents
<1> QED BY <1>1, NewestIsKept DEF RowsInv

(* A step that leaves the ids of the rows alone.                           *)
LEMMA SameIds ==
  ASSUME RowsInv, DOMAIN rows' = DOMAIN rows, newest' = newest
  PROVE  RowsInv' /\ \A i \in DOMAIN rows' \ DOMAIN rows : i > newest
BY DEF RowsInv

(* Every step keeps the newest event and gives fresh ids only.             *)
LEMMA StepInv ==
  ASSUME RowsInv, [Next]_vars
  PROVE  RowsInv' /\ \A i \in DOMAIN rows' \ DOMAIN rows : i > newest
<1>1. CASE \E a \in Apps : CreateEvent(a) \/ RecordSkip(a)
  BY <1>1, InsertInv DEF CreateEvent, RecordSkip
<1>2. CASE \E a \in Apps : DeleteApp(a)
  BY <1>2, SameIds DEF DeleteApp
<1>3. CASE \E i \in Ids : UpdateEvent(i)
  BY <1>3, SameIds DEF UpdateEvent
<1>4. CASE \E i \in Ids : PruneEvents(i)
  BY <1>4, PruneInv
<1>5. CASE StreamStep \/ FetchStep
  <2>1. UNCHANGED table
    BY <1>5 DEF StreamStep, FetchStep, Publish, Subscribe, StreamBreaks, Receive, FetchReads,
                FetchArrives, FetchFails, LoadMore
  <2> QED BY <2>1, SameIds DEF table
<1>6. CASE Restart
  BY <1>6, SameIds DEF Restart
<1>7. CASE UNCHANGED vars
  BY <1>7, SameIds DEF vars, table
<1> QED BY <1>1, <1>2, <1>3, <1>4, <1>5, <1>6, <1>7 DEF Next, RowStep

(* What is a list, and which numbers are ids.                              *)
LEMMA Lists ==
  ASSUME HistoryInv
  PROVE  /\ list \in Seq(Shown) /\ Len(list) \in Nat /\ DOMAIN list = 1..Len(list)
         /\ list # << >> => 1 \in DOMAIN list /\ Len(list) \in DOMAIN list
         /\ \A k \in DOMAIN list : list[k] \in Shown /\ list[k].id \in Nat
         /\ fetch.got \in Seq(Shown) /\ Len(fetch.got) \in Nat /\ DOMAIN fetch.got = 1..Len(fetch.got)
         /\ fetch.got # << >> => 1 \in DOMAIN fetch.got /\ Len(fetch.got) \in DOMAIN fetch.got
         /\ \A k \in DOMAIN fetch.got : fetch.got[k] \in Shown /\ fetch.got[k].id \in Nat
         /\ buf \in Seq(Shown) /\ Len(buf) \in Nat /\ DOMAIN buf = 1..Len(buf)
         /\ \A n \in DOMAIN buf : buf[n] \in Shown /\ buf[n].id \in Nat
<1> DEFINE Listed(s) == /\ Len(s) \in Nat /\ DOMAIN s = 1..Len(s)
                        /\ s # << >> => 1 \in DOMAIN s /\ Len(s) \in DOMAIN s
                        /\ \A k \in DOMAIN s : s[k] \in Shown /\ s[k].id \in Nat
<1>1. ASSUME NEW s \in Seq(Shown) PROVE Listed(s)
  <2>1. Len(s) \in Nat /\ DOMAIN s = 1..Len(s)
    OBVIOUS
  <2>2. s # << >> => Len(s) # 0
    BY EmptySeq
  <2>3. \A k \in DOMAIN s : s[k] \in Shown
    BY <2>1, ElementOfSeq
  <2>4. \A e \in Shown : e.id \in Nat
    BY Bounds DEF Shown
  <2> QED BY <2>1, <2>2, <2>3, <2>4
<1>2. list \in Seq(Shown) /\ buf \in Seq(Shown) /\ fetch.got \in Seq(Shown)
  BY DEF HistoryInv, TypeOK, Fetch
<1>3. Listed(list) /\ Listed(buf) /\ Listed(fetch.got)
  <2> HIDE DEF Listed
  <2> QED BY <1>1, <1>2
<1> QED BY <1>2, <1>3

(***************************************************************************)
(* Steps of the rows.                                                      *)
(***************************************************************************)

(* What a step of the rows may do, the page being left as it is: rows of   *)
(* events that there have been are not added, and those that are published *)
(* do not change.                                                          *)
RowsOnly ==
  /\ UNCHANGED page
  /\ newest' >= newest
  /\ DOMAIN rows' \subseteq Ids
  /\ \A i \in DOMAIN rows' : i <= newest => i \in DOMAIN rows
  /\ \A i \in DOMAIN rows' : i <= newest /\ Published(i)' => Published(i) /\ rows'[i].status = rows[i].status

(* Such a step leaves what the page shows, or will show, right.            *)
LEMMA RowsOnlyFeed ==
  ASSUME HistoryInv, RowsOnly
  PROVE  BufInv' /\ AnswerInv' /\ FeedIsCurrent' /\ PagesInv'
<1> USE DEF RowsOnly, page
<1>1. BufInv'
  <2> SUFFICES ASSUME NEW n \in DOMAIN buf, Published(buf[n].id)',
                      \A m \in DOMAIN buf : m > n => buf[m].id # buf[n].id
               PROVE  buf[n].status = rows'[buf[n].id].status
    BY DEF BufInv
  <2>1. buf[n].id <= newest /\ buf[n].id \in DOMAIN rows'
    BY DEF HistoryInv, KnownInv, Published
  <2> QED BY <2>1 DEF HistoryInv, BufInv
<1>2. AnswerInv'
  <2> SUFFICES ASSUME NEW k \in DOMAIN fetch.got, Published(fetch.got[k].id)',
                      fetch.got[k].id \notin ShownIds \cup BufIds
               PROVE  fetch.got[k].status = rows'[fetch.got[k].id].status
    BY DEF AnswerInv, ShownIds, BufIds
  <2>1. fetch.got[k].id <= newest /\ fetch.got[k].id \in DOMAIN rows'
    BY DEF HistoryInv, KnownInv, Published
  <2> QED BY <2>1 DEF HistoryInv, AnswerInv
<1>3. FeedIsCurrent'
  <2> SUFFICES ASSUME NEW k \in DOMAIN list, Published(list[k].id)',
                      \A n \in DOMAIN buf : buf[n].id # list[k].id
               PROVE  list[k].status = rows'[list[k].id].status
    BY DEF FeedIsCurrent, Published
  <2>1. list[k].id <= newest /\ list[k].id \in DOMAIN rows'
    BY DEF HistoryInv, KnownInv, Published
  <2> QED BY <2>1 DEF HistoryInv, FeedIsCurrent, Published
<1>4. PagesInv'
  <2> SUFFICES ASSUME ~streamed PROVE PagesInv'
    BY DEF PagesInv
  <2>0. newest \in Nat /\ \A i \in DOMAIN rows' : i \in Nat
    BY Bounds DEF HistoryInv, RowsInv
  <2>1. PagesAreComplete'
    <3> SUFFICES ASSUME list # << >>, NEW i \in DOMAIN rows', i <= list[1].id,
                        i >= list[Len(list)].id \/ (fetch.pc = "idle" /\ ~fetch.more)
                 PROVE  i \in ShownIds
      BY DEF PagesAreComplete, ShownIds
    <3>1. i <= newest
      BY <2>0, Lists DEF HistoryInv, KnownInv
    <3> QED BY <3>1 DEF HistoryInv, PagesInv, PagesAreComplete
  <2>2. fetch.pc = "answered" => AnswerIsNext'
    <3> SUFFICES ASSUME fetch.pc = "answered", NEW i \in DOMAIN rows',
                        IF list = << >> THEN fetch.got # << >> /\ i <= fetch.got[1].id ELSE i < list[Len(list)].id,
                        Len(fetch.got) < Page \/ i >= fetch.got[Len(fetch.got)].id
                 PROVE  \E k \in DOMAIN fetch.got : fetch.got[k].id = i
      BY DEF AnswerIsNext
    <3>1. i <= newest
      BY <2>0, Lists DEF HistoryInv, KnownInv
    <3> QED BY <3>1 DEF HistoryInv, PagesInv, AnswerIsNext
  <2> QED BY <2>1, <2>2 DEF HistoryInv, PagesInv
<1> QED BY <1>1, <1>2, <1>3, <1>4

(* An insert is a step of the rows: the new one is not published, or new   *)
(* to the page.                                                            *)
LEMMA InsertOnly ==
  ASSUME HistoryInv, NEW a, NEW status, Insert(a, status), UNCHANGED page, due \subseteq due'
  PROVE  RowsOnly
<1>1. NewId = newest + 1 /\ NewId \in Ids /\ newest \in Nat /\ newest' = NewId
  BY NewIdIsNext DEF Insert, HistoryInv, RowsInv
<1>2. DOMAIN rows' = DOMAIN rows \cup {NewId} /\ \A i \in DOMAIN rows : i # NewId => rows'[i] = rows[i]
  BY DEF Insert
<1>3. \A i \in DOMAIN rows : i \in Nat /\ i <= newest
  BY Bounds DEF HistoryInv, RowsInv
<1>4. \A i \in DOMAIN rows' : i <= newest => i \in DOMAIN rows /\ rows'[i] = rows[i]
  BY <1>1, <1>2, <1>3
<1>5. \A i \in DOMAIN rows' : i <= newest /\ Published(i)' => Published(i) /\ rows'[i].status = rows[i].status
  BY <1>4 DEF Published, page
<1> QED BY <1>1, <1>2, <1>3, <1>4, <1>5 DEF RowsOnly, HistoryInv, RowsInv

(* The row that an insert adds is well typed.                              *)
LEMMA InsertType ==
  ASSUME HistoryInv, NEW a, NEW status \in Statuses, Insert(a, status)
  PROVE  /\ apps' \subseteq Apps /\ DOMAIN rows' \subseteq Ids /\ newest' \in Ids \cup {0}
         /\ \A i \in DOMAIN rows' : rows'[i] \in Row
         /\ rows'[NewId].status = status /\ NewId \in Ids /\ newest' = NewId
<1>1. NewId = newest + 1 /\ NewId \in Ids /\ newest' = NewId
  BY NewIdIsNext DEF Insert, HistoryInv, RowsInv
<1>2. [app |-> a, status |-> status] \in Row
  BY DEF Row, Insert, HistoryInv, TypeOK
<1> QED BY <1>1, <1>2 DEF Insert, HistoryInv, TypeOK

(* A deploy begins.                                                        *)
LEMMA CreateEventInv ==
  ASSUME HistoryInv, NEW a, CreateEvent(a) PROVE HistoryInv'
<1> DEFINE d == [id |-> NewId, status |-> "open"]
<1>0. Insert(a, "open") /\ due' = due \cup {d} /\ UNCHANGED <<page, faults>>
  BY DEF CreateEvent
<1>1. NewId = newest + 1 /\ newest \in Nat /\ RowsInv'
  BY <1>0, NewIdIsNext, InsertInv DEF HistoryInv, RowsInv
<1>2. /\ apps' \subseteq Apps /\ DOMAIN rows' \subseteq Ids /\ newest' \in Ids \cup {0}
      /\ \A i \in DOMAIN rows' : rows'[i] \in Row
      /\ rows'[NewId].status = "open" /\ NewId \in Ids /\ newest' = NewId
  BY <1>0, InsertType DEF Statuses
<1>3. TypeOK'
  <2>1. d \in Shown
    BY <1>2 DEF Shown, Statuses
  <2> QED BY <1>0, <1>2, <2>1 DEF page, HistoryInv, TypeOK
<1>4. RowsOnly
  BY <1>0, InsertOnly DEF page
<1>5. KnownInv'
  <2>1. newest' > newest
    BY <1>1, <1>2
  <2>2. \A e \in due : e.id \in Nat
    BY Bounds DEF HistoryInv, TypeOK, Shown
  <2> QED BY <1>0, <1>1, <1>2, <2>1, <2>2, Lists DEF HistoryInv, KnownInv, page, Distinct, Descending
<1>6. DueInv'
  <2>1. \A e \in due : e.id # NewId
    BY <1>1, Bounds DEF HistoryInv, KnownInv
  <2>2. \A i \in DOMAIN rows' : i # NewId => i \in DOMAIN rows /\ rows'[i] = rows[i]
    BY <1>0 DEF Insert
  <2> QED BY <1>0, <1>2, <2>1, <2>2 DEF HistoryInv, DueInv
<1> QED BY <1>1, <1>3, <1>4, <1>5, <1>6, RowsOnlyFeed DEF HistoryInv

(* A webhook is ignored: the page does not hear of it, and need not.       *)
LEMMA RecordSkipInv ==
  ASSUME HistoryInv, NEW a, RecordSkip(a) PROVE HistoryInv'
<1>0. Insert(a, "ended") /\ due' = due /\ UNCHANGED <<page, faults>>
  BY DEF RecordSkip
<1>1. NewId = newest + 1 /\ newest \in Nat /\ RowsInv'
  BY <1>0, NewIdIsNext, InsertInv DEF HistoryInv, RowsInv
<1>2. /\ apps' \subseteq Apps /\ DOMAIN rows' \subseteq Ids /\ newest' \in Ids \cup {0}
      /\ \A i \in DOMAIN rows' : rows'[i] \in Row
      /\ NewId \in Ids /\ newest' = NewId
  BY <1>0, InsertType DEF Statuses
<1>3. TypeOK'
  BY <1>0, <1>2 DEF page, HistoryInv, TypeOK
<1>4. RowsOnly
  BY <1>0, InsertOnly DEF page
<1>5. KnownInv'
  <2>1. newest' > newest
    BY <1>1, <1>2
  <2>2. \A e \in due : e.id \in Nat
    BY Bounds DEF HistoryInv, TypeOK, Shown
  <2> QED BY <1>0, <1>1, <1>2, <2>1, <2>2, Lists DEF HistoryInv, KnownInv, page, Distinct, Descending
<1>6. DueInv'
  <2>1. \A e \in due : e.id # NewId
    BY <1>1, Bounds DEF HistoryInv, KnownInv
  <2>2. \A i \in DOMAIN rows' : i # NewId => i \in DOMAIN rows /\ rows'[i] = rows[i]
    BY <1>0 DEF Insert
  <2> QED BY <1>0, <2>1, <2>2 DEF HistoryInv, DueInv
<1> QED BY <1>1, <1>3, <1>4, <1>5, <1>6, RowsOnlyFeed DEF HistoryInv

(* A step that keeps the ids of the rows, or some of them.                 *)
LEMMA FewerRows ==
  ASSUME HistoryInv, UNCHANGED <<page, newest, faults>>, RowsInv',
         apps' \subseteq Apps, DOMAIN rows' \subseteq DOMAIN rows,
         \A i \in DOMAIN rows' : rows'[i] \in Row,
         due' \subseteq Shown, due \subseteq due', \A d \in due' : d.id <= newest,
         DueInv',
         \A i \in DOMAIN rows' : (\A d \in due' : d.id # i) => rows'[i].status = rows[i].status
  PROVE  HistoryInv'
<1>1. TypeOK'
  BY DEF page, HistoryInv, TypeOK
<1>2. RowsOnly
  <2>1. newest \in Nat /\ DOMAIN rows \subseteq Ids
    BY DEF HistoryInv, RowsInv
  <2>2. \A i \in DOMAIN rows' : Published(i)' => Published(i) /\ rows'[i].status = rows[i].status
    BY DEF Published, page
  <2> QED BY <2>1, <2>2 DEF RowsOnly
<1>3. KnownInv'
  BY DEF HistoryInv, KnownInv, page, Distinct, Descending
<1> QED BY <1>1, <1>2, <1>3, RowsOnlyFeed DEF HistoryInv

(* A deploy gets its verdict.                                              *)
LEMMA UpdateEventInv ==
  ASSUME HistoryInv, NEW i, UpdateEvent(i) PROVE HistoryInv'
<1> DEFINE d == [id |-> i, status |-> "ended"]
<1>0. /\ i \in DOMAIN rows /\ rows[i].status = "open" /\ \A e \in due : e.id # i
      /\ rows' = [rows EXCEPT ![i].status = "ended"]
      /\ due' = due \cup {d} /\ UNCHANGED <<apps, newest, page, faults>>
  BY DEF UpdateEvent
<1>1. i \in Ids /\ i <= newest /\ d \in Shown
  BY <1>0 DEF HistoryInv, RowsInv, Shown, Statuses
<1>2. DOMAIN rows' = DOMAIN rows /\ \A j \in DOMAIN rows : rows'[j].status = IF j = i THEN "ended" ELSE rows[j].status
  BY <1>0 DEF HistoryInv, TypeOK, Row
<1>3. \A j \in DOMAIN rows' : rows'[j] \in Row
  BY <1>0 DEF HistoryInv, TypeOK, Row, Statuses
<1>4. DueInv'
  BY <1>0, <1>2 DEF HistoryInv, DueInv
<1>5. RowsInv'
  BY <1>0, <1>2, SameIds DEF HistoryInv
<1>6. \A e \in due' : e.id <= newest
  BY <1>0, <1>1 DEF HistoryInv, KnownInv
<1>7. \A j \in DOMAIN rows' : (\A e \in due' : e.id # j) => rows'[j].status = rows[j].status
  <2>1. d \in due' /\ d.id = i
    BY <1>0
  <2> QED BY <1>2, <2>1
<1>8. apps' \subseteq Apps /\ due' \subseteq Shown /\ due \subseteq due'
  BY <1>0, <1>1 DEF HistoryInv, TypeOK
<1> HIDE DEF d
<1> QED BY <1>0, <1>2, <1>3, <1>4, <1>5, <1>6, <1>7, <1>8, FewerRows

(* An app is deleted: its events remain.                                   *)
LEMMA DeleteAppInv ==
  ASSUME HistoryInv, NEW a, DeleteApp(a) PROVE HistoryInv'
<1>0. UNCHANGED <<newest, due, page, faults>> /\ apps' \subseteq apps
  BY DEF DeleteApp
<1>1. DOMAIN rows' = DOMAIN rows
  BY DEF DeleteApp
<1>2. \A j \in DOMAIN rows' : rows'[j] \in Row /\ rows'[j].status = rows[j].status
  BY DEF DeleteApp, HistoryInv, TypeOK, Row
<1>3. DueInv'
  BY <1>0, <1>1, <1>2 DEF HistoryInv, DueInv
<1>4. RowsInv'
  BY <1>0, <1>1, SameIds DEF HistoryInv
<1>5. apps' \subseteq Apps /\ due' \subseteq Shown /\ due \subseteq due' /\ \A e \in due' : e.id <= newest
  BY <1>0 DEF HistoryInv, TypeOK, KnownInv
<1> QED BY <1>0, <1>1, <1>2, <1>3, <1>4, <1>5, FewerRows

(* Old events are deleted.                                                 *)
LEMMA PruneEventsInv ==
  ASSUME HistoryInv, NEW last, PruneEvents(last) PROVE HistoryInv'
<1>0. UNCHANGED <<apps, newest, due, page, faults>>
  BY DEF PruneEvents
<1>1. RowsInv' /\ DOMAIN rows' \subseteq DOMAIN rows
  BY PruneInv DEF HistoryInv
<1>2. \A j \in DOMAIN rows' : rows'[j] = rows[j]
  BY DEF PruneEvents
<1>3. \A j \in DOMAIN rows' : rows'[j] \in Row /\ rows'[j].status = rows[j].status
  BY <1>1, <1>2 DEF HistoryInv, TypeOK
<1>4. DueInv'
  BY <1>0, <1>1, <1>2 DEF HistoryInv, DueInv
<1>5. apps' \subseteq Apps /\ due' \subseteq Shown /\ due \subseteq due' /\ \A e \in due' : e.id <= newest
  BY <1>0 DEF HistoryInv, TypeOK, KnownInv
<1> QED BY <1>0, <1>1, <1>3, <1>4, <1>5, FewerRows

(***************************************************************************)
(* Steps of the stream.                                                    *)
(***************************************************************************)

(* A step that leaves the rows, what is due and the list alone, and does   *)
(* no more to the request than to give it up, and whose missed events are  *)
(* events that there have been: only what the channel and the answer say   *)
(* of the rows is left to see.                                             *)
LEMMA SameList ==
  ASSUME HistoryInv, UNCHANGED <<table, list, streamed, fetch>>,
         sub' \in BOOLEAN, buf' \in Seq(Shown), Len(buf') <= BufCap,
         due' \subseteq due, missed \subseteq missed', missed' \subseteq Ids, faults' \in 0..MaxFaults,
         \A n \in DOMAIN buf' : buf'[n].id <= newest,
         BufInv', AnswerInv', FeedIsCurrent'
  PROVE  HistoryInv'
<1> USE DEF table
<1>1. TypeOK'
  BY DEF HistoryInv, TypeOK
<1>2. RowsInv'
  BY DEF HistoryInv, RowsInv
<1>3. KnownInv'
  BY DEF HistoryInv, KnownInv, Distinct, Descending
<1>4. DueInv'
  BY DEF HistoryInv, DueInv
<1>5. PagesInv'
  BY DEF HistoryInv, PagesInv, AnswerIsNext, PagesAreComplete, ShownIds, Descending
<1> QED BY <1>1, <1>2, <1>3, <1>4, <1>5 DEF HistoryInv

(* A change is published: into the channel, or missed, or unseen as yet.   *)
LEMMA PublishInv ==
  ASSUME HistoryInv, NEW d, Publish(d) PROVE HistoryInv'
<1>0. d \in due /\ due' = due \ {d} /\ UNCHANGED <<table, sub, fetch, list, streamed, faults>>
  BY DEF Publish
<1>1. /\ d \in Shown /\ d.id \in Ids /\ d.id <= newest
      /\ \A e \in due' : e.id # d.id
      /\ d.id \in DOMAIN rows => rows[d.id].status = d.status
      /\ rows' = rows /\ faults \in 0..MaxFaults
  BY <1>0 DEF HistoryInv, TypeOK, KnownInv, DueInv, Shown, table
<1>2. \A i : i # d.id => (Published(i)' => Published(i))
  BY <1>0, <1>1 DEF Published, table, Publish, Miss
<1>3. CASE sub /\ Len(buf) < BufCap
  <2>1. buf' = Append(buf, d) /\ missed' = missed
    BY <1>3 DEF Publish
  <2>2. /\ buf' \in Seq(Shown) /\ Len(buf') = Len(buf) + 1 /\ DOMAIN buf' = 1..(Len(buf) + 1)
        /\ \A n \in DOMAIN buf : buf'[n] = buf[n] /\ n \in DOMAIN buf' /\ n < Len(buf) + 1
        /\ \A n \in DOMAIN buf' : n \in DOMAIN buf \/ n = Len(buf) + 1
        /\ buf'[Len(buf) + 1] = d /\ Len(buf) + 1 \in DOMAIN buf'
    BY <1>1, <2>1, Lists
  <2>3. Len(buf') <= BufCap
    BY <1>3, <2>2, Lists, HistoryAssumption
  <2>4. \A n \in DOMAIN buf' : buf'[n].id <= newest
    BY <1>1, <2>2 DEF HistoryInv, KnownInv
  <2>5. BufInv'
    <3> SUFFICES ASSUME NEW n \in DOMAIN buf', NEW i, i = buf'[n].id, Published(i)',
                        \A m \in DOMAIN buf' : m > n => buf'[m].id # buf'[n].id
                 PROVE  buf'[n].status = rows[buf'[n].id].status
      BY <1>1 DEF BufInv
    <3>1. CASE n = Len(buf) + 1
      BY <1>1, <2>2, <3>1 DEF Published
    <3>2. CASE n # Len(buf) + 1
      <4>1. n \in DOMAIN buf /\ buf'[n] = buf[n] /\ buf[n].id # d.id
        BY <2>2, <3>2
      <4>2. Published(buf[n].id) /\ \A m \in DOMAIN buf : m > n => buf[m].id # buf[n].id
        BY <1>2, <2>2, <4>1
      <4> QED BY <4>1, <4>2 DEF HistoryInv, BufInv
    <3> QED BY <3>1, <3>2
  <2>6. BufIds' = BufIds \cup {d.id}
    BY <2>2 DEF BufIds
  <2>7. AnswerInv'
    BY <1>0, <1>1, <1>2, <2>6 DEF HistoryInv, AnswerInv, ShownIds
  <2>8. FeedIsCurrent'
    <3> SUFFICES ASSUME NEW k \in DOMAIN list, NEW i, i = list[k].id, Published(i)',
                        \A n \in DOMAIN buf' : buf'[n].id # list[k].id
                 PROVE  list[k].status = rows[list[k].id].status
      BY <1>0, <1>1 DEF FeedIsCurrent, Published
    <3>1. list[k].id # d.id /\ \A n \in DOMAIN buf : buf[n].id # list[k].id
      BY <2>2
    <3> QED BY <1>2, <3>1 DEF HistoryInv, FeedIsCurrent, Published
  <2>9. missed' \subseteq Ids
    BY <2>1 DEF HistoryInv, TypeOK
  <2>10. sub' \in BOOLEAN
    BY <1>0 DEF HistoryInv, TypeOK
  <2> QED BY <1>0, <1>1, <2>1, <2>2, <2>3, <2>4, <2>5, <2>7, <2>8, <2>9, <2>10, SameList
<1>4. CASE ~(sub /\ Len(buf) < BufCap)
  <2>1. buf' = buf /\ Miss(d.id)
    BY <1>4 DEF Publish
  <2>2. missed \subseteq missed' /\ missed' \subseteq missed \cup {d.id} /\ missed' \subseteq Ids
    BY <1>1, <2>1 DEF Miss, HistoryInv, TypeOK
  <2>3. Published(d.id)' => fetch.pc = "opening" /\ d.id \notin ShownIds \cup BufIds
    BY <2>1 DEF Published, Miss
  <2>4. BufInv'
    <3> SUFFICES ASSUME NEW n \in DOMAIN buf, NEW i, i = buf[n].id, Published(i)',
                        \A m \in DOMAIN buf : m > n => buf[m].id # buf[n].id
                 PROVE  buf[n].status = rows[buf[n].id].status
      BY <1>1, <2>1 DEF BufInv
    <3>1. buf[n].id # d.id
      BY <2>3 DEF BufIds
    <3> QED BY <1>2, <3>1 DEF HistoryInv, BufInv
  <2>5. AnswerInv'
    <3> SUFFICES ASSUME NEW k \in DOMAIN fetch.got, NEW i, i = fetch.got[k].id, Published(i)',
                        fetch.got[k].id \notin ShownIds \cup BufIds
                 PROVE  fetch.got[k].status = rows[fetch.got[k].id].status
      BY <1>0, <1>1, <2>1 DEF AnswerInv, ShownIds, BufIds
    <3>1. fetch.got # << >>
      BY EmptySeq
    <3>2. fetch.pc # "opening"
      BY <3>1 DEF HistoryInv, KnownInv
    <3>3. fetch.got[k].id # d.id
      BY <2>3, <3>2
    <3> QED BY <1>2, <3>3 DEF HistoryInv, AnswerInv
  <2>6. FeedIsCurrent'
    <3> SUFFICES ASSUME NEW k \in DOMAIN list, NEW i, i = list[k].id, Published(i)',
                        \A n \in DOMAIN buf : buf[n].id # list[k].id
                 PROVE  list[k].status = rows[list[k].id].status
      BY <1>0, <1>1, <2>1 DEF FeedIsCurrent, Published
    <3>1. list[k].id # d.id
      BY <2>3 DEF ShownIds
    <3> QED BY <1>2, <3>1 DEF HistoryInv, FeedIsCurrent, Published
  <2>7. sub' \in BOOLEAN /\ buf' \in Seq(Shown) /\ Len(buf') <= BufCap /\ \A n \in DOMAIN buf' : buf'[n].id <= newest
    BY <1>0, <2>1 DEF HistoryInv, TypeOK, KnownInv
  <2> QED BY <1>0, <1>1, <2>2, <2>4, <2>5, <2>6, <2>7, SameList
<1> QED BY <1>3, <1>4

(* The page subscribes.                                                    *)
LEMMA SubscribeInv ==
  ASSUME HistoryInv, Subscribe PROVE HistoryInv'
<1>1. UNCHANGED <<table, due, buf, fetch, list, streamed, missed, faults>> /\ sub' = TRUE
  BY DEF Subscribe
<1>2. BufInv' /\ AnswerInv' /\ FeedIsCurrent'
  BY <1>1 DEF HistoryInv, BufInv, AnswerInv, FeedIsCurrent, Published, ShownIds, BufIds, table
<1> QED BY <1>1, <1>2, SameList DEF HistoryInv, TypeOK, KnownInv

(* A fault is counted.                                                     *)
LEMMA FaultType == ASSUME TypeOK, Fault PROVE faults' \in 0..MaxFaults
BY HistoryAssumption DEF TypeOK, Fault

(* The ids of the channel's changes are ids.                               *)
LEMMA BufIdsType == ASSUME HistoryInv PROVE BufIds \subseteq Ids
BY Lists DEF BufIds, Shown

(* The stream breaks: what was in the channel is missed.                   *)
LEMMA StreamBreaksInv ==
  ASSUME HistoryInv, StreamBreaks PROVE HistoryInv'
<1>1. /\ UNCHANGED <<table, due, fetch, list, streamed>> /\ sub' = FALSE
      /\ buf' = << >> /\ missed' = missed \cup BufIds
  BY DEF StreamBreaks
<1>2. \A i : Published(i)' => Published(i) /\ i \notin BufIds
  BY <1>1 DEF Published, table
<1>3. BufInv'
  BY <1>1 DEF BufInv
<1>4. AnswerInv'
  BY <1>1, <1>2 DEF HistoryInv, AnswerInv, ShownIds, table
<1>5. FeedIsCurrent'
  <2> SUFFICES ASSUME NEW k \in DOMAIN list, NEW i, i = list[k].id, Published(i)' PROVE list[k].status = rows[list[k].id].status
    BY <1>1 DEF FeedIsCurrent, Published, table
  <2> QED BY <1>2 DEF HistoryInv, FeedIsCurrent, Published, BufIds
<1>6. missed' \subseteq Ids
  BY <1>1, BufIdsType DEF HistoryInv, TypeOK
<1>7. buf' \in Seq(Shown) /\ Len(buf') <= BufCap /\ DOMAIN buf' = {}
  BY <1>1, HistoryAssumption
<1>8. faults' \in 0..MaxFaults
  BY FaultType DEF StreamBreaks, HistoryInv
<1> QED BY <1>1, <1>3, <1>4, <1>5, <1>6, <1>7, <1>8, SameList

(* The page receives a change.                                             *)
LEMMA ReceiveInv ==
  ASSUME HistoryInv, Receive PROVE HistoryInv'
<1> DEFINE e == Head(buf)
<1>0. /\ buf # << >> /\ buf' = Tail(buf) /\ list' = WithStreamed(e) /\ streamed' = TRUE
      /\ UNCHANGED <<table, due, sub, fetch, missed, faults>>
  BY DEF Receive
<1>1. /\ e \in Shown /\ e = buf[1] /\ 1 \in DOMAIN buf /\ buf' \in Seq(Shown) /\ Len(buf') = Len(buf) - 1
      /\ DOMAIN buf' = 1..(Len(buf) - 1)
      /\ \A n \in DOMAIN buf' : buf'[n] = buf[n + 1] /\ n + 1 \in DOMAIN buf /\ n \in Nat
      /\ \A n \in DOMAIN buf : n = 1 \/ (n - 1 \in DOMAIN buf' /\ buf'[n - 1] = buf[n] /\ n > 1)
  BY <1>0, Lists
<1>2. /\ list' \in Seq(Shown) /\ Distinct(list')
      /\ \A k \in DOMAIN list' : list'[k] = e \/ \E l \in DOMAIN list : list'[k] = list[l] /\ list[l].id # e.id
      /\ \E k \in DOMAIN list' : list'[k] = e
      /\ \A l \in DOMAIN list : \E k \in DOMAIN list' : list'[k].id = list[l].id
  <2>1. list \in Seq(Shown) /\ Distinct(list)
    BY DEF HistoryInv, TypeOK, KnownInv
  <2> HIDE DEF e
  <2> DEFINE w == WithStreamed(e)
  <2>2. /\ w \in Seq(Shown) /\ Distinct(w)
        /\ \A k \in DOMAIN w : w[k] = e \/ \E l \in DOMAIN list : w[k] = list[l] /\ list[l].id # e.id
        /\ \E k \in DOMAIN w : w[k] = e
        /\ \A l \in DOMAIN list : \E k \in DOMAIN w : w[k].id = list[l].id
    <3>1. e \in Shown
      BY <1>1
    <3> QED BY <2>1, <3>1, WithStreamedShows
  <2>3. list' = w
    BY <1>0
  <2> HIDE DEF w
  <2> QED BY <2>2, <2>3 DEF Distinct
<1> HIDE DEF e
<1>3. ShownIds' = ShownIds \cup {e.id}
  <2>1. ASSUME NEW i \in ShownIds' PROVE i \in ShownIds \cup {e.id}
    <3>1. PICK k \in DOMAIN list' : i = list'[k].id
      BY <2>1 DEF ShownIds
    <3> QED BY <1>2, <3>1 DEF ShownIds
  <2>2. ASSUME NEW i \in ShownIds \cup {e.id} PROVE i \in ShownIds'
    <3>1. \E k \in DOMAIN list' : list'[k].id = i
      BY <1>2, <2>2 DEF ShownIds
    <3> QED BY <3>1 DEF ShownIds
  <2> QED BY <2>1, <2>2
<1>4. BufIds \subseteq BufIds' \cup {e.id}
  <2> SUFFICES ASSUME NEW n \in DOMAIN buf, buf[n].id # e.id PROVE buf[n].id \in BufIds'
    BY DEF BufIds
  <2>1. n - 1 \in DOMAIN buf' /\ buf'[n - 1] = buf[n]
    BY <1>1
  <2> QED BY <2>1 DEF BufIds
<1>5. TypeOK'
  <2>1. Len(buf') <= BufCap
    BY <1>1, Lists, HistoryAssumption DEF HistoryInv, TypeOK
  <2> QED BY <1>0, <1>1, <1>2, <2>1 DEF HistoryInv, TypeOK, table
<1>6. RowsInv' /\ DueInv'
  BY <1>0 DEF HistoryInv, RowsInv, DueInv, table
<1>7. KnownInv'
  <2>1. e.id <= newest /\ newest' = newest
    BY <1>0, <1>1 DEF HistoryInv, KnownInv, table
  <2>2. \A k \in DOMAIN list' : list'[k].id <= newest
    BY <1>2, <2>1 DEF HistoryInv, KnownInv
  <2>3. \A n \in DOMAIN buf' : buf'[n].id <= newest
    BY <1>1 DEF HistoryInv, KnownInv
  <2> QED BY <1>0, <1>2, <2>1, <2>2, <2>3 DEF HistoryInv, KnownInv
<1>8. \A i : Published(i)' <=> Published(i)
  BY <1>0 DEF Published, table
<1>9. BufInv'
  <2> SUFFICES ASSUME NEW n \in DOMAIN buf', NEW i, i = buf'[n].id, Published(i),
                      \A m \in DOMAIN buf' : m > n => buf'[m].id # i
               PROVE  buf'[n].status = rows[i].status
    BY <1>0, <1>8 DEF BufInv, table
  <2>1. n + 1 \in DOMAIN buf /\ buf[n + 1] = buf'[n]
    BY <1>1
  <2>2. ASSUME NEW m \in DOMAIN buf, m > n + 1 PROVE buf[m].id # i
    <3>1. m - 1 \in DOMAIN buf' /\ buf'[m - 1] = buf[m] /\ m - 1 > n
      BY <1>1, <2>2, Lists
    <3> QED BY <3>1
  <2> QED BY <2>1, <2>2 DEF HistoryInv, BufInv
<1>10. AnswerInv'
  <2> SUFFICES ASSUME NEW k \in DOMAIN fetch.got, NEW i, i = fetch.got[k].id, Published(i),
                      i \notin (ShownIds \cup BufIds)'
               PROVE  fetch.got[k].status = rows[i].status
    BY <1>0, <1>8 DEF AnswerInv, table
  <2>1. i \notin ShownIds \cup BufIds
    BY <1>3, <1>4
  <2> QED BY <2>1 DEF HistoryInv, AnswerInv
<1>11. FeedIsCurrent'
  <2> SUFFICES ASSUME NEW k \in DOMAIN list', NEW i, i = list'[k].id, Published(i),
                      \A n \in DOMAIN buf' : buf'[n].id # i
               PROVE  list'[k].status = rows[i].status
    BY <1>0, <1>8 DEF FeedIsCurrent, Published, table
  <2>1. \A n \in DOMAIN buf : n > 1 => buf[n].id # i
    BY <1>1
  <2>2. CASE list'[k] = e
    BY <1>1, <2>1, <2>2 DEF HistoryInv, BufInv
  <2>3. CASE \E l \in DOMAIN list : list'[k] = list[l] /\ list[l].id # e.id
    <3>1. PICK l \in DOMAIN list : list'[k] = list[l] /\ list[l].id # e.id
      BY <2>3
    <3>2. \A n \in DOMAIN buf : buf[n].id # i
      BY <1>1, <2>1, <3>1
    <3> QED BY <3>1, <3>2 DEF HistoryInv, FeedIsCurrent, Published
  <2> QED BY <1>2, <2>2, <2>3
<1>12. PagesInv'
  BY <1>0 DEF PagesInv
<1> QED BY <1>5, <1>6, <1>7, <1>9, <1>10, <1>11, <1>12 DEF HistoryInv

(***************************************************************************)
(* Steps of the page's requests.                                           *)
(***************************************************************************)

(* A request is sent, or fails: nothing has been read.                     *)
LEMMA SameFeed ==
  ASSUME HistoryInv, UNCHANGED <<table, due, sub, buf, list, streamed, missed>>,
         fetch' \in Fetch, fetch'.got = << >>, faults' \in 0..MaxFaults, PagesInv'
  PROVE  HistoryInv'
<1> USE DEF table
<1>0. << >> \in Seq(Shown) /\ Len(<< >>) = 0 /\ DOMAIN << >> = {}
  BY EmptySeq
<1>1. TypeOK'
  BY <1>0, Bounds DEF HistoryInv, TypeOK
<1>2. RowsInv' /\ DueInv' /\ BufInv' /\ FeedIsCurrent'
  BY DEF HistoryInv, RowsInv, DueInv, BufInv, FeedIsCurrent, Published
<1>3. KnownInv' /\ AnswerInv'
  BY <1>0 DEF HistoryInv, KnownInv, AnswerInv, Distinct, Descending
<1> QED BY <1>1, <1>2, <1>3 DEF HistoryInv

(* A request fails.                                                        *)
LEMMA FetchFailsInv ==
  ASSUME HistoryInv, FetchFails PROVE HistoryInv'
<1>1. /\ fetch.pc # "idle" /\ UNCHANGED <<table, due, sub, buf, list, streamed, missed>>
      /\ fetch' = [fetch EXCEPT !.pc = "idle", !.before = 0, !.got = << >>]
  BY DEF FetchFails
<1>2. fetch' \in Fetch /\ fetch'.got = << >> /\ fetch'.pc = "idle" /\ fetch'.more = fetch.more
  <2>1. << >> \in Seq(Shown)
    BY EmptySeq
  <2> QED BY <1>1, <2>1 DEF HistoryInv, TypeOK, Fetch
<1>3. PagesInv'
  BY <1>1, <1>2 DEF HistoryInv, PagesInv, PagesAreComplete, ShownIds, table, Descending
<1>4. faults' \in 0..MaxFaults
  BY FaultType DEF FetchFails, HistoryInv
<1> QED BY <1>1, <1>2, <1>3, <1>4, SameFeed

(* The page asks for what is below its last event.                         *)
LEMMA LoadMoreInv ==
  ASSUME HistoryInv, LoadMore PROVE HistoryInv'
<1>1. /\ fetch.pc = "idle" /\ fetch.more /\ list # << >>
      /\ UNCHANGED <<table, due, sub, buf, list, streamed, missed, faults>>
      /\ fetch' = [fetch EXCEPT !.pc = "asked", !.before = list[Len(list)].id]
  BY DEF LoadMore
<1>2. list[Len(list)].id \in Ids
  BY <1>1, Lists DEF Shown
<1>3. fetch' \in Fetch /\ fetch'.got = << >> /\ fetch'.pc = "asked" /\ fetch'.more = fetch.more
      /\ fetch'.before = list[Len(list)].id
  BY <1>1, <1>2 DEF HistoryInv, TypeOK, Fetch, KnownInv
<1>4. PagesInv'
  BY <1>1, <1>3 DEF HistoryInv, PagesInv, PagesAreComplete, ShownIds, table, Descending
<1> QED BY <1>1, <1>3, <1>4, SameFeed DEF HistoryInv, TypeOK

(* The rows are read.                                                      *)
LEMMA FetchReadsInv ==
  ASSUME HistoryInv, FetchReads PROVE HistoryInv'
<1> DEFINE g == ListEvents(fetch.before)
<1>1. /\ fetch.pc \in {"opening", "asked"}
      /\ fetch' = [fetch EXCEPT !.pc = "answered", !.before = 0, !.got = g]
      /\ UNCHANGED <<table, due, sub, buf, list, streamed, missed, faults>>
  BY DEF FetchReads
<1>2. fetch.before \in Ids \cup {0} /\ DOMAIN rows \subseteq Ids /\ \A i \in DOMAIN rows : rows[i] \in Row
  BY DEF HistoryInv, TypeOK, Fetch
<1> HIDE DEF g
<1>3. /\ g \in Seq(Shown) /\ Len(g) <= Page
      /\ Descending(g)
      /\ \A n \in DOMAIN g :
           /\ g[n].id \in DOMAIN rows /\ g[n].status = rows[g[n].id].status
           /\ fetch.before > 0 => g[n].id < fetch.before
      /\ \A i \in DOMAIN rows :
           (fetch.before > 0 => i < fetch.before) /\ (Len(g) < Page \/ i >= g[Len(g)].id)
           => \E n \in DOMAIN g : g[n].id = i
  BY <1>2, ListEventsLists DEF g
<1>4. /\ fetch'.pc = "answered" /\ fetch'.got = g /\ fetch'.more = fetch.more
      /\ fetch' \in Fetch
  BY <1>1, <1>3 DEF HistoryInv, TypeOK, Fetch
<1>5. TypeOK'
  BY <1>1, <1>3, <1>4 DEF HistoryInv, TypeOK, table
<1>6. RowsInv' /\ DueInv' /\ BufInv' /\ FeedIsCurrent'
  BY <1>1 DEF HistoryInv, RowsInv, DueInv, BufInv, FeedIsCurrent, Published, table
<1>7. KnownInv'
  <2>1. \A n \in DOMAIN g : g[n].id <= newest
    BY <1>3 DEF HistoryInv, RowsInv
  <2> QED BY <1>1, <1>3, <1>4, <2>1 DEF HistoryInv, KnownInv, table, Distinct
<1>8. AnswerInv'
  BY <1>1, <1>3, <1>4 DEF AnswerInv, table
<1>9. PagesInv'
  <2> SUFFICES ASSUME ~streamed PROVE PagesInv'
    BY <1>1 DEF PagesInv
  <2>1. CASE fetch.pc = "opening"
    <3>1. list = << >> /\ fetch.before = 0
      BY <2>1 DEF HistoryInv, PagesInv
    <3>2. AnswerIsNext'
      BY <1>1, <1>3, <1>4, <3>1 DEF AnswerIsNext, table
    <3> QED BY <1>1, <1>4, <3>1, <3>2 DEF HistoryInv, PagesInv, PagesAreComplete, Descending
  <2>2. CASE fetch.pc = "asked"
    <3>1. list # << >> /\ fetch.before = list[Len(list)].id /\ fetch.before > 0
      <4>1. list # << >> /\ fetch.before = list[Len(list)].id
        BY <2>2 DEF HistoryInv, PagesInv
      <4>2. list[Len(list)] \in Shown
        BY <4>1, Lists
      <4>3. list[Len(list)].id \in Nat \ {0}
        BY <4>2, Bounds DEF Shown
      <4> QED BY <4>1, <4>3
    <3>2. AnswerIsNext'
      BY <1>1, <1>3, <1>4, <3>1 DEF AnswerIsNext, table
    <3>3. \A n \in DOMAIN g : g[n].id < list[Len(list)].id
      BY <1>3, <3>1
    <3> QED BY <1>1, <1>4, <2>2, <3>1, <3>2, <3>3
            DEF HistoryInv, PagesInv, PagesAreComplete, Descending, ShownIds, table
  <2> QED BY <1>1, <2>1, <2>2
<1> QED BY <1>5, <1>6, <1>7, <1>8, <1>9 DEF HistoryInv

(* A list in the order of its ids has each once, from its first, the       *)
(* greatest, to its last.                                                  *)
LEMMA DescendingBounds ==
  ASSUME NEW s \in Seq(Shown), Descending(s)
  PROVE  /\ Distinct(s)
         /\ \A k \in DOMAIN s : /\ 1 \in DOMAIN s /\ s[k].id <= s[1].id
                              /\ Len(s) \in DOMAIN s /\ s[Len(s)].id <= s[k].id
                              /\ s[k].id \in Nat
<1>1. Len(s) \in Nat /\ DOMAIN s = 1..Len(s)
  OBVIOUS
<1>2. \A k \in DOMAIN s : s[k].id \in Nat
  <2>1. \A k \in DOMAIN s : s[k] \in Shown
    BY <1>1, ElementOfSeq
  <2>2. \A e \in Shown : e.id \in Nat
    BY Bounds DEF Shown
  <2> QED BY <2>1, <2>2
<1>3. Distinct(s)
  <2> SUFFICES ASSUME NEW m \in DOMAIN s, NEW n \in DOMAIN s, s[m].id = s[n].id, m # n PROVE FALSE
    BY DEF Distinct
  <2>1. m < n \/ n < m
    BY <1>1
  <2>2. s[m].id > s[n].id \/ s[n].id > s[m].id
    BY <2>1 DEF Descending
  <2> QED BY <1>2, <2>2
<1>4. ASSUME NEW k \in DOMAIN s
      PROVE  1 \in DOMAIN s /\ s[k].id <= s[1].id /\ Len(s) \in DOMAIN s /\ s[Len(s)].id <= s[k].id
  <2>1. 1 \in DOMAIN s /\ Len(s) \in DOMAIN s /\ (k = 1 \/ 1 < k) /\ (k = Len(s) \/ k < Len(s))
    BY <1>1
  <2>2. s[k].id \in Nat /\ s[1].id \in Nat /\ s[Len(s)].id \in Nat
    BY <1>2, <2>1
  <2>3. s[k].id <= s[1].id
    BY <2>1, <2>2 DEF Descending
  <2>4. s[Len(s)].id <= s[k].id
    BY <2>1, <2>2 DEF Descending
  <2> QED BY <2>1, <2>3, <2>4
<1> QED BY <1>2, <1>3, <1>4

(* The answer arrives.                                                     *)
LEMMA FetchArrivesInv ==
  ASSUME HistoryInv, FetchArrives PROVE HistoryInv'
<1> DEFINE g == fetch.got
           m == Merged(g)
<1>1. /\ fetch.pc = "answered" /\ list' = m
      /\ fetch' = [fetch EXCEPT !.pc = "idle", !.got = << >>, !.more = Len(g) = Page]
      /\ UNCHANGED <<table, due, sub, buf, streamed, missed, faults>>
  BY DEF FetchArrives
<1>2. /\ g \in Seq(Shown) /\ Descending(g) /\ Distinct(g)
      /\ list \in Seq(Shown) /\ Distinct(list)
  BY DescendingBounds DEF HistoryInv, TypeOK, Fetch, KnownInv
<1> HIDE DEF m
<1>3. /\ m \in Seq(Shown) /\ Descending(m)
      /\ \A n \in DOMAIN m :
           \/ \E k \in DOMAIN list : m[n] = list[k]
           \/ \E k \in DOMAIN g : m[n] = g[k] /\ g[k].id \notin ShownIds
      /\ \A k \in DOMAIN list : \E n \in DOMAIN m : m[n] = list[k]
      /\ \A k \in DOMAIN g : \E n \in DOMAIN m : m[n].id = g[k].id
  BY <1>2, MergedSorts DEF m
<1>4. fetch' \in Fetch /\ fetch'.got = << >> /\ fetch'.pc = "idle" /\ fetch'.more = (Len(g) = Page)
  <2>1. << >> \in Seq(Shown)
    BY EmptySeq
  <2> QED BY <1>1, <2>1 DEF HistoryInv, TypeOK, Fetch
<1>5. << >> \in Seq(Shown) /\ Len(<< >>) = 0 /\ DOMAIN << >> = {}
  BY EmptySeq
<1> HIDE DEF g
<1>6. TypeOK'
  BY <1>1, <1>3, <1>4, <1>5, Bounds DEF HistoryInv, TypeOK, table
<1>7. RowsInv' /\ DueInv' /\ BufInv'
  BY <1>1 DEF HistoryInv, RowsInv, DueInv, BufInv, Published, table
<1>8. KnownInv'
  <2>1. \A n \in DOMAIN m : m[n].id <= newest
    BY <1>3 DEF HistoryInv, KnownInv, g
  <2>2. Distinct(m)
    BY <1>3, DescendingBounds
  <2> QED BY <1>1, <1>4, <1>5, <2>1, <2>2 DEF HistoryInv, KnownInv, table, Distinct, Descending
<1>9. AnswerInv'
  BY <1>4, <1>5 DEF AnswerInv
<1>10. FeedIsCurrent'
  <2> SUFFICES ASSUME NEW n \in DOMAIN m, NEW i, i = m[n].id, Published(i), \A l \in DOMAIN buf : buf[l].id # i
               PROVE  m[n].status = rows[i].status
    BY <1>1 DEF FeedIsCurrent, Published, table
  <2>1. CASE \E k \in DOMAIN list : m[n] = list[k]
    BY <2>1 DEF HistoryInv, FeedIsCurrent, Published
  <2>2. CASE \E k \in DOMAIN g : m[n] = g[k] /\ g[k].id \notin ShownIds
    <3>1. i \notin BufIds
      BY DEF BufIds
    <3> QED BY <2>2, <3>1 DEF HistoryInv, AnswerInv, g
  <2> QED BY <1>3, <2>1, <2>2
<1>11. PagesInv'
  <2> SUFFICES ASSUME ~streamed PROVE PagesInv'
    BY <1>1 DEF PagesInv
  <2>1. PagesAreComplete /\ Descending(list) /\ AnswerIsNext
        /\ (list # << >> => \A k \in DOMAIN g : g[k].id < list[Len(list)].id)
    BY <1>1 DEF HistoryInv, PagesInv, g
  <2>2. ASSUME NEW i \in DOMAIN rows, i <= m[1].id, m # << >>,
               i >= m[Len(m)].id \/ Len(g) # Page
        PROVE  \E n \in DOMAIN m : m[n].id = i
    <3>1. i \in Nat /\ Len(g) \in Nat /\ Len(g) <= Page
      BY Bounds, <1>2 DEF HistoryInv, TypeOK, g
    <3>2. 1 \in DOMAIN m /\ Len(m) \in DOMAIN m
      BY <1>3, <2>2
    <3>3. \A k \in DOMAIN g : g[k].id \in Nat /\ g[k].id <= g[1].id /\ g[Len(g)].id <= g[k].id /\ m[Len(m)].id \in Nat
      BY <1>2, <1>3, <3>2, DescendingBounds
    <3>4. \A k \in DOMAIN list : list[k].id \in Nat /\ list[k].id <= list[1].id /\ list[Len(list)].id <= list[k].id
                                /\ 1 \in DOMAIN list /\ Len(list) \in DOMAIN list
      BY <1>2, <2>1, DescendingBounds
    <3>5. g # << >> => 1 \in DOMAIN g /\ Len(g) \in DOMAIN g
      BY Lists DEF g
    <3>6. list # << >> => 1 \in DOMAIN list /\ Len(list) \in DOMAIN list
      BY Lists
    <3>7. (Len(g) < Page \/ i >= m[Len(m)].id) /\ Len(g) >= Page => g # << >>
      BY <1>5, Bounds
    <3>8. CASE list = << >>
      <4>1. PICK k \in DOMAIN g : m[1] = g[k]
        BY <1>3, <1>5, <3>2, <3>8
      <4>2. g # << >> /\ i <= g[1].id
        BY <1>5, <2>2, <3>1, <3>3, <3>5, <4>1
      <4>3. PICK k2 \in DOMAIN g : m[Len(m)] = g[k2]
        BY <1>3, <1>5, <3>2, <3>8
      <4>4. Len(g) < Page \/ i >= g[Len(g)].id
        BY <2>2, <3>1, <3>3, <3>5, <4>2, <4>3, Bounds
      <4>5. \E l \in DOMAIN g : g[l].id = i
        BY <2>1, <3>8, <4>2, <4>4 DEF AnswerIsNext, g
      <4> QED BY <1>3, <4>5
    <3>9. CASE list # << >> /\ i >= list[Len(list)].id
      <4>1. i <= list[1].id
        <5>1. CASE \E k \in DOMAIN list : m[1] = list[k]
          BY <2>2, <3>1, <3>4, <5>1
        <5>2. CASE \E k \in DOMAIN g : m[1] = g[k]
          <6>1. PICK k \in DOMAIN g : m[1] = g[k]
            BY <5>2
          <6>2. g[k].id < list[Len(list)].id /\ list[Len(list)].id <= list[1].id
            BY <2>1, <3>4, <3>6, <3>9
          <6>3. g[k].id \in Nat /\ list[Len(list)].id \in Nat /\ list[1].id \in Nat
            BY <3>3, <3>4, <3>6, <3>9
          <6> QED BY <2>2, <3>1, <6>1, <6>2, <6>3
        <5> QED BY <1>3, <3>2, <5>1, <5>2
      <4>2. i \in ShownIds
        BY <2>1, <3>9, <4>1 DEF PagesAreComplete
      <4>3. PICK k \in DOMAIN list : list[k].id = i
        BY <4>2 DEF ShownIds
      <4> QED BY <1>3, <4>3
    <3>10. CASE list # << >> /\ ~(i >= list[Len(list)].id)
      <4>1. i < list[Len(list)].id
        BY <3>1, <3>4, <3>6, <3>10
      <4>2. Len(g) < Page \/ i >= g[Len(g)].id
        <5>1. SUFFICES ASSUME i >= m[Len(m)].id, ~(Len(g) < Page) PROVE i >= g[Len(g)].id
          BY <2>2, <3>1, Bounds
        <5>2. g # << >>
          BY <1>5, <5>1, Bounds
        <5>3. ~\E k \in DOMAIN list : m[Len(m)] = list[k]
          BY <3>1, <3>3, <3>4, <3>5, <4>1, <5>1, <5>2
        <5>4. PICK k \in DOMAIN g : m[Len(m)] = g[k]
          BY <1>3, <3>2, <5>3
        <5> QED BY <3>1, <3>3, <3>5, <5>1, <5>2, <5>4
      <4>3. \E l \in DOMAIN g : g[l].id = i
        BY <2>1, <3>10, <4>1, <4>2 DEF AnswerIsNext, g
      <4> QED BY <1>3, <4>3
    <3> QED BY <3>8, <3>9, <3>10
  <2>3. PagesAreComplete'
    BY <1>1, <1>4, <2>2 DEF PagesAreComplete, ShownIds, table
  <2> QED BY <1>1, <1>3, <1>4, <2>3 DEF PagesInv, Descending
<1> QED BY <1>6, <1>7, <1>8, <1>9, <1>10, <1>11 DEF HistoryInv

(* The process restarts.                                                   *)
LEMMA RestartInv ==
  ASSUME HistoryInv, Restart PROVE HistoryInv'
<1>1. /\ due' = {} /\ sub' = FALSE /\ buf' = << >> /\ UNCHANGED <<apps, newest, list, streamed>>
      /\ fetch' = [fetch EXCEPT !.pc = IF @ = "answered" THEN @ ELSE "idle", !.before = 0]
      /\ missed' = missed \cup {i \in DOMAIN rows : rows[i].status = "open"}
                          \cup {d.id : d \in due} \cup BufIds
  BY DEF Restart
<1>2. DOMAIN rows' = DOMAIN rows
      /\ \A i \in DOMAIN rows : rows'[i] \in Row /\ (rows[i].status # "open" => rows'[i] = rows[i])
  BY DEF Restart, HistoryInv, TypeOK, Row, Statuses
<1>3. /\ fetch' \in Fetch /\ fetch'.got = fetch.got /\ fetch'.more = fetch.more
      /\ fetch'.pc \in {"answered", "idle"} /\ (fetch'.pc = "answered" <=> fetch.pc = "answered")
  BY <1>1 DEF HistoryInv, TypeOK, Fetch
<1>4. << >> \in Seq(Shown) /\ Len(<< >>) = 0 /\ DOMAIN << >> = {}
  BY EmptySeq
<1>5. TypeOK'
  <2>1. missed' \subseteq Ids
    BY <1>1, BufIdsType DEF HistoryInv, TypeOK, Shown
  <2>2. faults' \in 0..MaxFaults
    BY FaultType DEF Restart, HistoryInv
  <2>3. buf' \in Seq(Shown) /\ Len(buf') <= BufCap
    BY <1>1, <1>4, HistoryAssumption
  <2>4. fetch' \in Fetch /\ Len(fetch'.got) <= Page
    BY <1>3 DEF HistoryInv, TypeOK
  <2>5. DOMAIN rows' \subseteq Ids /\ (\A i \in DOMAIN rows' : rows'[i] \in Row) /\ newest' \in Ids \cup {0}
    BY <1>1, <1>2 DEF HistoryInv, TypeOK
  <2> QED BY <1>1, <2>1, <2>2, <2>3, <2>4, <2>5 DEF HistoryInv, TypeOK
<1>6. RowsInv'
  BY <1>1, <1>2 DEF HistoryInv, RowsInv
<1>7. KnownInv'
  BY <1>1, <1>3, <1>4 DEF HistoryInv, KnownInv, Distinct, Descending
<1>8. DueInv' /\ BufInv'
  BY <1>1, <1>4 DEF DueInv, BufInv
<1>9. \A i : Published(i)' => Published(i) /\ i \notin BufIds /\ rows'[i].status = rows[i].status
  BY <1>1, <1>2 DEF Published
<1>10. AnswerInv'
  <2> SUFFICES ASSUME NEW k \in DOMAIN fetch.got, NEW i, i = fetch.got[k].id, Published(i)', i \notin ShownIds
               PROVE  fetch.got[k].status = rows'[i].status
    BY <1>1, <1>3 DEF AnswerInv, ShownIds
  <2> QED BY <1>9 DEF HistoryInv, AnswerInv
<1>11. FeedIsCurrent'
  <2> SUFFICES ASSUME NEW k \in DOMAIN list, NEW i, i = list[k].id, Published(i)'
               PROVE  list[k].status = rows'[i].status
    BY <1>1 DEF FeedIsCurrent, Published
  <2> QED BY <1>9 DEF HistoryInv, FeedIsCurrent, Published, BufIds
<1>12. PagesInv'
  <2> SUFFICES ASSUME ~streamed PROVE PagesInv'
    BY <1>1 DEF PagesInv
  <2>1. PagesAreComplete'
    BY <1>1, <1>2, <1>3 DEF HistoryInv, PagesInv, PagesAreComplete, ShownIds
  <2>2. fetch.pc = "answered" => AnswerIsNext'
    BY <1>1, <1>2, <1>3 DEF HistoryInv, PagesInv, AnswerIsNext
  <2> QED BY <1>1, <1>3, <2>1, <2>2 DEF HistoryInv, PagesInv, Descending
<1> QED BY <1>5, <1>6, <1>7, <1>8, <1>10, <1>11, <1>12 DEF HistoryInv

(***************************************************************************)
(* The theorems.                                                           *)
(***************************************************************************)

(* A page that has just been opened.                                       *)
LEMMA InitInv == ASSUME Init PROVE HistoryInv
<1>1. << >> \in Seq(Shown) /\ Len(<< >>) = 0 /\ DOMAIN << >> = {}
  BY EmptySeq
<1>2. fetch \in Fetch /\ fetch.got = << >> /\ fetch.pc = "opening" /\ fetch.before = 0
  BY <1>1 DEF Init, Fetch
<1>3. TypeOK
  <2>1. buf \in Seq(Shown) /\ Len(buf) <= BufCap /\ list \in Seq(Shown) /\ Len(fetch.got) <= Page
    BY <1>1, <1>2, HistoryAssumption DEF Init
  <2>2. DOMAIN rows = {} /\ faults \in 0..MaxFaults
    BY <1>1, HistoryAssumption DEF Init
  <2> QED BY <1>2, <2>1, <2>2 DEF Init, TypeOK
<1>4. RowsInv /\ KnownInv
  BY <1>1, <1>2 DEF Init, RowsInv, KnownInv, Distinct, Descending
<1>5. DueInv /\ BufInv /\ AnswerInv /\ FeedIsCurrent
  BY <1>1, <1>2 DEF Init, DueInv, BufInv, AnswerInv, FeedIsCurrent
<1>6. PagesInv
  BY <1>1, <1>2 DEF Init, PagesInv, PagesAreComplete, Descending
<1> QED BY <1>3, <1>4, <1>5, <1>6 DEF HistoryInv

(* Nothing happens.                                                        *)
LEMMA StutterInv == ASSUME HistoryInv, UNCHANGED vars PROVE HistoryInv'
<1> USE DEF vars, table, page
<1>1. TypeOK' /\ RowsInv' /\ KnownInv'
  BY DEF HistoryInv, TypeOK, RowsInv, KnownInv, Distinct, Descending
<1>2. DueInv' /\ BufInv' /\ AnswerInv' /\ FeedIsCurrent'
  BY DEF HistoryInv, DueInv, BufInv, AnswerInv, FeedIsCurrent, Published, ShownIds, BufIds
<1>3. PagesInv'
  BY DEF HistoryInv, PagesInv, PagesAreComplete, AnswerIsNext, ShownIds, Descending
<1> QED BY <1>1, <1>2, <1>3 DEF HistoryInv

(* Every step keeps the invariant.                                         *)
LEMMA NextInv == ASSUME HistoryInv, [Next]_vars PROVE HistoryInv'
<1>1. CASE RowStep
  BY <1>1, CreateEventInv, RecordSkipInv, DeleteAppInv, UpdateEventInv, PruneEventsInv DEF RowStep
<1>2. CASE StreamStep
  BY <1>2, PublishInv, SubscribeInv, StreamBreaksInv, ReceiveInv DEF StreamStep
<1>3. CASE FetchStep
  BY <1>3, FetchReadsInv, FetchArrivesInv, FetchFailsInv, LoadMoreInv DEF FetchStep
<1>4. CASE Restart
  BY <1>4, RestartInv
<1>5. CASE UNCHANGED vars
  BY <1>5, StutterInv
<1> QED BY <1>1, <1>2, <1>3, <1>4, <1>5 DEF Next

(* The invariant holds throughout.                                         *)
LEMMA Invariance == Spec => []HistoryInv
<1>1. Init => HistoryInv
  BY InitInv
<1>2. HistoryInv /\ [Next]_vars => HistoryInv'
  BY NextInv
<1> QED BY <1>1, <1>2, PTL DEF Spec

(* For every number of apps and events, every retention of at least one    *)
(* event, and whatever is deleted, pruned, interrupted and restarted, no   *)
(* event gets the id of an earlier one.                                    *)
THEOREM IdsAreNotReused == Spec => NoIdReused
<1>1. Init => RowsInv
  BY DEF Init, RowsInv
<1>2. RowsInv /\ [Next]_vars => RowsInv'
  BY StepInv
<1>3. RowsInv /\ [Next]_vars => [\A i \in DOMAIN rows' \ DOMAIN rows : i > newest]_vars
  BY StepInv
<1> QED BY <1>1, <1>2, <1>3, PTL DEF Spec, NoIdReused

(* Of all sizes of the pages, the channel and the table, the rows, the     *)
(* channel, the request and the list are well typed; sorting a merged list *)
(* loses and invents nothing.                                              *)
THEOREM TypeCorrect == Spec => []TypeOK
<1>1. HistoryInv => TypeOK
  BY DEF HistoryInv
<1> QED BY <1>1, Invariance, PTL

(* A page that the stream has brought nothing shows the rows without gaps, *)
(* for every size of a page and of the history, whatever is inserted and   *)
(* pruned between its requests.                                            *)
THEOREM PagesHaveNoGaps == Spec => []PagesAreComplete
<1>1. HistoryInv => PagesAreComplete
  BY DEF HistoryInv, PagesInv, PagesAreComplete
<1> QED BY <1>1, Invariance, PTL

(* For every capacity of the channel: a page that has heard of every       *)
(* change of an event shows what its row says, however the stream and the  *)
(* requests overtake each other.                                           *)
THEOREM FeedShowsTheRows == Spec => []FeedIsCurrent
<1>1. HistoryInv => FeedIsCurrent
  BY DEF HistoryInv
<1> QED BY <1>1, Invariance, PTL

(* Whatever the stream and the requests bring, and in which order, no      *)
(* event is in the list twice: two events of one id are one event.         *)
THEOREM NoEventTwice == Spec => []ShownOnce
<1>1. HistoryInv => ShownOnce
  BY DEF HistoryInv, KnownInv, Distinct, ShownOnce
<1> QED BY <1>1, Invariance, PTL
=============================================================================

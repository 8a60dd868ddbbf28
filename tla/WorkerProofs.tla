---------------------------- MODULE WorkerProofs ----------------------------
(***************************************************************************)
(* Proofs about the worker for every set of senders and transactions: the  *)
(* list the finalizer picks from is sorted and is exactly the set of ready *)
(* transactions, and every queue is well formed.                           *)
(***************************************************************************)
EXTENDS Worker, SequenceTheorems, WellFoundedInduction, TLAPS

-----------------------------------------------------------------------------
(***************************************************************************)
(* Sequences.                                                              *)
(***************************************************************************)

\* InsertAt, element by element.
LEMMA InsertAtElements ==
  ASSUME NEW S, NEW s \in Seq(S), NEW i \in 1..(Len(s) + 1), NEW e \in S
  PROVE  LET r == InsertAt(s, i, e)
         IN  /\ r \in Seq(S)
             /\ Len(r) = Len(s) + 1
             /\ \A k \in 1..(i - 1) : r[k] = s[k]
             /\ r[i] = e
             /\ \A k \in (i + 1)..(Len(s) + 1) : r[k] = s[k - 1]
<1> DEFINE front == SubSeq(s, 1, i - 1)
           back  == SubSeq(s, i, Len(s))
<1>1. /\ front \in Seq(S)
      /\ Len(front) = i - 1
      /\ \A k \in 1..(i - 1) : front[k] = s[k]
  <2>1. \A k \in 1..(i - 1) : s[k] \in S
    OBVIOUS
  <2> QED BY <2>1, SubSeqProperties
<1>2. /\ back \in Seq(S)
      /\ Len(back) = Len(s) - i + 1
      /\ \A k \in 1..(Len(s) - i + 1) : back[k] = s[i + k - 1]
  <2>1. \A k \in i..Len(s) : s[k] \in S
    OBVIOUS
  <2> QED BY <2>1, SubSeqProperties
<1> HIDE DEF front, back
<1> DEFINE mid == front \o <<e>>
<1>3. /\ mid \in Seq(S)
      /\ Len(mid) = i
      /\ \A k \in 1..(i - 1) : mid[k] = s[k]
      /\ mid[i] = e
  BY <1>1
<1>4. InsertAt(s, i, e) = mid \o back
  BY DEF InsertAt, front, back
<1> HIDE DEF mid
<1>5. /\ mid \o back \in Seq(S)
      /\ Len(mid \o back) = Len(s) + 1
      /\ \A k \in 1..(Len(s) + 1) :
           (mid \o back)[k] = IF k <= i THEN mid[k] ELSE back[k - i]
  BY <1>2, <1>3, ConcatProperties
<1>6. \A k \in (i + 1)..(Len(s) + 1) : (mid \o back)[k] = s[k - 1]
  BY <1>2, <1>5
<1> QED BY <1>3, <1>4, <1>5, <1>6

\* RemoveAt, element by element.
LEMMA RemoveAtElements ==
  ASSUME NEW S, NEW s \in Seq(S), NEW i \in 1..Len(s)
  PROVE  LET r == RemoveAt(s, i)
         IN  /\ r \in Seq(S)
             /\ Len(r) = Len(s) - 1
             /\ \A k \in 1..(i - 1) : r[k] = s[k]
             /\ \A k \in i..(Len(s) - 1) : r[k] = s[k + 1]
<1> DEFINE front == SubSeq(s, 1, i - 1)
           back  == SubSeq(s, i + 1, Len(s))
<1>1. /\ front \in Seq(S)
      /\ Len(front) = i - 1
      /\ \A k \in 1..(i - 1) : front[k] = s[k]
  <2>1. \A k \in 1..(i - 1) : s[k] \in S
    OBVIOUS
  <2> QED BY <2>1, SubSeqProperties
<1>2. /\ back \in Seq(S)
      /\ Len(back) = Len(s) - i
      /\ \A k \in 1..(Len(s) - i) : back[k] = s[i + k]
  <2>1. \A k \in (i + 1)..Len(s) : s[k] \in S
    OBVIOUS
  <2> QED BY <2>1, SubSeqProperties
<1> HIDE DEF front, back
<1>3. RemoveAt(s, i) = front \o back
  BY DEF RemoveAt, front, back
<1>4. /\ front \o back \in Seq(S)
      /\ Len(front \o back) = Len(s) - 1
      /\ \A k \in 1..(Len(s) - 1) :
           (front \o back)[k] = IF k <= i - 1 THEN front[k] ELSE back[k - (i - 1)]
  BY <1>1, <1>2, ConcatProperties
<1>5. \A k \in i..(Len(s) - 1) : (front \o back)[k] = s[k + 1]
  BY <1>2, <1>4
<1> QED BY <1>1, <1>3, <1>4, <1>5

-----------------------------------------------------------------------------
(***************************************************************************)
(* The list of ready transactions.                                         *)
(***************************************************************************)

\* The slice lists every transaction of the map once, in descending price.
GoodList(l) ==
  /\ l \in ListType
  /\ \A t \in Tx : t \in l.list <=> \E i \in 1..Len(l.sorted) : l.sorted[i] = t
  /\ \A i, j \in 1..Len(l.sorted) : l.sorted[i] = l.sorted[j] => i = j
  /\ \A i, j \in 1..Len(l.sorted) :
       i < j => GasPrice[l.sorted[i]] >= GasPrice[l.sorted[j]]

\* A non-empty set of positive integers has a least element.
LEMMA LeastIndex ==
  ASSUME NEW n \in Nat, NEW I \in SUBSET (1..n), I # {}
  PROVE  \E i \in I : \A j \in I : i <= j
<1>1. I \subseteq Nat
  OBVIOUS
<1> DEFINE R == OpToRel(<, Nat)
<1>2. IsWellFoundedOn(R, Nat)
  BY NatLessThanWellFounded
<1>3. ASSUME NEW i \in Nat, NEW j \in Nat, j < i
      PROVE  <<j, i>> \in R
  BY <1>3 DEF OpToRel
<1> HIDE DEF R
<1>4. \E i \in I : \A j \in I : ~(<<j, i>> \in R)
  BY <1>1, <1>2, WFMin
<1>5. PICK i \in I : \A j \in I : ~(<<j, i>> \in R)
  BY <1>4
<1>6. ASSUME NEW j \in I
      PROVE  i <= j
  <2>1. i \in Nat /\ j \in Nat
    BY <1>1
  <2>2. ~(j < i)
    BY <2>1, <1>3, <1>5, Zenon
  <2> QED BY <2>1, <2>2
<1> QED BY <1>6

\* The place addSort finds: everything before it is at least as expensive as
\* tx, everything from it on is cheaper.
LEMMA SlotForSorted ==
  ASSUME NEW l, GoodList(l), NEW tx \in Tx
  PROVE  LET s == l.sorted
             i == SlotFor(s, tx)
         IN  /\ i \in 1..(Len(s) + 1)
             /\ \A k \in 1..(i - 1) : GasPrice[s[k]] >= GasPrice[tx]
             /\ \A k \in i..Len(s) : GasPrice[s[k]] <= GasPrice[tx]
<1> DEFINE s == l.sorted
           hits == {i \in 1..Len(s) : GasPrice[tx] > GasPrice[s[i]]}
<1>1. s \in Seq(Tx) /\ Len(s) \in Nat /\ \A k \in 1..Len(s) : s[k] \in Tx
  BY DEF GoodList, ListType
<1>2. \A k \in 1..Len(s) : GasPrice[s[k]] \in Nat
  BY <1>1, TxAssumption
<1>3. GasPrice[tx] \in Nat
  BY TxAssumption
<1>4. CASE hits = {}
  <2>1. SlotFor(s, tx) = Len(s) + 1
    BY <1>4 DEF SlotFor, Search
  <2> QED BY <2>1, <1>1, <1>2, <1>3, <1>4
<1>5. CASE hits # {}
  <2>1. \E i \in hits : \A j \in hits : i <= j
    BY <1>1, <1>5, LeastIndex
  <2>2. /\ SlotFor(s, tx) \in hits
        /\ \A j \in hits : SlotFor(s, tx) <= j
    BY <2>1, <1>5 DEF SlotFor, Search
  <2>3. \A k \in 1..Len(s) :
          SlotFor(s, tx) < k => GasPrice[s[k]] <= GasPrice[s[SlotFor(s, tx)]]
    BY <2>2 DEF GoodList
  <2> DEFINE i == SlotFor(s, tx)
  <2>4. i \in 1..Len(s) /\ GasPrice[tx] > GasPrice[s[i]]
    BY <2>2
  <2>5. \A k \in 1..Len(s) : k < i => ~(GasPrice[tx] > GasPrice[s[k]])
    BY <2>2, <2>4
  <2> HIDE DEF i, hits, s
  <2>6. \A k \in 1..(i - 1) : GasPrice[s[k]] >= GasPrice[tx]
    BY <2>4, <2>5, <1>1, <1>2, <1>3
  <2>7. \A k \in i..Len(s) : GasPrice[s[k]] <= GasPrice[tx]
    BY <2>3, <2>4, <1>1, <1>2, <1>3 DEF i
  <2>8. i \in 1..(Len(s) + 1)
    BY <2>4, <1>1
  <2> QED BY <2>6, <2>7, <2>8, Zenon DEF i, s
<1> QED BY <1>4, <1>5

\* add inserts a transaction and keeps the list good.
LEMMA ListAddGood ==
  ASSUME NEW l, GoodList(l), NEW tx \in Tx
  PROVE  /\ GoodList(listAdd(l, tx))
         /\ listAdd(l, tx).list = l.list \cup {tx}
<1>1. CASE tx \in l.list
  <2>1. listAdd(l, tx) = l
    BY <1>1 DEF listAdd
  <2> QED BY <1>1, <2>1, Zenon
<1>2. CASE tx \notin l.list
  <2> DEFINE s == l.sorted
             i == SlotFor(s, tx)
             r == InsertAt(s, i, tx)
  <2>1. s \in Seq(Tx) /\ Len(s) \in Nat /\ l.list \in SUBSET Tx
    BY DEF GoodList, ListType
  <2>2. /\ i \in 1..(Len(s) + 1)
        /\ \A k \in 1..(i - 1) : GasPrice[s[k]] >= GasPrice[tx]
        /\ \A k \in i..Len(s) : GasPrice[s[k]] <= GasPrice[tx]
    BY SlotForSorted
  <2> HIDE DEF i, s
  <2>3. /\ r \in Seq(Tx)
        /\ Len(r) = Len(s) + 1
        /\ \A k \in 1..(i - 1) : r[k] = s[k]
        /\ r[i] = tx
        /\ \A k \in (i + 1)..(Len(s) + 1) : r[k] = s[k - 1]
    <3>1. s \in Seq(Tx) /\ i \in 1..(Len(s) + 1)
      BY <2>1, <2>2
    <3> QED BY ONLY <3>1, tx \in Tx, InsertAtElements
  <2>4. listAdd(l, tx) = [list |-> l.list \cup {tx}, sorted |-> r]
    BY <1>2 DEF listAdd, i, s
  <2> HIDE DEF r
  <2>5. \A t \in Tx : t \in l.list \cup {tx} <=> \E k \in 1..Len(r) : r[k] = t
    <3>1. ASSUME NEW t \in l.list PROVE \E k \in 1..Len(r) : r[k] = t
      <4>1. PICK k \in 1..Len(s) : s[k] = t
        <5>1. t \in Tx
          BY <2>1
        <5> QED BY <5>1 DEF GoodList, s
      <4>2. CASE k < i
        <5>1. k \in 1..(i - 1) /\ k \in 1..Len(r)
          BY <4>2, <2>1, <2>2, <2>3
        <5>2. r[k] = s[k]
          BY <5>1, <2>3
        <5> QED BY <5>1, <5>2, <4>1
      <4>3. CASE k >= i
        <5>1. k + 1 \in (i + 1)..(Len(s) + 1) /\ k + 1 \in 1..Len(r)
          BY <4>3, <2>1, <2>2, <2>3
        <5>2. r[k + 1] = s[(k + 1) - 1]
          BY <5>1, <2>3
        <5> QED BY <5>1, <5>2, <4>1
      <4> QED BY <4>2, <4>3, <2>2
    <3>2. ASSUME NEW k \in 1..Len(r) PROVE r[k] \in l.list \cup {tx}
      <4>1. CASE k < i
        <5>1. k \in 1..Len(s) /\ r[k] = s[k] /\ s[k] \in Tx
          BY <4>1, <2>1, <2>2, <2>3
        <5> QED BY <5>1 DEF GoodList, s
      <4>2. CASE k > i
        <5>1. k - 1 \in 1..Len(s) /\ r[k] = s[k - 1] /\ s[k - 1] \in Tx
          BY <4>2, <2>1, <2>2, <2>3
        <5> QED BY <5>1 DEF GoodList, s
      <4> QED BY <4>1, <4>2, <2>2, <2>3
    <3>3. \E k \in 1..Len(r) : r[k] = tx
      BY <2>1, <2>2, <2>3
    <3> QED BY <3>1, <3>2, <3>3
  <2>6. \A k \in 1..Len(s) : s[k] \in Tx /\ s[k] # tx /\ GasPrice[s[k]] \in Nat
    <3>1. ASSUME NEW k \in 1..Len(s) PROVE s[k] \in Tx /\ s[k] \in l.list
      BY <2>1 DEF GoodList, s
    <3> QED BY <1>2, <3>1, TxAssumption
  <2> DEFINE from(k) == IF k < i THEN k ELSE k - 1
  <2>9. \A k \in 1..Len(r) : k # i => from(k) \in 1..Len(s) /\ r[k] = s[from(k)]
    BY <2>1, <2>2, <2>3
  <2>10. \A k, m \in 1..Len(r) : k # i /\ m # i /\ k < m => from(k) < from(m)
    BY <2>1, <2>2, <2>3
  <2> HIDE DEF from
  <2>11. \A k, m \in 1..Len(s) : k < m => s[k] # s[m] /\ GasPrice[s[k]] >= GasPrice[s[m]]
    BY DEF GoodList, s
  <2>7. \A k, m \in 1..Len(r) : r[k] = r[m] => k = m
    <3> SUFFICES ASSUME NEW k \in 1..Len(r), NEW m \in 1..Len(r), r[k] = r[m], k < m
                 PROVE  FALSE
      BY <2>1, <2>3
    <3>1. CASE k = i \/ m = i
      BY <3>1, <2>3, <2>6, <2>9
    <3>2. CASE k # i /\ m # i
      BY <3>2, <2>9, <2>10, <2>11
    <3> QED BY <3>1, <3>2
  <2>8. \A k, m \in 1..Len(r) : k < m => GasPrice[r[k]] >= GasPrice[r[m]]
    <3> SUFFICES ASSUME NEW k \in 1..Len(r), NEW m \in 1..Len(r), k < m
                 PROVE  GasPrice[r[k]] >= GasPrice[r[m]]
      OBVIOUS
    <3>0. GasPrice[tx] \in Nat
      BY TxAssumption
    <3>1. CASE k = i
      <4>0. m \in (i + 1)..(Len(s) + 1)
        BY <3>1, <2>1, <2>2, <2>3
      <4>1. m - 1 \in i..Len(s) /\ r[m] = s[m - 1]
        BY <4>0, <2>1, <2>2, <2>3
      <4> QED BY <3>1, <4>1, <3>0, <2>1, <2>2, <2>3, <2>6
    <3>3. CASE m = i
      <4>1. k \in 1..(i - 1) /\ r[k] = s[k]
        BY <3>3, <2>1, <2>2, <2>3
      <4> QED BY <3>3, <4>1, <2>2, <2>3
    <3>2. CASE k # i /\ m # i
      BY <3>2, <2>9, <2>10, <2>11
    <3> QED BY <3>1, <3>2, <3>3
  <2> QED BY <2>1, <2>3, <2>4, <2>5, <2>7, <2>8 DEF GoodList, ListType
<1> QED BY <1>1, <1>2

\* In a good list delete finds every listed transaction: between the first
\* transaction that is not more expensive and tx itself, all prices are tx's.
LEMMA DeleteFinds ==
  ASSUME NEW l, GoodList(l), NEW tx \in l.list
  PROVE  /\ FoundAt(l.sorted, tx) # {}
         /\ FoundAt(l.sorted, tx) \in SUBSET (1..Len(l.sorted))
         /\ \A i \in FoundAt(l.sorted, tx) : l.sorted[i] = tx
<1> DEFINE s == l.sorted
           hits == {k \in 1..Len(s) : GasPrice[tx] >= GasPrice[s[k]]}
           first == Search(s, LAMBDA t : GasPrice[tx] >= GasPrice[t])
<1>1. /\ s \in Seq(Tx) /\ Len(s) \in Nat
      /\ \A k \in 1..Len(s) : s[k] \in Tx
      /\ tx \in Tx
  BY DEF GoodList, ListType
<1>2. /\ \A k \in 1..Len(s) : GasPrice[s[k]] \in Nat
      /\ GasPrice[tx] \in Nat
  BY <1>1, TxAssumption
<1>3. PICK i \in 1..Len(s) : s[i] = tx
  BY <1>1 DEF GoodList
<1>4. i \in hits
  BY <1>2, <1>3
<1>5. \E k \in hits : \A j \in hits : k <= j
  BY <1>1, <1>4, LeastIndex
<1>6. first \in hits /\ \A j \in hits : first <= j
  BY <1>4, <1>5 DEF Search
<1>7. FoundAt(s, tx) = {k \in first..Len(s) :
                         /\ s[k] = tx
                         /\ \A j \in first..k : GasPrice[s[j]] = GasPrice[tx]}
  BY DEF FoundAt
<1> HIDE DEF first
<1>8. ASSUME NEW j \in first..i
      PROVE  GasPrice[s[j]] = GasPrice[tx]
  <2>1. /\ j \in 1..Len(s)
        /\ j = first \/ first < j
        /\ j = i \/ j < i
    BY <1>3, <1>6
  <2>2. first < j => GasPrice[s[first]] >= GasPrice[s[j]]
    BY <1>6, <2>1 DEF GoodList
  <2>3. j < i => GasPrice[s[j]] >= GasPrice[s[i]]
    BY <1>3, <2>1 DEF GoodList
  <2> QED BY <1>2, <1>3, <1>6, <2>1, <2>2, <2>3
<1>9. i \in FoundAt(s, tx)
  BY <1>3, <1>4, <1>6, <1>7, <1>8
<1> QED BY <1>1, <1>6, <1>7, <1>9

\* delete removes a transaction and keeps the list good.
LEMMA ListDeleteGood ==
  ASSUME NEW l, GoodList(l), NEW tx \in Tx
  PROVE  /\ GoodList(listDelete(l, tx))
         /\ listDelete(l, tx).list = l.list \ {tx}
<1>1. CASE tx \notin l.list
  BY <1>1 DEF listDelete, GoodList, ListType
<1>2. CASE tx \in l.list
  <2> DEFINE s == l.sorted
             at == FoundAt(s, tx)
             i == CHOOSE k \in at : \A j \in at : k <= j
             r == RemoveAt(s, i)
  <2>1. s \in Seq(Tx) /\ Len(s) \in Nat /\ l.list \in SUBSET Tx
    BY DEF GoodList, ListType
  <2>2. /\ at # {}
        /\ at \in SUBSET (1..Len(s))
        /\ \A k \in at : s[k] = tx
    BY <1>2, DeleteFinds
  <2>3. \E k \in at : \A j \in at : k <= j
    <3> HIDE DEF at
    <3> QED BY <2>1, <2>2, LeastIndex
  <2>4. i \in 1..Len(s) /\ s[i] = tx
    <3>1. i \in at
      BY <2>3
    <3> QED BY <3>1, <2>2
  <2>5. listDelete(l, tx) = [list |-> l.list \ {tx}, sorted |-> r]
    BY <1>2, <2>2 DEF listDelete
  <2> HIDE DEF at, i
  <2>6. /\ r \in Seq(Tx)
        /\ Len(r) = Len(s) - 1
        /\ \A k \in 1..(i - 1) : r[k] = s[k]
        /\ \A k \in i..(Len(s) - 1) : r[k] = s[k + 1]
    BY <2>1, <2>4, RemoveAtElements
  <2> HIDE DEF r, s
  <2> DEFINE from(k) == IF k < i THEN k ELSE k + 1
             to(k) == IF k < i THEN k ELSE k - 1
  <2>7. \A k \in 1..Len(r) :
          from(k) \in 1..Len(s) /\ from(k) # i /\ r[k] = s[from(k)]
    BY <2>1, <2>4, <2>6
  <2>8. \A k, m \in 1..Len(r) : k < m => from(k) < from(m)
    BY <2>1, <2>4, <2>6
  <2>9. \A k \in 1..Len(s) : k # i => to(k) \in 1..Len(r) /\ r[to(k)] = s[k]
    BY <2>1, <2>4, <2>6
  <2> HIDE DEF from, to
  <2>10. \A k, m \in 1..Len(s) : k < m => s[k] # s[m] /\ GasPrice[s[k]] >= GasPrice[s[m]]
    BY DEF GoodList, s
  <2>11. \A t \in Tx : t \in l.list <=> \E k \in 1..Len(s) : s[k] = t
    BY DEF GoodList, s
  <2>12. \A k \in 1..Len(s) : s[k] = tx => k = i
    BY <2>4 DEF GoodList, s
  <2>13. \A t \in Tx : t \in l.list \ {tx} <=> \E k \in 1..Len(r) : r[k] = t
    <3>1. ASSUME NEW t \in l.list \ {tx} PROVE \E k \in 1..Len(r) : r[k] = t
      <4>1. PICK k \in 1..Len(s) : s[k] = t
        BY <2>1, <2>11
      <4> QED BY <4>1, <2>4, <2>9
    <3>2. ASSUME NEW k \in 1..Len(r) PROVE r[k] \in l.list \ {tx}
      <4>1. r[k] = s[from(k)] /\ from(k) \in 1..Len(s) /\ s[from(k)] # tx
        BY <2>7, <2>12
      <4>2. s[from(k)] \in Tx
        BY <4>1, <2>1, <2>6 DEF s
      <4> QED BY <4>1, <4>2, <2>11
    <3> QED BY <3>1, <3>2
  <2>14. \A k, m \in 1..Len(r) : r[k] = r[m] => k = m
    <3> SUFFICES ASSUME NEW k \in 1..Len(r), NEW m \in 1..Len(r), r[k] = r[m], k < m
                 PROVE  FALSE
      BY <2>1, <2>6
    <3> QED BY <2>7, <2>8, <2>10
  <2>15. \A k, m \in 1..Len(r) : k < m => GasPrice[r[k]] >= GasPrice[r[m]]
    BY <2>7, <2>8, <2>10
  <2>16. /\ listDelete(l, tx).list = l.list \ {tx}
         /\ listDelete(l, tx).sorted = r
         /\ listDelete(l, tx) \in ListType
    BY <2>1, <2>5, <2>6 DEF ListType
  <2> QED BY <2>13, <2>14, <2>15, <2>16 DEF GoodList
<1> QED BY <1>1, <1>2

\* Relist takes prev out and puts new in.
LEMMA RelistGood ==
  ASSUME NEW l, GoodList(l), NEW prev \in Tx \cup {Nil}, NEW new \in Tx \cup {Nil}
  PROVE  /\ GoodList(Relist(l, prev, new))
         /\ Relist(l, prev, new).list = (l.list \ {prev}) \cup ({new} \ {Nil})
<1> DEFINE d == IF prev = Nil THEN l ELSE listDelete(l, prev)
<1>1. GoodList(d) /\ d.list = l.list \ {prev}
  <2>1. CASE prev = Nil
    <3>1. Nil \notin l.list
      BY TxAssumption DEF GoodList, ListType
    <3> QED BY <2>1, <3>1
  <2>2. CASE prev # Nil
    BY <2>2, ListDeleteGood
  <2> QED BY <2>1, <2>2
<1>2. Relist(l, prev, new) = IF new = Nil THEN d ELSE listAdd(d, new)
  BY DEF Relist
<1> HIDE DEF d
<1>3. CASE new = Nil
  BY <1>1, <1>2, <1>3
<1>4. CASE new # Nil
  BY <1>1, <1>2, <1>4, ListAddGood
<1> QED BY <1>3, <1>4

-----------------------------------------------------------------------------
(***************************************************************************)
(* One queue.                                                              *)
(***************************************************************************)

\* q is a queue sender a may have: its transactions are a's, the ready one
\* can run, the others wait, one per nonce.
GoodQueue(a, q) ==
  /\ q \in QueueType
  /\ \A t \in q.notReadyTxs : From[t] = a /\ Nonce[t] >= q.currentNonce
  /\ \A t, u \in q.notReadyTxs : Nonce[t] = Nonce[u] => t = u
  /\ q.readyTx # Nil =>
       /\ From[q.readyTx] = a
       /\ Nonce[q.readyTx] = q.currentNonce
       /\ Cost[q.readyTx] <= q.currentBalance

\* The ready transaction of an entry of the pool, as a set.
ReadyIn(x) == IF x = Nil THEN {} ELSE {x.readyTx} \ {Nil}

\* Replacing entry x by y changes the ready transaction from prev to new.
ReadyMoves(x, y, prev, new) ==
  /\ prev \in Tx \cup {Nil} /\ new \in Tx \cup {Nil}
  /\ prev \in ReadyIn(x) \cup {Nil}
  /\ ReadyIn(y) = (ReadyIn(x) \ {prev}) \cup ({new} \ {Nil})

\* A new queue is good and has nothing ready.
LEMMA NewQueueGood ==
  ASSUME NEW a \in Addr, NEW n \in Nat, NEW b \in Nat
  PROVE  GoodQueue(a, newAddrQueue(n, b)) /\ ReadyIn(newAddrQueue(n, b)) = {}
BY TxAssumption DEF GoodQueue, newAddrQueue, QueueType, ReadyIn

\* Assigning tx to its nonce in notReadyTxs keeps one transaction per nonce.
LEMMA PutNotReadyUnique ==
  ASSUME NEW txs \in SUBSET Tx, NEW tx \in Tx,
         \A t, u \in txs : Nonce[t] = Nonce[u] => t = u
  PROVE  /\ PutNotReady(txs, tx) \in SUBSET Tx
         /\ PutNotReady(txs, tx) \subseteq txs \cup {tx}
         /\ \A t, u \in PutNotReady(txs, tx) : Nonce[t] = Nonce[u] => t = u
BY DEF PutNotReady

\* addTx keeps the queue good and reports the change of the ready transaction.
LEMMA AddTxGood ==
  ASSUME NEW tx \in Tx, NEW q, GoodQueue(From[tx], q)
  PROVE  LET r == addTx(q, tx)
         IN  /\ r.dropped \in BOOLEAN
             /\ r.replacedTx \in Tx \cup {Nil}
             /\ GoodQueue(From[tx], r.queue)
             /\ r.dropped => r.queue = q
             /\ ~r.dropped => ReadyMoves(q, r.queue, r.prevReadyTx, r.newReadyTx)
<1> DEFINE r == addTx(q, tx)
<1> SUFFICES /\ r.dropped \in BOOLEAN
             /\ r.replacedTx \in Tx \cup {Nil}
             /\ GoodQueue(From[tx], r.queue)
             /\ r.dropped => r.queue = q
             /\ ~r.dropped => ReadyMoves(q, r.queue, r.prevReadyTx, r.newReadyTx)
  OBVIOUS
<1>0. /\ q.currentNonce \in Nat /\ q.currentBalance \in Nat
      /\ q.readyTx \in Tx \cup {Nil} /\ q.notReadyTxs \in SUBSET Tx
      /\ Nonce[tx] \in Nat /\ Cost[tx] \in Nat /\ GasPrice[tx] \in Nat
      /\ Nil \notin Tx
  BY TxAssumption DEF GoodQueue, QueueType
<1>1. CASE Nonce[tx] < q.currentNonce
  <2>1. r = AddTxResult(q, Nil, Nil, Nil, TRUE)
    <3>1. Nonce[tx] # q.currentNonce
      BY <1>0, <1>1
    <3> QED BY <3>1, <1>1, Zenon DEF addTx
  <2> QED BY <2>1 DEF AddTxResult
<1>2. CASE Nonce[tx] = q.currentNonce
  <2> DEFINE rep == Replaced(q.readyTx, tx)
             rdy == [q EXCEPT !.readyTx = tx]
             wait == [q EXCEPT !.readyTx = Nil,
                               !.notReadyTxs = PutNotReady(q.notReadyTxs, tx)]
  <2>0. rep \in Tx \cup {Nil}
    BY <1>0 DEF Replaced
  <2> HIDE DEF rep
  <2>1. \/ r = AddTxResult(q, Nil, Nil, Nil, TRUE)
        \/ /\ Cost[tx] <= q.currentBalance
           /\ r = AddTxResult(rdy, tx, q.readyTx, rep, FALSE)
        \/ r = AddTxResult(wait, Nil, q.readyTx, rep, FALSE)
    <3>1. r = addTxAtCurrentNonce(q, tx)
      BY <1>0, <1>2 DEF addTx
    <3> QED BY <1>0, <3>1 DEF addTxAtCurrentNonce, rep
  <2> HIDE DEF r
  <2>2. CASE r = AddTxResult(q, Nil, Nil, Nil, TRUE)
    BY <2>2 DEF AddTxResult
  <2>3. CASE r = AddTxResult(rdy, tx, q.readyTx, rep, FALSE) /\ Cost[tx] <= q.currentBalance
    <3>1. /\ rdy \in QueueType /\ rdy.readyTx = tx /\ rdy.notReadyTxs = q.notReadyTxs
          /\ rdy.currentNonce = q.currentNonce /\ rdy.currentBalance = q.currentBalance
      BY <1>0 DEF GoodQueue, QueueType
    <3> HIDE DEF rdy
    <3>2. GoodQueue(From[tx], rdy)
      BY <3>1, <2>3, <1>0, <1>2 DEF GoodQueue
    <3>3. ReadyMoves(q, rdy, q.readyTx, tx)
      <4>1. q # Nil /\ rdy # Nil
        BY <3>2, WorkerAssumption DEF GoodQueue
      <4> QED BY <4>1, <3>1, <1>0 DEF ReadyMoves, ReadyIn
    <3> QED BY <3>2, <3>3, <2>3, <2>0 DEF AddTxResult
  <2>4. CASE r = AddTxResult(wait, Nil, q.readyTx, rep, FALSE)
    <3>0. /\ PutNotReady(q.notReadyTxs, tx) \in SUBSET Tx
          /\ PutNotReady(q.notReadyTxs, tx) \subseteq q.notReadyTxs \cup {tx}
          /\ \A t, u \in PutNotReady(q.notReadyTxs, tx) : Nonce[t] = Nonce[u] => t = u
      BY <1>0, PutNotReadyUnique DEF GoodQueue
    <3>1. /\ wait \in QueueType /\ wait.readyTx = Nil
          /\ wait.notReadyTxs = PutNotReady(q.notReadyTxs, tx)
          /\ wait.currentNonce = q.currentNonce /\ wait.currentBalance = q.currentBalance
      BY <1>0, <3>0 DEF GoodQueue, QueueType
    <3> HIDE DEF wait
    <3>2. GoodQueue(From[tx], wait)
      BY <3>0, <3>1, <1>0, <1>2 DEF GoodQueue
    <3>3. ReadyMoves(q, wait, q.readyTx, Nil)
      <4>1. q # Nil /\ wait # Nil
        BY <3>2, WorkerAssumption DEF GoodQueue
      <4> QED BY <4>1, <3>1, <1>0 DEF ReadyMoves, ReadyIn
    <3> QED BY <3>2, <3>3, <2>4, <2>0 DEF AddTxResult
  <2> QED BY <2>1, <2>2, <2>3, <2>4
<1>3. CASE Nonce[tx] > q.currentNonce
  <2> DEFINE here == NotReadyAt(q, Nonce[tx])
             old == IF here = {} THEN Nil ELSE CHOOSE t \in here : TRUE
             rep == Replaced(old, tx)
             wait == [q EXCEPT !.notReadyTxs = PutNotReady(q.notReadyTxs, tx)]
  <2>0. rep \in Tx \cup {Nil}
    <3>1. here \subseteq Tx
      BY <1>0 DEF NotReadyAt
    <3> HIDE DEF here
    <3> QED BY <3>1 DEF Replaced
  <2>1. \/ r = AddTxResult(q, Nil, Nil, Nil, TRUE)
        \/ r = AddTxResult(wait, Nil, Nil, rep, FALSE)
    <3>1. r = addTxAtFutureNonce(q, tx)
      <4>1. Nonce[tx] # q.currentNonce /\ ~(Nonce[tx] < q.currentNonce)
        BY <1>0, <1>3
      <4> QED BY <4>1, Zenon DEF addTx
    <3> QED BY <3>1 DEF addTxAtFutureNonce
  <2> HIDE DEF r, rep
  <2>2. CASE r = AddTxResult(q, Nil, Nil, Nil, TRUE)
    BY <2>2 DEF AddTxResult
  <2>3. CASE r = AddTxResult(wait, Nil, Nil, rep, FALSE)
    <3>0. /\ PutNotReady(q.notReadyTxs, tx) \in SUBSET Tx
          /\ PutNotReady(q.notReadyTxs, tx) \subseteq q.notReadyTxs \cup {tx}
          /\ \A t, u \in PutNotReady(q.notReadyTxs, tx) : Nonce[t] = Nonce[u] => t = u
      BY <1>0, PutNotReadyUnique DEF GoodQueue
    <3>1. /\ wait \in QueueType /\ wait.readyTx = q.readyTx
          /\ wait.notReadyTxs = PutNotReady(q.notReadyTxs, tx)
          /\ wait.currentNonce = q.currentNonce /\ wait.currentBalance = q.currentBalance
      BY <1>0, <3>0 DEF GoodQueue, QueueType
    <3> HIDE DEF wait
    <3>2. GoodQueue(From[tx], wait)
      BY <3>0, <3>1, <1>0, <1>3 DEF GoodQueue
    <3>3. ReadyMoves(q, wait, Nil, Nil)
      <4>1. q # Nil /\ wait # Nil
        BY <3>2, WorkerAssumption DEF GoodQueue
      <4> QED BY <4>1, <3>1, <1>0 DEF ReadyMoves, ReadyIn
    <3> QED BY <3>2, <3>3, <2>3, <2>0 DEF AddTxResult
  <2> QED BY <2>1, <2>2, <2>3
<1> QED BY <1>0, <1>1, <1>2, <1>3

\* deleteTx keeps the queue good.
LEMMA DeleteTxGood ==
  ASSUME NEW a \in Addr, NEW q, GoodQueue(a, q), NEW tx \in Tx
  PROVE  /\ GoodQueue(a, deleteTx(q, tx))
         /\ ReadyMoves(q, deleteTx(q, tx), IF q.readyTx = tx THEN tx ELSE Nil, Nil)
<1> DEFINE d == deleteTx(q, tx)
<1>1. /\ d \in QueueType
      /\ d.readyTx = IF q.readyTx = tx THEN Nil ELSE q.readyTx
      /\ d.notReadyTxs \subseteq q.notReadyTxs
      /\ d.currentNonce = q.currentNonce /\ d.currentBalance = q.currentBalance
  BY DEF GoodQueue, QueueType, deleteTx
<1> HIDE DEF d
<1>2. GoodQueue(a, d)
  BY <1>1 DEF GoodQueue
<1>3. q # Nil /\ d # Nil
  BY <1>2, WorkerAssumption DEF GoodQueue
<1>4. ReadyMoves(q, d, IF q.readyTx = tx THEN tx ELSE Nil, Nil)
  BY <1>1, <1>3, TxAssumption DEF ReadyMoves, ReadyIn
<1> QED BY <1>2, <1>4 DEF d

\* The expiry of a queue keeps it good, whichever transactions are old.
LEMMA ExpireQueueGood ==
  ASSUME NEW a \in Addr, NEW q, GoodQueue(a, q), NEW old, NEW readyIsOld \in BOOLEAN
  PROVE  /\ GoodQueue(a, ExpireQueue(q, old, readyIsOld))
         /\ ReadyMoves(q, ExpireQueue(q, old, readyIsOld),
                       IF readyIsOld THEN q.readyTx ELSE Nil, Nil)
<1> DEFINE d == ExpireQueue(q, old, readyIsOld)
<1>1. /\ d \in QueueType
      /\ d.readyTx = IF readyIsOld THEN Nil ELSE q.readyTx
      /\ d.notReadyTxs \subseteq q.notReadyTxs
      /\ d.currentNonce = q.currentNonce /\ d.currentBalance = q.currentBalance
      /\ q.readyTx \in Tx \cup {Nil}
  BY DEF GoodQueue, QueueType, ExpireQueue
<1> HIDE DEF d
<1>2. GoodQueue(a, d)
  BY <1>1 DEF GoodQueue
<1>3. q # Nil /\ d # Nil
  BY <1>2, WorkerAssumption DEF GoodQueue
<1>4. ReadyMoves(q, d, IF readyIsOld THEN q.readyTx ELSE Nil, Nil)
  BY <1>1, <1>3, TxAssumption DEF ReadyMoves, ReadyIn
<1> QED BY <1>2, <1>4 DEF d

\* updateCurrentNonceBalance keeps the queue good when the nonce does not go
\* back, and reports the change of the ready transaction.
LEMMA UpdateGood ==
  ASSUME NEW a \in Addr, NEW q, GoodQueue(a, q),
         NEW nonce \in Nat \cup {Nil}, nonce # Nil => nonce >= q.currentNonce,
         NEW balance \in Nat \cup {Nil}
  PROVE  LET u == updateCurrentNonceBalance(q, nonce, balance)
         IN  /\ GoodQueue(a, u.queue)
             /\ ReadyMoves(q, u.queue, u.prevReadyTx, u.newReadyTx)
             /\ u.txsToDelete \in SUBSET Tx
<1> DEFINE bal     == IF balance = Nil THEN q.currentBalance ELSE balance
           cur     == IF nonce = Nil THEN q.currentNonce ELSE nonce
           passed  == IF cur = q.currentNonce THEN {}
                      ELSE {t \in q.notReadyTxs : Nonce[t] < cur}
           waiting == q.notReadyTxs \ passed
           keep    == /\ q.readyTx # Nil
                      /\ Nonce[q.readyTx] = cur
                      /\ Cost[q.readyTx] <= bal
           old     == IF keep THEN Nil ELSE q.readyTx
           promote == {t \in waiting : ~keep /\ Nonce[t] = cur /\ Cost[t] <= bal}
           ready   == IF keep THEN q.readyTx
                      ELSE IF promote = {} THEN Nil
                      ELSE CHOOSE t \in promote : TRUE
           rest    == waiting \ promote
           kept    == IF old # Nil /\ Nonce[old] > cur
                      THEN PutNotReady(rest, old) ELSE rest
           u       == updateCurrentNonceBalance(q, nonce, balance)
           new     == [q EXCEPT !.currentNonce = cur, !.currentBalance = bal,
                                !.readyTx = ready, !.notReadyTxs = kept]
<1> SUFFICES /\ GoodQueue(a, u.queue)
             /\ ReadyMoves(q, u.queue, u.prevReadyTx, u.newReadyTx)
             /\ u.txsToDelete \in SUBSET Tx
  OBVIOUS
<1>1. u = [queue |-> new, newReadyTx |-> ready, prevReadyTx |-> old,
           txsToDelete |-> passed]
  BY DEF updateCurrentNonceBalance
<1>2. /\ q.currentNonce \in Nat /\ q.currentBalance \in Nat
      /\ q.readyTx \in Tx \cup {Nil} /\ q.notReadyTxs \in SUBSET Tx
      /\ Nil \notin Tx
      /\ \A t \in Tx : Nonce[t] \in Nat /\ Cost[t] \in Nat
  BY TxAssumption DEF GoodQueue, QueueType
<1>3. bal \in Nat /\ cur \in Nat /\ cur >= q.currentNonce
  BY <1>2
<1> HIDE DEF u, bal, cur
<1>4. passed \in SUBSET Tx /\ waiting \in SUBSET q.notReadyTxs
  BY <1>2
<1>5. \A t \in waiting : Nonce[t] >= cur
  BY <1>2, <1>3 DEF GoodQueue
<1> HIDE DEF passed, waiting
<1>6. /\ keep \in BOOLEAN
      /\ keep => /\ q.readyTx # Nil
                 /\ Nonce[q.readyTx] = cur
                 /\ Cost[q.readyTx] <= bal
  OBVIOUS
<1> HIDE DEF keep
<1>7. /\ promote \in SUBSET waiting
      /\ \A t \in promote : ~keep /\ Nonce[t] = cur /\ Cost[t] <= bal
  OBVIOUS
<1> HIDE DEF promote
<1>8. \/ keep /\ ready = q.readyTx /\ old = Nil
      \/ ~keep /\ ready = Nil /\ old = q.readyTx
      \/ ~keep /\ ready \in promote /\ old = q.readyTx
  BY <1>6
<1>9. kept = rest
  \* the old ready transaction was at the previous nonce, so not above cur
  <2>1. old # Nil => Nonce[old] = q.currentNonce
    BY <1>8 DEF GoodQueue
  <2> QED BY <1>2, <1>3, <2>1
<1>10. kept \in SUBSET waiting
  BY <1>9
<1> HIDE DEF old, ready, kept, rest
<1>11. ready \in Tx \cup {Nil} /\ old \in Tx \cup {Nil}
  BY <1>2, <1>4, <1>7, <1>8
<1>12. ready # Nil => /\ From[ready] = a
                      /\ Nonce[ready] = cur
                      /\ Cost[ready] <= bal
  <2>1. CASE keep
    BY <2>1, <1>6, <1>8 DEF GoodQueue
  <2>2. CASE ready \in promote
    BY <2>2, <1>4, <1>7 DEF GoodQueue
  <2> QED BY <1>8, <2>1, <2>2
<1>13. /\ new \in QueueType
       /\ new.currentNonce = cur /\ new.currentBalance = bal
       /\ new.readyTx = ready /\ new.notReadyTxs = kept
  BY <1>2, <1>3, <1>4, <1>10, <1>11 DEF GoodQueue, QueueType
<1> HIDE DEF new
<1>14. GoodQueue(a, new)
  <2>1. \A t \in kept : From[t] = a /\ Nonce[t] >= cur
    BY <1>4, <1>5, <1>10 DEF GoodQueue
  <2>2. \A t, v \in kept : Nonce[t] = Nonce[v] => t = v
    BY <1>4, <1>10 DEF GoodQueue
  <2> QED BY <1>12, <1>13, <2>1, <2>2 DEF GoodQueue
<1>15. ReadyMoves(q, new, old, ready)
  <2>1. q # Nil /\ new # Nil
    BY <1>14, WorkerAssumption DEF GoodQueue
  <2>2. ReadyIn(q) = {q.readyTx} \ {Nil} /\ ReadyIn(new) = {ready} \ {Nil}
    BY <2>1, <1>13 DEF ReadyIn
  <2> QED BY <2>2, <1>2, <1>8, <1>11 DEF ReadyMoves
<1> QED BY <1>1, <1>4, <1>14, <1>15

-----------------------------------------------------------------------------
(***************************************************************************)
(* The pool and the list together.                                         *)
(***************************************************************************)
PoolGood(p, l) ==
  /\ p \in [Addr -> QueueType \cup {Nil}]
  /\ GoodList(l)
  /\ \A a \in Addr : p[a] # Nil => GoodQueue(a, p[a])
  /\ \A t \in Tx : t \in l.list <=> \E a \in Addr : t \in ReadyIn(p[a])

\* Every ready transaction is one of its queue's sender: a transaction is
\* ready in one queue only.
LEMMA ReadyFrom ==
  ASSUME NEW p, NEW l, PoolGood(p, l), NEW a \in Addr, NEW t \in ReadyIn(p[a])
  PROVE  t \in Tx /\ From[t] = a
<1>1. p[a] # Nil /\ t = p[a].readyTx /\ t # Nil
  BY DEF ReadyIn
<1> QED BY <1>1 DEF PoolGood, GoodQueue, QueueType

\* Replacing one entry of the pool and moving its ready transaction in the
\* list accordingly keeps both in step.
LEMMA PoolStep ==
  ASSUME NEW p, NEW l, PoolGood(p, l), NEW a \in Addr,
         NEW x, x = Nil \/ GoodQueue(a, x),
         NEW prev, NEW new, ReadyMoves(p[a], x, prev, new)
  PROVE  PoolGood([p EXCEPT ![a] = x], Relist(l, prev, new))
<1> DEFINE np == [p EXCEPT ![a] = x]
           nl == Relist(l, prev, new)
<1>1. prev \in Tx \cup {Nil} /\ new \in Tx \cup {Nil} /\ GoodList(l)
  BY DEF ReadyMoves, PoolGood
<1>2. GoodList(nl) /\ nl.list = (l.list \ {prev}) \cup ({new} \ {Nil})
  BY <1>1, RelistGood
<1>3. x \in QueueType \cup {Nil}
  BY DEF GoodQueue
<1>4. /\ np \in [Addr -> QueueType \cup {Nil}]
      /\ np[a] = x
      /\ \A b \in Addr : b # a => np[b] = p[b]
  BY <1>3 DEF PoolGood
<1> HIDE DEF np, nl
<1>5. \A b \in Addr : np[b] # Nil => GoodQueue(b, np[b])
  BY <1>4 DEF PoolGood
<1>6. ASSUME NEW t \in Tx
      PROVE  t \in nl.list <=> \E b \in Addr : t \in ReadyIn(np[b])
  <2>1. t \in l.list <=> \E b \in Addr : t \in ReadyIn(p[b])
    BY DEF PoolGood
  <2>2. t \in ReadyIn(x) <=> (t \in ReadyIn(p[a]) /\ t # prev) \/ t = new
    BY TxAssumption DEF ReadyMoves
  <2>3. t \in nl.list <=> (t \in l.list /\ t # prev) \/ t = new
    BY <1>2, TxAssumption
  <2>4. ASSUME NEW b \in Addr, t \in ReadyIn(p[b]), b # a
        PROVE  t # prev
    <3>1. From[t] = b
      BY <2>4, ReadyFrom
    <3>2. prev # Nil => From[prev] = a
      BY ReadyFrom DEF ReadyMoves
    <3> QED BY <3>1, <3>2, <2>4, TxAssumption
  <2>5. ASSUME t \in nl.list
        PROVE  \E b \in Addr : t \in ReadyIn(np[b])
    BY <2>1, <2>2, <2>3, <2>5, <1>4
  <2>6. ASSUME NEW b \in Addr, t \in ReadyIn(np[b])
        PROVE  t \in nl.list
    BY <2>1, <2>2, <2>3, <2>4, <2>6, <1>4
  <2> QED BY <2>5, <2>6
<1> QED BY <1>2, <1>4, <1>5, <1>6 DEF PoolGood, np, nl

-----------------------------------------------------------------------------
(***************************************************************************)
(* The inductive invariant.  TypeOK and ListIsReady are not inductive: the *)
(* list stays equal to the ready transactions only if delete finds what it *)
(* looks for (the list is sorted and complete) and if no transaction is    *)
(* ready in two queues (each queue holds its own sender's).  A queue may   *)
(* be installed over another one unless the sender is still unknown, and   *)
(* the expiry loop reads only queues that exist.                           *)
(***************************************************************************)
IInv ==
  /\ TypeOK
  /\ PoolGood(pool, txSortedList)
  /\ NewQueueOverwritesNothing
  /\ holder = "expire" => \A a \in todo : Known(a)

\* Changing the existing queue of sender a.
LEMMA KnownQueueStep ==
  ASSUME IInv, NEW a \in Addr, Known(a), NEW x, x = Nil \/ GoodQueue(a, x),
         NEW prev, NEW new, ReadyMoves(pool[a], x, prev, new),
         pool' = [pool EXCEPT ![a] = x],
         txSortedList' = Relist(txSortedList, prev, new),
         adding' = adding
  PROVE  /\ PoolGood(pool', txSortedList')
         /\ pool' \in [Addr -> QueueType \cup {Nil}]
         /\ txSortedList' \in ListType
         /\ NewQueueOverwritesNothing'
         /\ \A b \in Addr : b # a => pool'[b] = pool[b]
<1>1. PoolGood(pool', txSortedList')
  BY PoolStep DEF IInv
<1>2. /\ pool' \in [Addr -> QueueType \cup {Nil}]
      /\ txSortedList' \in ListType
  BY <1>1 DEF PoolGood, GoodList
<1>3. \A b \in Addr : b # a => pool'[b] = pool[b]
  BY DEF IInv, TypeOK
<1>4. NewQueueOverwritesNothing'
  <2> SUFFICES ASSUME adding # Nil PROVE pool'[From[adding]] = Nil
    BY DEF NewQueueOverwritesNothing, Known
  <2>1. pool[From[adding]] = Nil
    BY DEF IInv, NewQueueOverwritesNothing, Known
  <2>2. From[adding] \in Addr
    BY TxAssumption DEF IInv, TypeOK
  <2> QED BY <1>3, <2>1, <2>2 DEF Known
<1> QED BY <1>1, <1>2, <1>3, <1>4

\* A change of a queue that leaves its ready transaction alone needs no
\* change of the list.
LEMMA RelistNothing ==
  ASSUME NEW l PROVE Relist(l, Nil, Nil) = l
BY DEF Relist

\* AddToQueue, for the queue the sender has or for a new one.
LEMMA AddToQueueStep ==
  ASSUME IInv, NEW tx \in Tx, NEW q, GoodQueue(From[tx], q),
         ReadyIn(q) = ReadyIn(pool[From[tx]]),
         AddToQueue(q, tx)
  PROVE  /\ PoolGood(pool', txSortedList')
         /\ pool' \in [Addr -> QueueType \cup {Nil}]
         /\ txSortedList' \in ListType
         /\ counters' \in [Tx -> Nat]
         /\ reported' \in SUBSET Tx
<1> DEFINE r == addTx(q, tx)
           a == From[tx]
<1>1. a \in Addr
  BY TxAssumption
<1>2. /\ r.dropped \in BOOLEAN
      /\ r.replacedTx \in Tx \cup {Nil}
      /\ GoodQueue(a, r.queue)
      /\ r.dropped => r.queue = q
      /\ ~r.dropped => ReadyMoves(q, r.queue, r.prevReadyTx, r.newReadyTx)
  BY AddTxGood
<1>3. pool' = [pool EXCEPT ![a] = r.queue]
  BY DEF AddToQueue
<1>4. CASE r.dropped
  <2>1. reported' = {tx} /\ txSortedList' = txSortedList /\ counters' = counters
    BY <1>4 DEF AddToQueue
  <2>2. ReadyMoves(pool[a], q, Nil, Nil)
    BY TxAssumption DEF ReadyMoves, ReadyIn
  <2>3. PoolGood([pool EXCEPT ![a] = q], Relist(txSortedList, Nil, Nil))
    BY <1>1, <2>2, PoolStep DEF IInv
  <2>4. PoolGood(pool', txSortedList')
    BY <1>2, <1>3, <1>4, <2>1, <2>3, RelistNothing
  <2> QED BY <2>1, <2>4 DEF PoolGood, GoodList, IInv, TypeOK
<1>5. CASE ~r.dropped
  <2>1. /\ txSortedList' = Relist(txSortedList, r.prevReadyTx, r.newReadyTx)
        /\ counters' = [counters EXCEPT ![tx] = PoolCounters[tx]]
        /\ reported' = {r.replacedTx} \ {Nil}
    BY <1>5 DEF AddToQueue
  <2>2. ReadyMoves(pool[a], r.queue, r.prevReadyTx, r.newReadyTx)
    BY <1>2, <1>5 DEF ReadyMoves
  <2> HIDE DEF r
  <2>3. PoolGood(pool', txSortedList')
    BY <1>1, <1>2, <1>3, <2>1, <2>2, PoolStep DEF IInv
  <2>4. PoolCounters[tx] \in Nat
    BY WorkerAssumption
  <2> QED BY <1>2, <2>1, <2>3, <2>4 DEF PoolGood, GoodList, IInv, TypeOK
<1> QED BY <1>2, <1>4, <1>5

\* applyAddressUpdate, with a nonce that does not go back.
LEMMA ApplyAddressUpdateStep ==
  ASSUME IInv, NEW a \in Addr, NEW nonce \in Nat \cup {Nil},
         Known(a) /\ nonce # Nil => nonce >= pool[a].currentNonce,
         NEW balance \in Nat \cup {Nil},
         applyAddressUpdate(a, nonce, balance), adding' = adding
  PROVE  /\ PoolGood(pool', txSortedList')
         /\ pool' \in [Addr -> QueueType \cup {Nil}]
         /\ txSortedList' \in ListType
         /\ reported' \in SUBSET Tx
         /\ NewQueueOverwritesNothing'
<1>1. CASE Known(a)
  <2> DEFINE u == updateCurrentNonceBalance(pool[a], nonce, balance)
  <2>1. GoodQueue(a, pool[a])
    BY <1>1 DEF IInv, PoolGood, Known
  <2>2. /\ GoodQueue(a, u.queue)
        /\ ReadyMoves(pool[a], u.queue, u.prevReadyTx, u.newReadyTx)
        /\ u.txsToDelete \in SUBSET Tx
    BY <1>1, <2>1, UpdateGood
  <2>3. /\ pool' = [pool EXCEPT ![a] = u.queue]
        /\ txSortedList' = Relist(txSortedList, u.prevReadyTx, u.newReadyTx)
        /\ reported' = u.txsToDelete
    BY <1>1 DEF applyAddressUpdate
  <2> HIDE DEF u
  <2> QED BY <1>1, <2>2, <2>3, KnownQueueStep
<1>2. CASE ~Known(a)
  BY <1>2 DEF applyAddressUpdate, IInv, TypeOK, NewQueueOverwritesNothing, Known
<1> QED BY <1>1, <1>2

\* The worker that NewWorker returns satisfies the inductive invariant.
LEMMA InitIInv == Init => IInv
<1> SUFFICES ASSUME Init PROVE IInv
  OBVIOUS
<1>1. TypeOK
  <2>1. counters \in [Tx -> Nat]
    BY WorkerAssumption DEF Init
  <2>2. txSortedList \in ListType
    BY DEF Init, ListType
  <2> QED BY <2>1, <2>2 DEF Init, TypeOK
<1>2. GoodList(txSortedList)
  BY DEF Init, GoodList, ListType
<1>3. \A a \in Addr : pool[a] = Nil
  BY DEF Init
<1>4. PoolGood(pool, txSortedList)
  BY <1>1, <1>2, <1>3 DEF PoolGood, ReadyIn, TypeOK, Init
<1>5. NewQueueOverwritesNothing
  BY DEF Init, NewQueueOverwritesNothing
<1> QED BY <1>1, <1>4, <1>5 DEF IInv, Init

\* The mutex is released exactly when the loop has nothing left to visit.
LEMMA HoldsType ==
  ASSUME NEW op \in {"touched", "expire"}, NEW rest \in SUBSET Addr, Holds(op, rest)
  PROVE  /\ holder' \in {"free", "touched", "expire"}
         /\ todo' \in SUBSET Addr
         /\ holder' = "free" <=> todo' = {}
         /\ holder' = "expire" => op = "expire"
BY DEF Holds

\* AddTxTracker keeps the invariant on every one of its paths: refusal, known
\* sender, release of the mutex, new queue, failed read of the state.
LEMMA AddKeepsIInv ==
  ASSUME IInv, AddNext PROVE IInv'
<1>1. ASSUME NEW tx \in Tx, RejectTx(tx) PROVE IInv'
  BY <1>1 DEF RejectTx, IInv, TypeOK, lockVars, NewQueueOverwritesNothing, Known
<1>2. ASSUME NEW tx \in Tx, AddTxTracker(tx) PROVE IInv'
  <2>1. GoodQueue(From[tx], pool[From[tx]])
    BY <1>2, TxAssumption DEF AddTxTracker, IInv, PoolGood, Known
  <2>2. AddToQueue(pool[From[tx]], tx) /\ adding = Nil /\ holder = "free"
        /\ adding' = adding /\ holder' = holder /\ todo' = todo
    BY <1>2 DEF AddTxTracker, lockVars
  <2>3. /\ PoolGood(pool', txSortedList')
        /\ pool' \in [Addr -> QueueType \cup {Nil}]
        /\ txSortedList' \in ListType
        /\ counters' \in [Tx -> Nat]
        /\ reported' \in SUBSET Tx
    BY <2>1, <2>2, AddToQueueStep
  <2> QED BY <2>2, <2>3 DEF IInv, TypeOK, NewQueueOverwritesNothing
<1>3. ASSUME NEW tx \in Tx, AddTxTrackerUnlock(tx) PROVE IInv'
  BY <1>3 DEF AddTxTrackerUnlock, IInv, TypeOK, lockVars,
              NewQueueOverwritesNothing, Known
<1>4. ASSUME NEW n \in Nonces, NEW b \in Balances, AddTxTrackerNewQueue(n, b)
      PROVE  IInv'
  <2> DEFINE tx == adding
             q == newAddrQueue(n, b)
  <2>1. /\ tx \in Tx /\ From[tx] \in Addr
        /\ n \in Nat /\ b \in Nat
        /\ pool[From[tx]] = Nil
    BY <1>4, TxAssumption, WorkerAssumption
       DEF AddTxTrackerNewQueue, IInv, TypeOK, NewQueueOverwritesNothing, Known
  <2>2. AddToQueue(q, tx) /\ adding' = Nil /\ holder = "free"
        /\ holder' = holder /\ todo' = todo
    BY <1>4 DEF AddTxTrackerNewQueue, lockVars
  <2>3. GoodQueue(From[tx], q) /\ ReadyIn(q) = ReadyIn(pool[From[tx]])
    BY <2>1, NewQueueGood DEF ReadyIn
  <2> HIDE DEF q
  <2>4. /\ PoolGood(pool', txSortedList')
        /\ pool' \in [Addr -> QueueType \cup {Nil}]
        /\ txSortedList' \in ListType
        /\ counters' \in [Tx -> Nat]
        /\ reported' \in SUBSET Tx
    BY <2>1, <2>2, <2>3, AddToQueueStep
  <2> QED BY <2>2, <2>4 DEF IInv, TypeOK, NewQueueOverwritesNothing
<1>5. ASSUME AddTxTrackerStateError PROVE IInv'
  BY <1>5 DEF AddTxTrackerStateError, IInv, TypeOK, lockVars,
              NewQueueOverwritesNothing, Known
<1> QED BY <1>1, <1>2, <1>3, <1>4, <1>5 DEF AddNext

\* What the finalizer reports after an execution keeps the invariant, also
\* between two senders of the loop over the touched addresses.
LEMMA UpdateKeepsIInv ==
  ASSUME IInv, UpdateNext PROVE IInv'
<1>0. PICK a \in Addr, b \in Balances \cup {Nil} :
        \/ \E touched \in SUBSET Addr, n \in ReportableNonces(a) :
             UpdateAfterSingleSuccessfulTxExecution(a, touched, n, b)
        \/ UpdateTouchedAddress(a, b)
        \/ \E n \in ReportableNonces(a) : MoveTxToNotReady(a, n, b)
  BY DEF UpdateNext
<1>1. b \in Nat \cup {Nil}
  BY WorkerAssumption
<1>2. \A n \in ReportableNonces(a) :
        /\ n \in Nat \cup {Nil}
        /\ Known(a) /\ n # Nil => n >= pool[a].currentNonce
  BY WorkerAssumption DEF ReportableNonces
<1>3. ASSUME NEW touched \in SUBSET Addr, NEW n \in ReportableNonces(a),
             UpdateAfterSingleSuccessfulTxExecution(a, touched, n, b)
      PROVE  IInv'
  <2>1. /\ counters' = counters /\ adding' = adding
        /\ Holds("touched", touched \ {a})
    BY <1>3 DEF UpdateAfterSingleSuccessfulTxExecution
  <2>2. /\ PoolGood(pool', txSortedList')
        /\ pool' \in [Addr -> QueueType \cup {Nil}]
        /\ txSortedList' \in ListType
        /\ reported' \in SUBSET Tx
        /\ NewQueueOverwritesNothing'
    <3>1. CASE a \in touched
      <4>1. applyAddressUpdate(a, n, b)
        BY <1>3, <3>1 DEF UpdateAfterSingleSuccessfulTxExecution
      <4> QED BY <1>1, <1>2, <2>1, <4>1, ApplyAddressUpdateStep
    <3>2. CASE a \notin touched
      BY <1>3, <3>2 DEF UpdateAfterSingleSuccessfulTxExecution, IInv, TypeOK,
                        NewQueueOverwritesNothing, Known
    <3> QED BY <3>1, <3>2
  <2>3. /\ holder' \in {"free", "touched", "expire"}
        /\ todo' \in SUBSET Addr
        /\ holder' = "free" <=> todo' = {}
        /\ holder' # "expire"
    BY <2>1, HoldsType
  <2> QED BY <2>1, <2>2, <2>3 DEF IInv, TypeOK
<1>4. ASSUME UpdateTouchedAddress(a, b) PROVE IInv'
  <2>1. /\ counters' = counters /\ adding' = adding
        /\ Holds("touched", todo \ {a})
        /\ applyAddressUpdate(a, Nil, b)
    BY <1>4 DEF UpdateTouchedAddress
  <2>2. /\ PoolGood(pool', txSortedList')
        /\ pool' \in [Addr -> QueueType \cup {Nil}]
        /\ txSortedList' \in ListType
        /\ reported' \in SUBSET Tx
        /\ NewQueueOverwritesNothing'
    BY <1>1, <2>1, ApplyAddressUpdateStep
  <2>3. /\ holder' \in {"free", "touched", "expire"}
        /\ todo' \in SUBSET Addr
        /\ holder' = "free" <=> todo' = {}
        /\ holder' # "expire"
    BY <2>1, HoldsType DEF IInv, TypeOK
  <2> QED BY <2>1, <2>2, <2>3 DEF IInv, TypeOK
<1>5. ASSUME NEW n \in ReportableNonces(a), MoveTxToNotReady(a, n, b)
      PROVE  IInv'
  <2>1. /\ counters' = counters /\ adding' = adding
        /\ holder = "free" /\ holder' = holder /\ todo' = todo
        /\ applyAddressUpdate(a, n, b)
    BY <1>5 DEF MoveTxToNotReady, lockVars
  <2>2. /\ PoolGood(pool', txSortedList')
        /\ pool' \in [Addr -> QueueType \cup {Nil}]
        /\ txSortedList' \in ListType
        /\ reported' \in SUBSET Tx
        /\ NewQueueOverwritesNothing'
    BY <1>1, <1>2, <2>1, ApplyAddressUpdateStep
  <2> QED BY <2>1, <2>2 DEF IInv, TypeOK
<1> QED BY <1>0, <1>3, <1>4, <1>5

\* An edit of a queue that leaves the ready and the waiting ones alone.
LEMMA EditQueueStep ==
  ASSUME IInv, NEW a \in Addr, NEW q, q \in QueueType,
         q.readyTx = pool[a].readyTx, q.notReadyTxs = pool[a].notReadyTxs,
         q.currentNonce = pool[a].currentNonce,
         q.currentBalance = pool[a].currentBalance,
         EditQueue(a, q)
  PROVE  IInv'
<1>1. /\ Known(a) /\ holder = "free"
      /\ pool' = [pool EXCEPT ![a] = q]
      /\ reported' = {} /\ txSortedList' = txSortedList /\ counters' = counters
      /\ adding' = adding /\ holder' = holder /\ todo' = todo
  BY DEF EditQueue, lockVars
<1>2. GoodQueue(a, pool[a])
  BY <1>1 DEF IInv, PoolGood, Known
<1>3. GoodQueue(a, q)
  BY <1>2 DEF GoodQueue
<1>4. ReadyMoves(pool[a], q, Nil, Nil)
  <2>1. q # Nil /\ pool[a] # Nil
    BY <1>1, WorkerAssumption DEF Known
  <2> QED BY <2>1, TxAssumption DEF ReadyMoves, ReadyIn
<1>5. txSortedList' = Relist(txSortedList, Nil, Nil)
  BY <1>1, RelistNothing
<1>6. /\ PoolGood(pool', txSortedList')
      /\ pool' \in [Addr -> QueueType \cup {Nil}]
      /\ txSortedList' \in ListType
      /\ NewQueueOverwritesNothing'
  BY <1>1, <1>3, <1>4, <1>5, KnownQueueStep
<1> QED BY <1>1, <1>6 DEF IInv, TypeOK

\* The operations on one transaction keep the invariant.
LEMMA EditKeepsIInv ==
  ASSUME IInv, EditNext PROVE IInv'
<1>0. PICK tx \in Tx :
        \/ DeleteTx(tx, From[tx])
        \/ tx \in ForcedTx /\ AddForcedTx(tx, From[tx])
        \/ tx \in ForcedTx /\ DeleteForcedTx(tx, From[tx])
        \/ Cardinality(PendingTxs) <= MaxPending /\ AddPendingTxToStore(tx, From[tx])
        \/ DeletePendingTxToStore(tx, From[tx])
        \/ tx \in RemeasuredTx /\ \E c \in Counters : UpdateTxZKCounters(tx, From[tx], c)
  BY DEF EditNext
<1> DEFINE a == From[tx]
<1>1. a \in Addr
  BY TxAssumption
<1>2. Known(a) => pool[a] \in QueueType
  BY <1>1 DEF IInv, TypeOK, Known
<1> HIDE DEF a
<1>3. ASSUME DeleteTx(tx, a) PROVE IInv'
  <2> DEFINE q == deleteTx(pool[a], tx)
             prev == IF pool[a].readyTx = tx THEN tx ELSE Nil
  <2>1. /\ Known(a) /\ holder = "free"
        /\ pool' = [pool EXCEPT ![a] = q]
        /\ txSortedList' = Relist(txSortedList, prev, Nil)
        /\ reported' = {tx} /\ counters' = counters
        /\ adding' = adding /\ holder' = holder /\ todo' = todo
    BY <1>3 DEF DeleteTx, lockVars
  <2>2. GoodQueue(a, pool[a])
    BY <1>1, <2>1 DEF IInv, PoolGood, Known
  <2>3. GoodQueue(a, q) /\ ReadyMoves(pool[a], q, prev, Nil)
    BY <1>1, <2>2, DeleteTxGood
  <2> HIDE DEF q, prev
  <2>4. /\ PoolGood(pool', txSortedList')
        /\ pool' \in [Addr -> QueueType \cup {Nil}]
        /\ txSortedList' \in ListType
        /\ NewQueueOverwritesNothing'
    BY <1>1, <2>1, <2>3, KnownQueueStep
  <2> QED BY <2>1, <2>4 DEF IInv, TypeOK
<1>4. ASSUME AddForcedTx(tx, a) PROVE IInv'
  <2>1. Known(a)
    BY <1>4 DEF AddForcedTx, EditQueue
  <2> QED BY <1>1, <1>2, <1>4, <2>1, EditQueueStep
          DEF AddForcedTx, addForcedTx, QueueType
<1>5. ASSUME DeleteForcedTx(tx, a) PROVE IInv'
  <2>1. Known(a)
    BY <1>5 DEF DeleteForcedTx, EditQueue
  <2> QED BY <1>1, <1>2, <1>5, <2>1, EditQueueStep
          DEF DeleteForcedTx, deleteForcedTx, QueueType
<1>6. ASSUME AddPendingTxToStore(tx, a) PROVE IInv'
  <2>1. Known(a)
    BY <1>6 DEF AddPendingTxToStore, EditQueue
  <2> QED BY <1>1, <1>2, <1>6, <2>1, EditQueueStep
          DEF AddPendingTxToStore, addPendingTxToStore, QueueType
<1>7. ASSUME DeletePendingTxToStore(tx, a) PROVE IInv'
  <2>1. Known(a)
    BY <1>7 DEF DeletePendingTxToStore, EditQueue
  <2> QED BY <1>1, <1>2, <1>7, <2>1, EditQueueStep
          DEF DeletePendingTxToStore, deletePendingTxToStore, QueueType
<1>8. ASSUME NEW c \in Counters, UpdateTxZKCounters(tx, a, c) PROVE IInv'
  <2>1. c \in Nat
    BY WorkerAssumption
  <2> QED BY <1>8, <2>1 DEF UpdateTxZKCounters, IInv, TypeOK, lockVars,
                            NewQueueOverwritesNothing, Known
<1> QED BY <1>0, <1>3, <1>4, <1>5, <1>6, <1>7, <1>8 DEF a

\* The expiry keeps the invariant, also between two senders of its loop.
LEMMA ExpireKeepsIInv ==
  ASSUME IInv, ExpireNext PROVE IInv'
<1>1. ASSUME ExpireTransactions PROVE IInv'
  <2>1. /\ Holds("expire", {a \in Addr : Known(a)})
        /\ reported' = {} /\ pool' = pool /\ txSortedList' = txSortedList
        /\ counters' = counters /\ adding' = adding
    BY <1>1 DEF ExpireTransactions
  <2>2. /\ holder' \in {"free", "touched", "expire"}
        /\ todo' \in SUBSET Addr
        /\ holder' = "free" <=> todo' = {}
    BY <2>1, HoldsType
  <2>3. \A a \in todo' : Known(a)'
    BY <2>1 DEF Holds, Known
  <2>4. NewQueueOverwritesNothing'
    BY <2>1 DEF IInv, NewQueueOverwritesNothing, Known
  <2> QED BY <2>1, <2>2, <2>3, <2>4 DEF IInv, TypeOK
<1>2. ASSUME NEW a \in Addr, ExpireAddress(a) PROVE IInv'
  <2>1. /\ holder = "expire" /\ a \in todo /\ Known(a)
        /\ Holds("expire", todo \ {a})
        /\ counters' = counters /\ adding' = adding
    BY <1>2 DEF ExpireAddress, IInv
  <2>2. PICK old \in SUBSET pool[a].notReadyTxs, readyIsOld \in BOOLEAN :
          LET q    == ExpireQueue(pool[a], old, readyIsOld)
              prev == IF readyIsOld THEN pool[a].readyTx ELSE Nil
          IN  /\ pool' = [pool EXCEPT ![a] = IF IsEmpty(q) THEN Nil ELSE q]
              /\ txSortedList' = Relist(txSortedList, prev, Nil)
              /\ reported' = old \cup ({prev} \ {Nil})
    BY <1>2 DEF ExpireAddress
  <2> DEFINE q == ExpireQueue(pool[a], old, readyIsOld)
             prev == IF readyIsOld THEN pool[a].readyTx ELSE Nil
             x == IF IsEmpty(q) THEN Nil ELSE q
  <2>3. GoodQueue(a, pool[a])
    BY <2>1 DEF IInv, PoolGood, Known
  <2>4. GoodQueue(a, q) /\ ReadyMoves(pool[a], q, prev, Nil)
    BY <2>3, ExpireQueueGood
  <2>5. /\ pool' = [pool EXCEPT ![a] = x]
        /\ txSortedList' = Relist(txSortedList, prev, Nil)
        /\ reported' = old \cup ({prev} \ {Nil})
    BY <2>2
  <2>6. reported' \in SUBSET Tx
    <3>1. old \in SUBSET Tx /\ pool[a].readyTx \in Tx \cup {Nil}
      BY <2>3 DEF GoodQueue, QueueType
    <3> QED BY <2>5, <3>1
  <2> HIDE DEF q, prev
  <2>7. (x = Nil \/ GoodQueue(a, x)) /\ ReadyMoves(pool[a], x, prev, Nil)
    <3>1. IsEmpty(q) => ReadyIn(q) = ReadyIn(Nil)
      BY DEF IsEmpty, ReadyIn
    <3> QED BY <2>4, <3>1 DEF ReadyMoves
  <2> HIDE DEF x
  <2>8. /\ PoolGood(pool', txSortedList')
        /\ pool' \in [Addr -> QueueType \cup {Nil}]
        /\ txSortedList' \in ListType
        /\ NewQueueOverwritesNothing'
        /\ \A b \in Addr : b # a => pool'[b] = pool[b]
    BY <2>1, <2>5, <2>7, KnownQueueStep
  <2>9. /\ holder' \in {"free", "touched", "expire"}
        /\ todo' \in SUBSET Addr
        /\ holder' = "free" <=> todo' = {}
    BY <2>1, HoldsType DEF IInv, TypeOK
  <2>10. \A b \in todo' : Known(b)'
    BY <2>1, <2>8 DEF Holds, Known, IInv, TypeOK
  <2> QED BY <2>1, <2>6, <2>8, <2>9, <2>10 DEF IInv, TypeOK
<1> QED BY <1>1, <1>2 DEF ExpireNext

\* The invariant is inductive.
LEMMA NextKeepsIInv == IInv /\ [Next]_vars => IInv'
<1>1. ASSUME IInv, UNCHANGED vars PROVE IInv'
  BY <1>1 DEF vars, IInv, TypeOK, NewQueueOverwritesNothing, Known
<1> QED BY <1>1, AddKeepsIInv, UpdateKeepsIInv, EditKeepsIInv, ExpireKeepsIInv DEF Next

\* The inductive invariant holds in every reachable state of the worker.
LEMMA IInvAlways == Spec => []IInv
BY InitIInv, NextKeepsIInv, PTL DEF Spec

-----------------------------------------------------------------------------
(***************************************************************************)
(* Theorems.                                                               *)
(***************************************************************************)

\* Every reachable state of the worker has the declared types, and its mutex
\* is held exactly while one of the two loops over senders is unfinished.
THEOREM WorkerTypeOK == Spec => []TypeOK
<1>1. IInv => TypeOK
  BY DEF IInv
<1> QED BY <1>1, IInvAlways, PTL

\* A list in step with every queue is the set of what they hold as ready.
LEMMA IInvReady == IInv => ListIsReady
<1> SUFFICES ASSUME IInv PROVE txSortedList.list = ReadyTxs
  BY DEF ListIsReady
<1>1. txSortedList.list \in SUBSET Tx
  BY DEF IInv, PoolGood, GoodList, ListType
<1>2. ASSUME NEW t \in txSortedList.list PROVE t \in ReadyTxs
  <2>1. PICK a \in Addr : t \in ReadyIn(pool[a])
    BY <1>1 DEF IInv, PoolGood
  <2> QED BY <2>1 DEF ReadyTxs, ReadyIn, Known
<1>3. ASSUME NEW t \in ReadyTxs PROVE t \in txSortedList.list
  <2>1. PICK a \in Addr : Known(a) /\ t = pool[a].readyTx /\ t # Nil
    BY DEF ReadyTxs
  <2>2. t \in ReadyIn(pool[a])
    BY <2>1 DEF ReadyIn, Known
  <2>3. t \in Tx
    BY <2>2, ReadyFrom DEF IInv
  <2> QED BY <2>2, <2>3 DEF IInv, PoolGood
<1> QED BY <1>2, <1>3

\* The finalizer can pick exactly the transactions the queues hold as ready,
\* whatever worker operations ran before and in which order.
THEOREM WorkerListIsReady == Spec => []ListIsReady
BY IInvReady, IInvAlways, PTL

\* The slice that the binary searches run on holds every listed transaction
\* once and stays in descending gas price.
THEOREM WorkerSliceSorted == Spec => []SliceIsSorted
<1>1. IInv => SliceIsSorted
  <2> SUFFICES ASSUME IInv PROVE SliceIsSorted
    OBVIOUS
  <2> DEFINE s == txSortedList.sorted
  <2>1. /\ s \in Seq(Tx) /\ txSortedList.list \in SUBSET Tx
        /\ \A t \in Tx : t \in txSortedList.list <=> \E i \in 1..Len(s) : s[i] = t
        /\ \A i, j \in 1..Len(s) : s[i] = s[j] => i = j
        /\ \A i, j \in 1..Len(s) : i < j => GasPrice[s[i]] >= GasPrice[s[j]]
    BY DEF IInv, PoolGood, GoodList, ListType
  <2>2. DOMAIN s = 1..Len(s)
    BY <2>1
  <2>3. ToSet(s) = {s[i] : i \in DOMAIN s}
    BY DEF ToSet
  <2>4. ToSet(s) = txSortedList.list
    BY <2>1, <2>2, <2>3
  <2> QED BY <2>1, <2>2, <2>4 DEF SliceIsSorted
<1> QED BY <1>1, IInvAlways, PTL

\* A queue holds its sender's transactions only.  Its ready transaction has the
\* nonce the queue expects and costs no more than the balance the queue knows;
\* at most one transaction waits per nonce, and none below the expected one.
THEOREM WorkerQueueFollowsNonces == Spec => []QueueFollowsNonces
<1>1. IInv => QueueFollowsNonces
  BY DEF IInv, PoolGood, GoodQueue, QueueFollowsNonces, Held, Known
<1> QED BY <1>1, IInvAlways, PTL

\* The gap AddTxTracker leaves between its two critical sections is safe: no
\* queue of the sender appears in it.
THEOREM WorkerNewQueueOverwritesNothing == Spec => []NewQueueOverwritesNothing
<1>1. IInv => NewQueueOverwritesNothing
  BY DEF IInv
<1> QED BY <1>1, IInvAlways, PTL

\* GetBestFittingTx returns a dearest ready transaction that fits.
THEOREM WorkerBestFitting == Spec => []BestFittingIsBest
<1>1. IInv => BestFittingIsBest
  <2> SUFFICES ASSUME IInv, NEW c \in Counters
               PROVE  LET best == GetBestFittingTx(c)
                          fitting == {t \in ReadyTxs : Fits(t, c)}
                      IN  IF fitting = {} THEN best = Nil
                          ELSE /\ best \in fitting
                               /\ \A t \in fitting : GasPrice[t] <= GasPrice[best]
    BY DEF BestFittingIsBest
  <2> DEFINE s == txSortedList.sorted
             hits == {i \in 1..Len(s) : Fits(s[i], c)}
             fitting == {t \in ReadyTxs : Fits(t, c)}
             best == GetBestFittingTx(c)
  <2>1. /\ s \in Seq(Tx) /\ Len(s) \in Nat
        /\ ReadyTxs \in SUBSET Tx
        /\ \A t \in Tx : t \in ReadyTxs <=> \E i \in 1..Len(s) : s[i] = t
        /\ \A i, j \in 1..Len(s) : i < j => GasPrice[s[i]] >= GasPrice[s[j]]
        /\ \A i \in 1..Len(s) : s[i] \in Tx /\ GasPrice[s[i]] \in Nat
    <3>1. txSortedList.list = ReadyTxs
      BY IInvReady DEF ListIsReady
    <3>2. GoodList(txSortedList)
      BY DEF IInv, PoolGood
    <3>3. s \in Seq(Tx) /\ Len(s) \in Nat /\ ReadyTxs \in SUBSET Tx
      BY <3>1, <3>2 DEF GoodList, ListType
    <3> QED BY <3>1, <3>2, <3>3, TxAssumption DEF GoodList
  <2>2. \A t \in fitting : \E i \in hits : s[i] = t
    BY <2>1
  <2>3. CASE hits = {}
    <3>1. best = Nil
      BY <2>1, <2>3 DEF GetBestFittingTx, Search
    <3> QED BY <2>2, <2>3, <3>1
  <2>4. CASE hits # {}
    <3> DEFINE i == CHOOSE k \in hits : \A j \in hits : k <= j
    <3>1. \E k \in hits : \A j \in hits : k <= j
      BY <2>1, <2>4, LeastIndex
    <3>2. i \in hits /\ \A j \in hits : i <= j
      BY <3>1
    <3>3. best = s[i]
      <4>1. Search(s, LAMBDA t : Fits(t, c)) = i
        BY <2>4 DEF Search
      <4>2. ~(i > Len(s))
        BY <3>2, <2>1
      <4>3. best = IF Search(s, LAMBDA t : Fits(t, c)) > Len(s) THEN Nil
                   ELSE s[Search(s, LAMBDA t : Fits(t, c))]
        BY DEF GetBestFittingTx
      <4> HIDE DEF i, best
      <4> QED BY <4>1, <4>2, <4>3
    <3> HIDE DEF i, best
    <3>4. best \in fitting
      BY <3>2, <3>3, <2>1
    <3>5. ASSUME NEW t \in fitting PROVE GasPrice[t] <= GasPrice[best]
      <4>1. PICK j \in hits : s[j] = t
        BY <2>2
      <4>2. i < j \/ i = j
        BY <2>1, <3>2, <4>1
      <4> QED BY <2>1, <3>2, <3>3, <4>1, <4>2
    <3> QED BY <3>4, <3>5 DEF best
  <2> QED BY <2>3, <2>4
<1> QED BY <1>1, IInvAlways, PTL

-----------------------------------------------------------------------------
(***************************************************************************)
(* What becomes of the transactions a queue holds.                         *)
(***************************************************************************)
Holding(q) == q.notReadyTxs \cup ({q.readyTx} \ {Nil})

\* When entry x becomes y, every transaction of x is among rep, stays, or has
\* a nonce the queue has reached.
Keeps(x, y, rep) ==
  \A t \in Holding(x) :
    \/ t \in rep
    \/ y # Nil /\ t \in Holding(y)
    \/ y # Nil /\ Nonce[t] <= y.currentNonce

\* addTx loses only what it reports as replaced and what the nonce has reached.
LEMMA AddTxKeeps ==
  ASSUME NEW tx \in Tx, NEW q, GoodQueue(From[tx], q)
  PROVE  LET r == addTx(q, tx)
         IN  ~r.dropped => Keeps(q, r.queue, {r.replacedTx} \ {Nil})
<1> DEFINE r == addTx(q, tx)
<1> SUFFICES ASSUME ~r.dropped PROVE Keeps(q, r.queue, {r.replacedTx} \ {Nil})
  OBVIOUS
<1>0. /\ q.currentNonce \in Nat /\ q.currentBalance \in Nat
      /\ q.readyTx \in Tx \cup {Nil} /\ q.notReadyTxs \in SUBSET Tx
      /\ \A t \in Tx : Nonce[t] \in Nat
      /\ Nil \notin Tx
      /\ \A t, u \in q.notReadyTxs : Nonce[t] = Nonce[u] => t = u
      /\ q.readyTx # Nil => Nonce[q.readyTx] = q.currentNonce
  BY TxAssumption DEF GoodQueue, QueueType
<1>1. r.queue # Nil
  BY AddTxGood, WorkerAssumption DEF GoodQueue
<1>2. Nonce[tx] >= q.currentNonce
  <2> SUFFICES ASSUME Nonce[tx] < q.currentNonce PROVE FALSE
    BY <1>0
  <2>1. Nonce[tx] # q.currentNonce
    BY <1>0
  <2>2. r = AddTxResult(q, Nil, Nil, Nil, TRUE)
    BY <2>1, Zenon DEF addTx
  <2> HIDE DEF r
  <2> QED BY <2>2 DEF AddTxResult
<1>3. CASE Nonce[tx] = q.currentNonce
  <2>1. r = addTxAtCurrentNonce(q, tx)
    BY <1>3, Zenon DEF addTx
  <2>2. /\ r.queue.currentNonce = q.currentNonce
        /\ \A t \in q.notReadyTxs : t \in r.queue.notReadyTxs \/ Nonce[t] = Nonce[tx]
    BY <1>0, <2>1 DEF addTxAtCurrentNonce, AddTxResult, PutNotReady, GoodQueue, QueueType
  <2> HIDE DEF r
  <2> QED BY <1>0, <1>1, <1>3, <2>2 DEF Keeps, Holding
<1>4. CASE Nonce[tx] > q.currentNonce
  <2> DEFINE here == NotReadyAt(q, Nonce[tx])
             old == IF here = {} THEN Nil ELSE CHOOSE t \in here : TRUE
             rep == Replaced(old, tx)
             wait == [q EXCEPT !.notReadyTxs = PutNotReady(q.notReadyTxs, tx)]
  <2>1. r = AddTxResult(wait, Nil, Nil, rep, FALSE)
    <3>1. r = addTxAtFutureNonce(q, tx)
      <4>1. Nonce[tx] # q.currentNonce /\ ~(Nonce[tx] < q.currentNonce)
        BY <1>0, <1>4
      <4> QED BY <4>1, Zenon DEF addTx
    <3>2. \/ r = AddTxResult(q, Nil, Nil, Nil, TRUE)
          \/ r = AddTxResult(wait, Nil, Nil, rep, FALSE)
      BY <3>1 DEF addTxAtFutureNonce
    <3>3. AddTxResult(q, Nil, Nil, Nil, TRUE).dropped
      BY Zenon DEF AddTxResult
    <3> HIDE DEF r, rep, wait
    <3> QED BY <3>2, <3>3
  <2>2. /\ wait.readyTx = q.readyTx
        /\ wait.notReadyTxs = PutNotReady(q.notReadyTxs, tx)
    BY <1>0 DEF GoodQueue, QueueType
  <2>3. \A t \in q.notReadyTxs : Nonce[t] = Nonce[tx] => t = rep \/ t = tx
    <3> SUFFICES ASSUME NEW t \in q.notReadyTxs, Nonce[t] = Nonce[tx]
                 PROVE  t = rep \/ t = tx
      OBVIOUS
    <3>1. t \in here /\ \A u \in here : u = t
      BY <1>0 DEF NotReadyAt
    <3> HIDE DEF here
    <3>2. old = t
      BY <3>1
    <3> QED BY <3>2 DEF Replaced
  <2> HIDE DEF r, wait, rep
  <2>4. r.queue = wait /\ r.replacedTx = rep
    BY <2>1 DEF AddTxResult
  <2> QED BY <1>0, <1>1, <2>2, <2>3, <2>4 DEF Keeps, Holding, PutNotReady
<1> QED BY <1>0, <1>2, <1>3, <1>4

\* updateCurrentNonceBalance reports what the nonce has passed and loses only
\* what it has reached.
LEMMA UpdateKeeps ==
  ASSUME NEW a \in Addr, NEW q, GoodQueue(a, q),
         NEW nonce \in Nat \cup {Nil}, nonce # Nil => nonce >= q.currentNonce,
         NEW balance \in Nat \cup {Nil}
  PROVE  LET u == updateCurrentNonceBalance(q, nonce, balance)
         IN  Keeps(q, u.queue, u.txsToDelete)
<1> DEFINE bal     == IF balance = Nil THEN q.currentBalance ELSE balance
           cur     == IF nonce = Nil THEN q.currentNonce ELSE nonce
           passed  == IF cur = q.currentNonce THEN {}
                      ELSE {t \in q.notReadyTxs : Nonce[t] < cur}
           waiting == q.notReadyTxs \ passed
           keep    == /\ q.readyTx # Nil
                      /\ Nonce[q.readyTx] = cur
                      /\ Cost[q.readyTx] <= bal
           old     == IF keep THEN Nil ELSE q.readyTx
           promote == {t \in waiting : ~keep /\ Nonce[t] = cur /\ Cost[t] <= bal}
           ready   == IF keep THEN q.readyTx
                      ELSE IF promote = {} THEN Nil
                      ELSE CHOOSE t \in promote : TRUE
           rest    == waiting \ promote
           kept    == IF old # Nil /\ Nonce[old] > cur
                      THEN PutNotReady(rest, old) ELSE rest
           u       == updateCurrentNonceBalance(q, nonce, balance)
           new     == [q EXCEPT !.currentNonce = cur, !.currentBalance = bal,
                                !.readyTx = ready, !.notReadyTxs = kept]
<1> SUFFICES Keeps(q, u.queue, u.txsToDelete)
  OBVIOUS
<1>1. u = [queue |-> new, newReadyTx |-> ready, prevReadyTx |-> old,
           txsToDelete |-> passed]
  BY DEF updateCurrentNonceBalance
<1>2. /\ q.currentNonce \in Nat /\ q.notReadyTxs \in SUBSET Tx
      /\ q.readyTx \in Tx \cup {Nil} /\ Nil \notin Tx
      /\ \A t \in Tx : Nonce[t] \in Nat
      /\ q.readyTx # Nil => Nonce[q.readyTx] = q.currentNonce
  BY TxAssumption DEF GoodQueue, QueueType
<1>3. cur \in Nat /\ cur >= q.currentNonce
  BY <1>2
<1>4. u.queue # Nil
  BY UpdateGood, WorkerAssumption DEF GoodQueue
<1>5. new.currentNonce = cur /\ new.notReadyTxs = kept
  BY DEF GoodQueue, QueueType
<1> HIDE DEF u, bal, cur, new
<1>6. \A t \in promote : Nonce[t] = cur
  OBVIOUS
<1>7. kept = rest
  \* the old ready transaction was at the previous nonce, so not above cur
  BY <1>2, <1>3
<1> HIDE DEF promote, keep, old, kept, ready
<1>8. \A t \in q.notReadyTxs : t \in passed \/ t \in kept \/ Nonce[t] = cur
  BY <1>6, <1>7
<1> HIDE DEF passed, rest, waiting
<1>9. \A t \in Holding(q) : t \in passed \/ t \in kept \/ Nonce[t] <= cur
  BY <1>2, <1>3, <1>8 DEF Holding
<1> QED BY <1>1, <1>4, <1>5, <1>9 DEF Keeps, Holding

\* A step that changes one queue, reports what that queue loses and leaves the
\* others as they are.
LEMMA OneQueueKeeps ==
  ASSUME IInv, IInv', NEW a \in Addr, NEW y, pool' = [pool EXCEPT ![a] = y],
         Known(a) => Keeps(pool[a], y, reported')
  PROVE  KeepsFutureTxs
<1>1. \A b \in Addr : pool'[b] = IF b = a THEN y ELSE pool[b]
  BY DEF IInv, TypeOK
<1> QED BY <1>1 DEF KeepsFutureTxs, Keeps, Holding, Held, Known

\* A step that changes no queue loses nothing.
LEMMA SameQueuesKeep ==
  ASSUME pool' = pool PROVE KeepsFutureTxs
BY DEF KeepsFutureTxs, Held, Known

\* AddToQueue on the sender's queue, or on a new one where there was none.
LEMMA AddToQueueKeeps ==
  ASSUME IInv, IInv', NEW tx \in Tx, NEW q, AddToQueue(q, tx),
         GoodQueue(From[tx], q), Known(From[tx]) => q = pool[From[tx]]
  PROVE  KeepsFutureTxs
<1> DEFINE r == addTx(q, tx)
<1>1. /\ r.dropped \in BOOLEAN /\ (r.dropped => r.queue = q)
      /\ r.queue # Nil
      /\ ~r.dropped => Keeps(q, r.queue, {r.replacedTx} \ {Nil})
  BY AddTxGood, AddTxKeeps, WorkerAssumption DEF GoodQueue
<1>2. /\ pool' = [pool EXCEPT ![From[tx]] = r.queue]
      /\ ~r.dropped => reported' = {r.replacedTx} \ {Nil}
  BY DEF AddToQueue
<1>3. From[tx] \in Addr
  BY TxAssumption
<1> HIDE DEF r
<1>4. Known(From[tx]) => Keeps(pool[From[tx]], r.queue, reported')
  BY <1>1, <1>2 DEF Keeps
<1> QED BY <1>2, <1>3, <1>4, OneQueueKeeps

\* applyAddressUpdate, with a nonce that does not go back.
LEMMA ApplyAddressUpdateKeeps ==
  ASSUME IInv, IInv', NEW a \in Addr, NEW nonce \in Nat \cup {Nil},
         Known(a) /\ nonce # Nil => nonce >= pool[a].currentNonce,
         NEW balance \in Nat \cup {Nil},
         applyAddressUpdate(a, nonce, balance)
  PROVE  KeepsFutureTxs
<1>1. CASE Known(a)
  <2> DEFINE u == updateCurrentNonceBalance(pool[a], nonce, balance)
  <2>1. GoodQueue(a, pool[a])
    BY <1>1 DEF IInv, PoolGood, Known
  <2>2. Keeps(pool[a], u.queue, u.txsToDelete)
    BY <1>1, <2>1, UpdateKeeps
  <2>3. pool' = [pool EXCEPT ![a] = u.queue] /\ reported' = u.txsToDelete
    BY <1>1 DEF applyAddressUpdate
  <2> HIDE DEF u
  <2> QED BY <2>2, <2>3, OneQueueKeeps
<1>2. CASE ~Known(a)
  BY <1>2, SameQueuesKeep DEF applyAddressUpdate
<1> QED BY <1>1, <1>2

\* AddTxTracker loses nothing that waits for a future nonce, on any path.
LEMMA AddKeepsFuture ==
  ASSUME IInv, IInv', AddNext PROVE KeepsFutureTxs
<1>1. ASSUME NEW tx \in Tx, AddTxTracker(tx) PROVE KeepsFutureTxs
  <2>1. GoodQueue(From[tx], pool[From[tx]])
    BY <1>1, TxAssumption DEF AddTxTracker, IInv, PoolGood, Known
  <2> QED BY <1>1, <2>1, AddToQueueKeeps DEF AddTxTracker
<1>2. ASSUME NEW n \in Nonces, NEW b \in Balances, AddTxTrackerNewQueue(n, b)
      PROVE  KeepsFutureTxs
  <2> DEFINE q == newAddrQueue(n, b)
  <2>1. /\ adding \in Tx /\ From[adding] \in Addr
        /\ n \in Nat /\ b \in Nat
        /\ ~Known(From[adding])
    BY <1>2, TxAssumption, WorkerAssumption
       DEF AddTxTrackerNewQueue, IInv, TypeOK, NewQueueOverwritesNothing
  <2>2. GoodQueue(From[adding], q) /\ AddToQueue(q, adding)
    BY <1>2, <2>1, NewQueueGood DEF AddTxTrackerNewQueue
  <2> HIDE DEF q
  <2> QED BY <2>1, <2>2, AddToQueueKeeps
<1>3. ASSUME NEW tx \in Tx, RejectTx(tx) \/ AddTxTrackerUnlock(tx) PROVE KeepsFutureTxs
  BY <1>3, SameQueuesKeep DEF RejectTx, AddTxTrackerUnlock
<1>4. ASSUME AddTxTrackerStateError PROVE KeepsFutureTxs
  BY <1>4, SameQueuesKeep DEF AddTxTrackerStateError
<1> QED BY <1>1, <1>2, <1>3, <1>4 DEF AddNext

\* Nor do the updates after an execution.
LEMMA UpdateKeepsFuture ==
  ASSUME IInv, IInv', UpdateNext PROVE KeepsFutureTxs
<1>0. PICK a \in Addr, b \in Balances \cup {Nil} :
        \/ \E touched \in SUBSET Addr, n \in ReportableNonces(a) :
             UpdateAfterSingleSuccessfulTxExecution(a, touched, n, b)
        \/ UpdateTouchedAddress(a, b)
        \/ \E n \in ReportableNonces(a) : MoveTxToNotReady(a, n, b)
  BY DEF UpdateNext
<1>1. b \in Nat \cup {Nil}
  BY WorkerAssumption
<1>2. \A n \in ReportableNonces(a) :
        /\ n \in Nat \cup {Nil}
        /\ Known(a) /\ n # Nil => n >= pool[a].currentNonce
  BY WorkerAssumption DEF ReportableNonces
<1>3. ASSUME NEW touched \in SUBSET Addr, NEW n \in ReportableNonces(a),
             UpdateAfterSingleSuccessfulTxExecution(a, touched, n, b)
      PROVE  KeepsFutureTxs
  <2>1. CASE a \in touched
    <3>1. applyAddressUpdate(a, n, b)
      BY <1>3, <2>1 DEF UpdateAfterSingleSuccessfulTxExecution
    <3> QED BY <1>1, <1>2, <3>1, ApplyAddressUpdateKeeps
  <2>2. CASE a \notin touched
    BY <1>3, <2>2, SameQueuesKeep DEF UpdateAfterSingleSuccessfulTxExecution
  <2> QED BY <2>1, <2>2
<1>4. ASSUME UpdateTouchedAddress(a, b) PROVE KeepsFutureTxs
  BY <1>1, <1>4, ApplyAddressUpdateKeeps DEF UpdateTouchedAddress
<1>5. ASSUME NEW n \in ReportableNonces(a), MoveTxToNotReady(a, n, b)
      PROVE  KeepsFutureTxs
  BY <1>1, <1>2, <1>5, ApplyAddressUpdateKeeps DEF MoveTxToNotReady
<1> QED BY <1>0, <1>3, <1>4, <1>5

\* An edit of forced or pending hashes leaves what the queue holds.
LEMMA EditQueueKeeps ==
  ASSUME IInv, IInv', NEW a \in Addr, NEW q, q \in QueueType,
         q.readyTx = pool[a].readyTx, q.notReadyTxs = pool[a].notReadyTxs,
         EditQueue(a, q)
  PROVE  KeepsFutureTxs
<1>1. q # Nil /\ pool' = [pool EXCEPT ![a] = q]
  BY WorkerAssumption DEF EditQueue
<1>2. Keeps(pool[a], q, reported')
  BY <1>1 DEF Keeps, Holding
<1> QED BY <1>1, <1>2, OneQueueKeeps

\* Nor do the operations on one transaction: deleteTx reports what it deletes.
LEMMA EditKeepsFuture ==
  ASSUME IInv, IInv', EditNext PROVE KeepsFutureTxs
<1>0. PICK tx \in Tx :
        \/ DeleteTx(tx, From[tx])
        \/ AddForcedTx(tx, From[tx])
        \/ DeleteForcedTx(tx, From[tx])
        \/ AddPendingTxToStore(tx, From[tx])
        \/ DeletePendingTxToStore(tx, From[tx])
        \/ \E c \in Counters : UpdateTxZKCounters(tx, From[tx], c)
  BY DEF EditNext
<1> DEFINE a == From[tx]
<1>1. a \in Addr
  BY TxAssumption
<1>2. Known(a) => pool[a] \in QueueType
  BY <1>1 DEF IInv, TypeOK, Known
<1> HIDE DEF a
<1>3. ASSUME DeleteTx(tx, a) PROVE KeepsFutureTxs
  <2> DEFINE q == deleteTx(pool[a], tx)
  <2>1. Known(a) /\ pool' = [pool EXCEPT ![a] = q] /\ reported' = {tx}
    BY <1>3 DEF DeleteTx
  <2>2. GoodQueue(a, pool[a])
    BY <1>1, <2>1 DEF IInv, PoolGood, Known
  <2>3. q # Nil
    BY <1>1, <2>2, DeleteTxGood, WorkerAssumption DEF GoodQueue
  <2>4. Holding(pool[a]) \subseteq Holding(q) \cup {tx}
    BY <1>2, <2>1 DEF Holding, deleteTx, QueueType
  <2> HIDE DEF q
  <2>5. Keeps(pool[a], q, reported')
    BY <2>1, <2>3, <2>4 DEF Keeps
  <2> QED BY <1>1, <2>1, <2>5, OneQueueKeeps
<1>4. ASSUME AddForcedTx(tx, a) PROVE KeepsFutureTxs
  <2>1. Known(a)
    BY <1>4 DEF AddForcedTx, EditQueue
  <2> QED BY <1>1, <1>2, <1>4, <2>1, EditQueueKeeps
          DEF AddForcedTx, addForcedTx, QueueType
<1>5. ASSUME DeleteForcedTx(tx, a) PROVE KeepsFutureTxs
  <2>1. Known(a)
    BY <1>5 DEF DeleteForcedTx, EditQueue
  <2> QED BY <1>1, <1>2, <1>5, <2>1, EditQueueKeeps
          DEF DeleteForcedTx, deleteForcedTx, QueueType
<1>6. ASSUME AddPendingTxToStore(tx, a) PROVE KeepsFutureTxs
  <2>1. Known(a)
    BY <1>6 DEF AddPendingTxToStore, EditQueue
  <2> QED BY <1>1, <1>2, <1>6, <2>1, EditQueueKeeps
          DEF AddPendingTxToStore, addPendingTxToStore, QueueType
<1>7. ASSUME DeletePendingTxToStore(tx, a) PROVE KeepsFutureTxs
  <2>1. Known(a)
    BY <1>7 DEF DeletePendingTxToStore, EditQueue
  <2> QED BY <1>1, <1>2, <1>7, <2>1, EditQueueKeeps
          DEF DeletePendingTxToStore, deletePendingTxToStore, QueueType
<1>8. ASSUME NEW c \in Counters, UpdateTxZKCounters(tx, a, c) PROVE KeepsFutureTxs
  BY <1>8, SameQueuesKeep DEF UpdateTxZKCounters
<1> QED BY <1>0, <1>3, <1>4, <1>5, <1>6, <1>7, <1>8 DEF a

\* Nor does the expiry: it reports what is old and drops only empty queues.
LEMMA ExpireKeepsFuture ==
  ASSUME IInv, IInv', ExpireNext PROVE KeepsFutureTxs
<1>1. ASSUME ExpireTransactions PROVE KeepsFutureTxs
  BY <1>1, SameQueuesKeep DEF ExpireTransactions
<1>2. ASSUME NEW a \in Addr, ExpireAddress(a) PROVE KeepsFutureTxs
  <2>1. PICK old \in SUBSET pool[a].notReadyTxs, readyIsOld \in BOOLEAN :
          LET q    == ExpireQueue(pool[a], old, readyIsOld)
              prev == IF readyIsOld THEN pool[a].readyTx ELSE Nil
          IN  /\ pool' = [pool EXCEPT ![a] = IF IsEmpty(q) THEN Nil ELSE q]
              /\ reported' = old \cup ({prev} \ {Nil})
    BY <1>2 DEF ExpireAddress
  <2> DEFINE q == ExpireQueue(pool[a], old, readyIsOld)
             prev == IF readyIsOld THEN pool[a].readyTx ELSE Nil
             x == IF IsEmpty(q) THEN Nil ELSE q
  <2>2. Known(a) /\ GoodQueue(a, pool[a])
    BY <1>2 DEF ExpireAddress, IInv, PoolGood, Known
  <2>3. q # Nil
    BY <2>2, ExpireQueueGood, WorkerAssumption DEF GoodQueue
  <2>4. Holding(pool[a]) \subseteq Holding(q) \cup (old \cup ({prev} \ {Nil}))
    BY <2>2 DEF GoodQueue, Holding, ExpireQueue, QueueType
  <2>5. IsEmpty(q) => Holding(q) = {}
    BY DEF IsEmpty, Holding
  <2>6. pool' = [pool EXCEPT ![a] = x] /\ reported' = old \cup ({prev} \ {Nil})
    BY <2>1
  <2> HIDE DEF q, prev
  <2>7. Keeps(pool[a], x, reported')
    BY <2>3, <2>4, <2>5, <2>6 DEF Keeps
  <2> QED BY <2>6, <2>7, OneQueueKeeps
<1> QED BY <1>1, <1>2 DEF ExpireNext

\* No operation of the worker makes a transaction disappear that waits for a
\* nonce its sender has not reached: it stays in its queue or is handed to the
\* caller, who marks it in the pool.
THEOREM WorkerKeepsFutureTxs == Spec => FutureTxsAreKept
<1>1. IInv /\ IInv' /\ [Next]_vars => [KeepsFutureTxs]_vars
  BY AddKeepsFuture, UpdateKeepsFuture, EditKeepsFuture, ExpireKeepsFuture DEF Next
<1> QED BY <1>1, IInvAlways, PTL DEF Spec, FutureTxsAreKept
=============================================================================

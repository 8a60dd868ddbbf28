--------------------------- MODULE FinalizerProofs ---------------------------
(***************************************************************************)
(* Proofs about the life cycle of batches, for any number of transactions, *)
(* forced batches, GERs and faults, any resources and limits.              *)
(***************************************************************************)
EXTENDS Finalizer, FiniteSetTheorems, SequenceTheorems, NaturalsInduction,
        WellFoundedInduction, TLAPS

-----------------------------------------------------------------------------
(***************************************************************************)
(* The inductive invariant, in parts.                                      *)
(***************************************************************************)
\* The table of batches: all but the last are closed, forced batches are, and
\* no batch without a number of a forced one has anything but transactions of
\* the pool.
Rows(d) ==
  /\ d \in Seq(Row) /\ Len(d) >= 2 /\ d[1].forced = 0
  /\ \A i \in 1..Len(d) : i < Len(d) => d[i].closed
  /\ \A i \in 1..Len(d) : d[i].forced # 0 => d[i].closed
  /\ \A i \in 1..Len(d) : d[i].forced = 0 => d[i].l2data \in Seq(Txs)

Limited(d) == \A i \in 1..Len(d) : d[i].forced = 0 => SumCost(d[i].l2data) <= MaxResources

Reproduces(d) ==
  \A i \in 2..Len(d) :
    d[i].closed => d[i].root = Exec(d[i - 1].root, d[i].ger, d[i].l2data)

\* The forced batches up to the one of number m are in the table, in order.
Numbered(d, m) ==
  /\ {d[i].forced : i \in 1..Len(d)} = 0..m
  /\ \A j \in 1..Len(d) : d[j].forced # 0 =>
       {d[i].forced : i \in 1..(j - 1)} = 0..(d[j].forced - 1)

\* The transactions of the last batch of d: the stored ones, and those of q
\* from f + 1 on.
All(d, q, f) == d[Len(d)].l2data \o [i \in 1..(Len(q) - f) |-> q[f + i].tx]

Upto(s, n) == [i \in 1..n |-> s[i]]

\* The first f that wait to be stored are of forced batches, the others of the
\* open one.
Split(d, q, f) ==
  /\ f \in 0..Len(q)
  /\ \A i \in 1..Len(q) :
       IF i > f THEN q[i].tx \in Txs /\ q[i].n = Len(d) - 1
       ELSE q[i].tx \notin Txs /\ q[i].n < Len(d) - 1

\* b is the open batch of d: what was executed is what is stored and what
\* waits, and every root on the way is that of the transactions up to it.  lb
\* is the root of the last block.
Working(b, d, q, lb, f) ==
  /\ b.n = Len(d) - 1 /\ b.ger = d[Len(d)].ger /\ b.initial = d[Len(d) - 1].root
  /\ Split(d, q, f)
  /\ d[Len(d)].l2data # <<>> => f = 0 /\ lb = Exec(b.initial, b.ger, d[Len(d)].l2data)
  /\ b.count = Len(All(d, q, f))
  /\ b.root = IF b.count = 0 THEN b.initial ELSE Exec(b.initial, b.ger, All(d, q, f))
  /\ \A i \in 1..(Len(q) - f) :
       q[f + i].root = Exec(b.initial, b.ger, Upto(All(d, q, f), Len(d[Len(d)].l2data) + i))
  /\ b.remaining + SumCost(All(d, q, f)) <= MaxResources

\* s has every transaction once, none that still waits and no forced one above m.
Fresh(s, p, m) ==
  /\ IsInjective(s)
  /\ \A i \in DOMAIN s : s[i] \notin p /\ s[i] <= NumTxs + m

\* The state root after everything that was executed.
Tip == IF db[Len(db)].closed THEN db[Len(db)].root ELSE fin.batch.root

OnlyForced == \A i \in 1..Len(queue) : queue[i].tx \notin Txs /\ queue[i].n < Len(db)

\* A batch is open while the finalizer fills it; between two batches only
\* transactions of forced ones wait.
InStep ==
  /\ fin.pc \in {"pick", "check", "close"} => ~db[Len(db)].closed
  /\ fin.pc \in {"forced", "open"} => db[Len(db)].closed
  /\ IF db[Len(db)].closed THEN OnlyForced
     ELSE \E f \in 0..Len(queue) : Working(fin.batch, db, queue, lastBlock, f)

\* What the closing signals manager hands over is on L1.
Signalled == signals.forced \subseteq 1..Len(forced) /\ sent.forced <= Len(forced)

Injective(d) == \A i \in 1..Len(d) : d[i].closed => IsInjective(d[i].root.txs)

Table(d) == Rows(d) /\ Limited(d) /\ Reproduces(d) /\ Injective(d)

Once == \E m \in 0..Len(forced) : Numbered(db, m) /\ Fresh(Tip.txs, pool, m)

IInv ==
  /\ TypeOK /\ Table(db) /\ Once /\ InStep /\ Signalled /\ NoNeedlessHalt

-----------------------------------------------------------------------------
(***************************************************************************)
(* Roots, sequences and sums.                                              *)
(***************************************************************************)
\* What is known of the constants.
LEMMA ConstantFacts ==
  /\ NumTxs \in Nat /\ MaxForced \in Nat /\ MaxResources \in Nat /\ MaxGer \in Nat
  /\ EarlyGer \in Gers /\ MaxFaults \in Nat /\ 0 \in Gers
  /\ Txs \subseteq AllTxs /\ Txs = 1..NumTxs
  /\ \A t \in Txs : Cost[t] \in 1..MaxResources
BY FinalizerAssumption DEF Txs, AllTxs, Gers

\* Roots, and when two are the same.
LEMMA RootFacts ==
  /\ NoRoot \in Root
  /\ \A r \in Root : r.gers \in SUBSET (1..MaxGer) /\ r.txs \in Seq(AllTxs)
  /\ \A r \in Root, q \in Root : r.gers = q.gers /\ r.txs = q.txs => r = q
BY DEF Root, NoRoot

\* What the executor returns.
LEMMA ExecFacts ==
  ASSUME NEW r \in Root, NEW g \in Gers, NEW s \in Seq(AllTxs)
  PROVE  /\ Exec(r, g, s) \in Root
         /\ Exec(r, g, s).gers = r.gers \cup ({g} \ {0})
         /\ Exec(r, g, s).txs = r.txs \o s
<1>1. r.gers \in SUBSET (1..MaxGer) /\ r.txs \in Seq(AllTxs)
  BY RootFacts
<1>2. r.txs \o s \in Seq(AllTxs)
  BY <1>1, ConcatProperties
<1>3. r.gers \cup ({g} \ {0}) \in SUBSET (1..MaxGer)
  BY <1>1, ConstantFacts DEF Gers
<1> QED BY <1>2, <1>3 DEF Exec, Root

\* A transaction more.
LEMMA ExecMore ==
  ASSUME NEW r \in Root, NEW g \in Gers, NEW s \in Seq(AllTxs), NEW t \in AllTxs
  PROVE  /\ Exec(Exec(r, g, s), 0, <<t>>) = Exec(r, g, Append(s, t))
         /\ Exec(Exec(r, g, s), g, <<t>>) = Exec(r, g, Append(s, t))
<1> DEFINE e == Exec(r, g, s)
           a == Exec(r, g, Append(s, t))
           one == <<t>>
<1>1. /\ 0 \in Gers /\ one \in Seq(AllTxs) /\ Append(s, t) \in Seq(AllTxs)
      /\ r.txs \in Seq(AllTxs)
  BY ConstantFacts, RootFacts
<1>2. e \in Root /\ e.gers = r.gers \cup ({g} \ {0}) /\ e.txs = r.txs \o s
  BY ExecFacts
<1>3. a \in Root /\ a.gers = r.gers \cup ({g} \ {0}) /\ a.txs = r.txs \o Append(s, t)
  BY <1>1, ExecFacts
<1>4. Append(s, t) = s \o one
  BY AppendIsConcat
<1> HIDE DEF e, a, one
<1>5. (r.txs \o s) \o one = r.txs \o (s \o one)
  <2>1. \A x, y, z \in Seq(AllTxs) : (x \o y) \o z = x \o (y \o z)
    BY ConcatAssociative
  <2> QED BY <1>1, <2>1, Zenon
<1>6. ASSUME NEW h \in Gers, h = 0 \/ h = g PROVE Exec(e, h, one) = a
  <2> DEFINE x == Exec(e, h, one)
  <2>1. x \in Root /\ x.gers = e.gers \cup ({h} \ {0}) /\ x.txs = e.txs \o one
    <3>1. \A y \in Root, k \in Gers, z \in Seq(AllTxs) :
            /\ Exec(y, k, z) \in Root
            /\ Exec(y, k, z).gers = y.gers \cup ({k} \ {0})
            /\ Exec(y, k, z).txs = y.txs \o z
      BY ExecFacts
    <3>2. e \in Root /\ one \in Seq(AllTxs)
      BY <1>1, <1>2
    <3> QED BY <3>1, <3>2, Zenon
  <2> HIDE DEF x
  <2>2. x.gers = a.gers
    BY <1>2, <1>3, <1>6, <2>1
  <2>3. x.txs = a.txs
    BY <1>2, <1>3, <1>4, <1>5, <2>1
  <2>4. x = a
    BY <1>3, <2>1, <2>2, <2>3, RootFacts
  <2> QED BY <2>4 DEF x
<1> QED BY <1>1, <1>6 DEF e, a, one

\* The first transaction.
LEMMA ExecFirst ==
  ASSUME NEW r \in Root, NEW g \in Gers, NEW t \in AllTxs
  PROVE  Exec(r, g, <<t>>) = Exec(r, g, Append(<<>>, t))
OBVIOUS

-----------------------------------------------------------------------------
\* The resources that transactions use are a number.
LEMMA UnitsFinite ==
  ASSUME NEW s \in Seq(Txs)
  PROVE  IsFiniteSet(Units(s)) /\ SumCost(s) \in Nat
<1>1. DOMAIN s = 1..Len(s) /\ Len(s) \in Nat /\ MaxResources \in Nat
  BY ConstantFacts
<1>2. \A n \in Nat : IsFiniteSet(1..n)
  BY FS_Interval
<1> DEFINE U == (1..Len(s)) \X (1..MaxResources)
<1>3. IsFiniteSet(U)
  BY <1>1, <1>2, FS_Product
<1>4. Units(s) \subseteq U
  BY <1>1 DEF Units
<1> HIDE DEF U
<1>5. IsFiniteSet(Units(s))
  BY <1>3, <1>4, FS_Subset
<1> QED BY <1>5, FS_CardinalityType DEF SumCost

\* No transactions use nothing.
LEMMA SumNothing == SumCost(<<>>) = 0
<1>1. Units(<<>>) = {}
  BY DEF Units
<1> QED BY <1>1, FS_EmptySet DEF SumCost

\* A transaction more uses as much more.
LEMMA SumMore ==
  ASSUME NEW s \in Seq(Txs), NEW t \in Txs
  PROVE  SumCost(Append(s, t)) = SumCost(s) + Cost[t]
<1> DEFINE a == Append(s, t)
           L == Len(s)
           R == {L + 1} \X (1..Cost[t])
<1>1. /\ L \in Nat /\ DOMAIN s = 1..L /\ DOMAIN a = 1..(L + 1) /\ a[L + 1] = t
      /\ \A i \in 1..L : a[i] = s[i]
      /\ Cost[t] \in 1..MaxResources /\ MaxResources \in Nat
      /\ \A i \in 1..L : Cost[s[i]] \in Nat
  BY ConstantFacts
<1> HIDE DEF a, L
<1>2. Units(a) = Units(s) \cup R
  <2>1. ASSUME NEW u \in Units(a) PROVE u \in Units(s) \cup R
    BY <1>1 DEF Units
  <2>2. ASSUME NEW u \in Units(s) \cup R PROVE u \in Units(a)
    BY <1>1 DEF Units
  <2> QED BY <2>1, <2>2
<1>3. Units(s) \cap R = {}
  BY <1>1 DEF Units
<1>4. IsFiniteSet(R) /\ Cardinality(R) = Cost[t]
  <2>1. IsFiniteSet({L + 1}) /\ Cardinality({L + 1}) = 1
    BY FS_Singleton
  <2> DEFINE I == 1..Cost[t]
  <2>2. IsFiniteSet(I) /\ Cardinality(I) = Cost[t]
    <3>1. \A x, y \in Int : IsFiniteSet(x..y) /\ Cardinality(x..y) = IF x > y THEN 0 ELSE y - x + 1
      BY FS_Interval
    <3>2. 1 \in Int /\ Cost[t] \in Int /\ ~(1 > Cost[t]) /\ Cost[t] - 1 + 1 = Cost[t]
      BY <1>1
    <3> QED BY <3>1, <3>2
  <2> HIDE DEF I
  <2>3. IsFiniteSet({L + 1} \X I) /\ Cardinality({L + 1} \X I) = 1 * Cardinality(I)
    BY <2>1, <2>2, FS_Product
  <2> QED BY <1>1, <2>2, <2>3 DEF I
<1>5. IsFiniteSet(Units(s)) /\ Cardinality(Units(s)) \in Nat
  BY UnitsFinite DEF SumCost
<1> HIDE DEF R
<1>6. Cardinality(Units(s) \cup R) =
        Cardinality(Units(s)) + Cardinality(R) - Cardinality(Units(s) \cap R)
  BY <1>4, <1>5, FS_Union
<1>7. Cardinality(Units(s) \cap R) = 0
  BY <1>3, FS_EmptySet
<1> QED BY <1>1, <1>2, <1>4, <1>5, <1>6, <1>7 DEF SumCost, a

\* The first transactions use no more than all.
LEMMA SumPart ==
  ASSUME NEW s \in Seq(Txs), NEW p \in Seq(Txs)
  PROVE  SumCost(s) <= SumCost(s \o p)
<1> DEFINE a == s \o p
<1>1. /\ a \in Seq(Txs) /\ DOMAIN s \subseteq DOMAIN a
      /\ \A i \in DOMAIN s : a[i] = s[i]
  BY ConcatProperties
<1> HIDE DEF a
<1>2. Units(s) \subseteq Units(a)
  BY <1>1 DEF Units
<1>3. IsFiniteSet(Units(a))
  BY <1>1, UnitsFinite
<1>4. Cardinality(Units(s)) <= Cardinality(Units(a))
  BY <1>2, <1>3, FS_Subset
<1> QED BY <1>4 DEF SumCost, a

-----------------------------------------------------------------------------
(***************************************************************************)
(* The open batch.                                                         *)
(***************************************************************************)
\* Transactions of the pool are transactions.
LEMMA TxsInAll == Seq(Txs) \subseteq Seq(AllTxs)
BY ConstantFacts, SeqMonotonic

\* The first n transactions.
LEMMA UptoFacts ==
  ASSUME NEW s \in Seq(Txs), NEW n \in 0..Len(s)
  PROVE  /\ Upto(s, n) \in Seq(Txs) /\ Len(Upto(s, n)) = n
         /\ \A i \in 1..n : Upto(s, n)[i] = s[i]
         /\ n = Len(s) => Upto(s, n) = s
<1>1. /\ Upto(s, n) \in Seq(Txs) /\ Len(Upto(s, n)) = n
      /\ \A i \in 1..n : Upto(s, n)[i] = s[i]
  BY IsASeq DEF Upto
<1>2. n = Len(s) => Upto(s, n) = s
  BY <1>1, SeqEqual
<1> QED BY <1>1, <1>2

\* The fields of a row, a pending transaction and the finalizer's batch.
LEMMA FieldFacts ==
  /\ \A r \in Row : /\ r.ger \in Gers /\ r.forced \in 0..MaxForced
                    /\ r.closed \in BOOLEAN /\ r.root \in Root /\ r.l2data \in Seq(AllTxs)
  /\ \A r \in Pending : r.tx \in AllTxs /\ r.n \in Nat /\ r.root \in Root
  /\ \A b \in Wip : /\ b.n \in Nat /\ b.ger \in Gers /\ b.initial \in Root /\ b.root \in Root
                    /\ b.count \in Nat /\ b.remaining \in 0..MaxResources
BY DEF Row, Pending, Wip

\* A table, what waits to be stored, and the data of the last batch.
Stored(d, q, f) ==
  /\ d \in Seq(Row) /\ Len(d) >= 2 /\ d[Len(d)].l2data \in Seq(Txs)
  /\ q \in Seq(Pending) /\ Split(d, q, f)

\* The transactions of the last batch are all of the pool.
LEMMA AllFacts ==
  ASSUME NEW d, NEW q, NEW f, Stored(d, q, f)
  PROVE  /\ All(d, q, f) \in Seq(Txs)
         /\ Len(All(d, q, f)) = Len(d[Len(d)].l2data) + (Len(q) - f)
         /\ \A i \in 1..Len(d[Len(d)].l2data) : All(d, q, f)[i] = d[Len(d)].l2data[i]
         /\ \A i \in 1..(Len(q) - f) :
              All(d, q, f)[Len(d[Len(d)].l2data) + i] = q[f + i].tx
<1> DEFINE l == d[Len(d)].l2data
           m == Len(q) - f
           w == [i \in 1..m |-> q[f + i].tx]
<1>1. l \in Seq(Txs) /\ Len(l) \in Nat
  BY DEF Stored
<1>2. Len(q) \in Nat /\ f \in 0..Len(q) /\ m \in Nat
  BY DEF Stored, Split
<1>3. \A i \in 1..m : q[f + i].tx \in Txs
  BY <1>2 DEF Stored, Split
<1>4. w \in Seq(Txs) /\ Len(w) = m /\ \A i \in 1..m : w[i] = q[f + i].tx
  BY <1>2, <1>3, IsASeq
<1>5. All(d, q, f) = l \o w
  BY DEF All
<1> HIDE DEF l, w, m
<1>6. /\ l \o w \in Seq(Txs)
      /\ Len(l \o w) = Len(l) + Len(w)
      /\ \A i \in 1..Len(l) + Len(w) :
           (l \o w)[i] = IF i <= Len(l) THEN l[i] ELSE w[i - Len(l)]
  BY <1>1, <1>4, ConcatProperties
<1>7. \A i \in 1..Len(l) : (l \o w)[i] = l[i]
  BY <1>1, <1>2, <1>4, <1>6
<1>8. ASSUME NEW i \in 1..m PROVE (l \o w)[Len(l) + i] = q[f + i].tx
  <2>1. Len(l) + i \in 1..Len(l) + Len(w) /\ ~(Len(l) + i <= Len(l)) /\ (Len(l) + i) - Len(l) = i
    BY <1>1, <1>2, <1>4, <1>8
  <2> QED BY <1>4, <1>6, <1>8, <2>1
<1> QED BY <1>4, <1>5, <1>6, <1>7, <1>8 DEF l, m

\* A transaction more waits.
LEMMA AllMore ==
  ASSUME NEW d, NEW q, NEW f, Stored(d, q, f), NEW e \in Pending,
         e.tx \in Txs, e.n = Len(d) - 1
  PROVE  /\ Stored(d, Append(q, e), f)
         /\ All(d, Append(q, e), f) = Append(All(d, q, f), e.tx)
<1> DEFINE p == Append(q, e)
           l == d[Len(d)].l2data
           s == All(d, q, f)
           a == All(d, p, f)
<1>1. /\ q \in Seq(Pending) /\ Len(q) \in Nat /\ f \in 0..Len(q)
      /\ d \in Seq(Row) /\ Len(d) >= 2 /\ l \in Seq(Txs)
  BY DEF Stored, Split
<1>2. /\ p \in Seq(Pending) /\ Len(p) = Len(q) + 1 /\ p[Len(q) + 1] = e
      /\ \A i \in 1..Len(q) : p[i] = q[i]
  BY <1>1, AppendProperties
<1> HIDE DEF p
<1>3. Split(d, p, f)
  <2>1. f \in 0..Len(p)
    BY <1>1, <1>2
  <2>2. ASSUME NEW i \in 1..Len(p)
        PROVE  IF i > f THEN p[i].tx \in Txs /\ p[i].n = Len(d) - 1
               ELSE p[i].tx \notin Txs /\ p[i].n < Len(d) - 1
    <3>1. CASE i = Len(q) + 1
      BY <1>1, <1>2, <3>1
    <3>2. CASE i \in 1..Len(q)
      BY <1>2, <3>2 DEF Stored, Split
    <3> QED BY <1>1, <1>2, <3>1, <3>2
  <2> QED BY <2>1, <2>2 DEF Split
<1>4. Stored(d, p, f)
  BY <1>1, <1>2, <1>3 DEF Stored
<1> DEFINE m == Len(q) - f
<1>5. /\ s \in Seq(Txs) /\ Len(s) = Len(l) + m /\ m \in Nat /\ Len(l) \in Nat
      /\ \A i \in 1..Len(l) : s[i] = l[i]
      /\ \A i \in 1..m : s[Len(l) + i] = q[f + i].tx
  <2>1. m \in Nat /\ Len(l) \in Nat
    BY <1>1
  <2>2. /\ s \in Seq(Txs) /\ Len(s) = Len(l) + m
        /\ \A i \in 1..Len(l) : s[i] = l[i]
        /\ \A i \in 1..m : s[Len(l) + i] = q[f + i].tx
    BY AllFacts
  <2> QED BY <2>1, <2>2
<1>6. /\ a \in Seq(Txs) /\ Len(a) = Len(l) + (m + 1)
      /\ \A i \in 1..Len(l) : a[i] = l[i]
      /\ \A i \in 1..(m + 1) : a[Len(l) + i] = p[f + i].tx
  <2>1. Len(p) - f = m + 1
    BY <1>1, <1>2
  <2> QED BY <1>4, <2>1, AllFacts
<1> DEFINE r == Append(s, e.tx)
<1> HIDE DEF s, a, l
<1>7. /\ r \in Seq(Txs) /\ Len(r) = Len(s) + 1 /\ r[Len(s) + 1] = e.tx
      /\ \A i \in 1..Len(s) : r[i] = s[i]
  BY <1>5, AppendProperties
<1> HIDE DEF r
<1>8. ASSUME NEW i \in 1..Len(a) PROVE a[i] = r[i]
  <2>1. CASE i <= Len(l)
    BY <1>5, <1>6, <1>7, <1>8, <2>1
  <2>2. CASE i > Len(l)
    <3> DEFINE j == i - Len(l)
    <3>1. j \in 1..(m + 1) /\ i = Len(l) + j
      BY <1>5, <1>6, <1>8, <2>2
    <3>2. a[i] = p[f + j].tx
      BY <1>6, <3>1
    <3>3. CASE j = m + 1
      <4>1. f + j = Len(q) + 1 /\ i = Len(s) + 1
        BY <1>1, <1>5, <3>1, <3>3
      <4> QED BY <1>2, <1>7, <3>2, <4>1
    <3>4. CASE j <= m
      <4>1. f + j \in 1..Len(q) /\ j \in 1..m /\ i \in 1..Len(s)
        BY <1>1, <1>5, <3>1, <3>4
      <4> QED BY <1>2, <1>5, <1>7, <3>1, <3>2, <4>1
    <3> QED BY <1>5, <3>1, <3>3, <3>4
  <2> QED BY <1>5, <1>6, <1>8, <2>1, <2>2
<1>9. Len(a) = Len(r)
  BY <1>5, <1>6, <1>7
<1>10. a = r
  BY <1>6, <1>7, <1>8, <1>9, SeqEqual
<1> QED BY <1>4, <1>10 DEF p, s, a, r

\* x is the batch b after the transaction of e was executed.
IsExecuted(b, x, e) ==
  /\ x \in Wip /\ e \in Pending /\ e.tx \in Txs
  /\ x.n = b.n /\ x.ger = b.ger /\ x.initial = b.initial /\ x.count = b.count + 1
  /\ x.root = processTransaction(b, <<e.tx>>) /\ x.remaining + Cost[e.tx] <= b.remaining
  /\ e.n = b.n /\ e.root = x.root

\* The finalizer executes a transaction: it waits behind the others, with the
\* root of everything up to it.
LEMMA WorkingExecutes ==
  ASSUME NEW d, NEW q, NEW f, Stored(d, q, f), NEW lb,
         NEW b \in Wip, Working(b, d, q, lb, f), NEW x, NEW e, IsExecuted(b, x, e)
  PROVE  /\ Stored(d, Append(q, e), f) /\ Working(x, d, Append(q, e), lb, f)
         /\ x.root.txs = Append(b.root.txs, e.tx)
<1> DEFINE p == Append(q, e)
           l == d[Len(d)].l2data
           s == All(d, q, f)
           a == All(d, p, f)
           t == e.tx
<1>0. /\ x \in Wip /\ e \in Pending /\ e.tx \in Txs
      /\ x.n = b.n /\ x.ger = b.ger /\ x.initial = b.initial /\ x.count = b.count + 1
      /\ x.root = processTransaction(b, <<e.tx>>) /\ x.remaining + Cost[e.tx] <= b.remaining
      /\ e.n = b.n /\ e.root = x.root
  BY DEF IsExecuted
<1>1. /\ b.n = Len(d) - 1 /\ b.ger = d[Len(d)].ger /\ b.initial = d[Len(d) - 1].root
      /\ l # <<>> => f = 0 /\ lb = Exec(b.initial, b.ger, l)
      /\ b.count = Len(s)
      /\ b.root = IF b.count = 0 THEN b.initial ELSE Exec(b.initial, b.ger, s)
      /\ \A i \in 1..(Len(q) - f) : q[f + i].root = Exec(b.initial, b.ger, Upto(s, Len(l) + i))
      /\ b.remaining + SumCost(s) <= MaxResources
  BY DEF Working
<1>2. Stored(d, p, f) /\ a = Append(s, t)
  BY <1>0, <1>1, AllMore
<1>3. /\ s \in Seq(Txs) /\ Len(s) = Len(l) + (Len(q) - f) /\ Len(s) \in Nat
      /\ q \in Seq(Pending) /\ Len(q) \in Nat /\ f \in 0..Len(q) /\ Len(l) \in Nat
      /\ l \in Seq(Txs)
  <2>1. s \in Seq(Txs) /\ Len(s) = Len(l) + (Len(q) - f)
    BY AllFacts
  <2> HIDE DEF s
  <2> QED BY <2>1 DEF Stored, Split
<1>4. /\ b.ger \in Gers /\ b.initial \in Root /\ b.root \in Root /\ b.remaining \in Nat
      /\ x.remaining \in Nat /\ t \in Txs /\ t \in AllTxs /\ Cost[t] \in Nat /\ MaxResources \in Nat
  BY <1>0, FieldFacts, ConstantFacts
<1>5. /\ p \in Seq(Pending) /\ Len(p) = Len(q) + 1 /\ p[Len(q) + 1] = e
      /\ \A i \in 1..Len(q) : p[i] = q[i]
  BY <1>0, <1>3, AppendProperties
<1>6. /\ a \in Seq(Txs) /\ Len(a) = Len(s) + 1
      /\ \A i \in 1..Len(s) : a[i] = s[i]
  <2> HIDE DEF p, s, a, l, t
  <2>1. a = Append(s, t) /\ s \in Seq(Txs) /\ t \in Txs
    BY <1>2, <1>3, <1>4
  <2> QED BY <2>1, AppendProperties
<1> HIDE DEF p, s, a, l
<1>7. s \in Seq(AllTxs) /\ SumCost(s) \in Nat
  BY <1>3, TxsInAll, UnitsFinite
<1>8. x.root = Exec(b.initial, b.ger, a)
  <2>1. CASE b.count = 0
    <3>1. s = <<>> /\ b.root = b.initial
      BY <1>1, <1>3, <2>1
    <3>2. x.root = Exec(b.initial, b.ger, <<t>>)
      BY <1>0, <2>1, <3>1 DEF processTransaction
    <3> QED BY <1>2, <3>1, <3>2
  <2>2. CASE b.count # 0
    <3>1. x.root = Exec(Exec(b.initial, b.ger, s), 0, <<t>>)
      BY <1>0, <1>1, <2>2 DEF processTransaction
    <3> QED BY <1>2, <1>4, <1>7, <3>1, ExecMore
  <2> QED BY <2>1, <2>2
<1>9. x.root.txs = Append(b.root.txs, t)
  <2>1. b.root.txs \in Seq(AllTxs)
    BY <1>4, RootFacts
  <2>2. x.root.txs = b.root.txs \o <<t>>
    BY <1>0 DEF processTransaction, Exec
  <2> QED BY <1>4, <2>1, <2>2, AppendIsConcat
<1>10. SumCost(a) = SumCost(s) + Cost[t]
  BY <1>2, <1>3, <1>4, SumMore
<1>11. x.remaining + SumCost(a) <= MaxResources
  BY <1>0, <1>1, <1>4, <1>7, <1>10
<1>12. ASSUME NEW i \in 1..(Len(p) - f)
       PROVE  p[f + i].root = Exec(x.initial, x.ger, Upto(a, Len(l) + i))
  <2>1. CASE i = Len(q) - f + 1
    <3>1. f + i = Len(q) + 1 /\ Len(l) + i = Len(a) /\ Len(l) + i \in 0..Len(a)
      BY <1>3, <1>6, <2>1
    <3>2. Upto(a, Len(l) + i) = a
      BY <1>6, <3>1, UptoFacts
    <3> QED BY <1>0, <1>5, <1>8, <3>1, <3>2
  <2>2. CASE i <= Len(q) - f
    <3>1. /\ f + i \in 1..Len(q) /\ Len(l) + i \in 0..Len(s) /\ Len(l) + i \in 0..Len(a)
          /\ i \in 1..(Len(q) - f) /\ 1..(Len(l) + i) \subseteq 1..Len(s)
      BY <1>3, <1>5, <1>6, <1>12, <2>2
    <3>2. Upto(a, Len(l) + i) = Upto(s, Len(l) + i)
      BY <1>6, <3>1 DEF Upto
    <3> QED BY <1>0, <1>1, <1>5, <3>1, <3>2
  <2> QED BY <1>3, <1>5, <1>12, <2>1, <2>2
<1>13. x.count = Len(a) /\ x.count # 0
  BY <1>0, <1>1, <1>3, <1>6
<1>14. Split(d, p, f)
  BY <1>2 DEF Stored
<1>15. Working(x, d, p, lb, f)
  <2>1. x.n = Len(d) - 1 /\ x.ger = d[Len(d)].ger /\ x.initial = d[Len(d) - 1].root
    BY <1>0, <1>1
  <2>2. l # <<>> => f = 0 /\ lb = Exec(x.initial, x.ger, l)
    BY <1>0, <1>1
  <2>3. x.root = IF x.count = 0 THEN x.initial ELSE Exec(x.initial, x.ger, a)
    BY <1>0, <1>8, <1>13
  <2> QED BY <1>11, <1>12, <1>13, <1>14, <2>1, <2>2, <2>3, Zenon DEF Working, a, l
<1> QED BY <1>2, <1>9, <1>15 DEF p


\* e is the table d after the first transaction of q was stored in it, and g
\* the number of transactions of forced batches that still wait.
IsStored(d, q, f, e, g) ==
  /\ e \in Seq(Row) /\ Len(e) = Len(d) /\ q # <<>>
  /\ \A i \in 1..Len(d) : i < Len(d) => e[i].root = d[i].root
  /\ e[Len(d)].ger = d[Len(d)].ger
  /\ e[Len(d)].l2data = IF q[1].tx \in Txs THEN Append(d[Len(d)].l2data, q[1].tx)
                         ELSE d[Len(d)].l2data
  /\ g = IF f = 0 THEN 0 ELSE f - 1

\* Storing a transaction only moves it from those that wait to the stored ones.
LEMMA AllStored ==
  ASSUME NEW d, NEW q, NEW f, Stored(d, q, f), NEW e, NEW g, IsStored(d, q, f, e, g)
  PROVE  Stored(e, Tail(q), g) /\ All(e, Tail(q), g) = All(d, q, f)
<1> DEFINE p == Tail(q)
           l == d[Len(d)].l2data
           k == e[Len(e)].l2data
           s == All(d, q, f)
           a == All(e, p, g)
<1>1. /\ q \in Seq(Pending) /\ Len(q) \in Nat /\ f \in 0..Len(q)
      /\ d \in Seq(Row) /\ Len(d) \in Nat /\ Len(d) >= 2 /\ l \in Seq(Txs) /\ Len(l) \in Nat
  BY DEF Stored, Split
<1>2. q # <<>> /\ e \in Seq(Row) /\ Len(e) = Len(d)
  BY DEF IsStored
<1>3. /\ p \in Seq(Pending) /\ Len(p) = Len(q) - 1 /\ Len(q) >= 1 /\ Len(p) \in Nat
      /\ \A i \in 1..Len(p) : p[i] = q[i + 1]
  BY <1>1, <1>2, HeadTailProperties
<1>4. /\ \A i \in 1..Len(q) : i > f => q[i].tx \in Txs /\ q[i].n = Len(d) - 1
      /\ \A i \in 1..Len(q) : ~(i > f) => q[i].tx \notin Txs /\ q[i].n < Len(d) - 1
  BY DEF Stored, Split
<1>5. /\ s \in Seq(Txs) /\ Len(s) = Len(l) + (Len(q) - f)
      /\ \A i \in 1..Len(l) : s[i] = l[i]
      /\ \A i \in 1..(Len(q) - f) : s[Len(l) + i] = q[f + i].tx
  BY AllFacts
<1> HIDE DEF p, s
<1>6. CASE f = 0
  <2>1. 1 \in 1..Len(q) /\ q[1].tx \in Txs /\ g = 0 /\ k = Append(l, q[1].tx)
    <3>1. 1 \in 1..Len(q) /\ 1 > f
      BY <1>3, <1>1, <1>6
    <3>2. q[1].tx \in Txs
      BY <1>4, <3>1
    <3> QED BY <1>2, <1>6, <3>1, <3>2 DEF IsStored
  <2> DEFINE tx1 == q[1].tx
  <2> HIDE DEF l, k, tx1
  <2>2. /\ k \in Seq(Txs) /\ Len(k) = Len(l) + 1 /\ k[Len(l) + 1] = tx1
        /\ \A i \in 1..Len(l) : k[i] = l[i]
    <3>1. k = Append(l, tx1) /\ tx1 \in Txs
      BY <2>1 DEF tx1
    <3> QED BY <1>1, <3>1, AppendProperties
  <2>3. Split(e, p, 0)
    <3>1. ASSUME NEW i \in 1..Len(p)
          PROVE  i > 0 /\ p[i].tx \in Txs /\ p[i].n = Len(e) - 1
      <4>1. i + 1 \in 1..Len(q) /\ i + 1 > f /\ i > 0
        BY <1>1, <1>3, <1>6, <3>1
      <4> QED BY <1>2, <1>3, <1>4, <3>1, <4>1
    <3>2. 0 \in 0..Len(p)
      BY <1>3
    <3> QED BY <3>1, <3>2 DEF Split
  <2>4. Stored(e, p, g)
    BY <1>1, <1>2, <1>3, <2>1, <2>2, <2>3 DEF Stored, k
  <2>5. /\ a \in Seq(Txs) /\ Len(a) = Len(k) + (Len(p) - g)
        /\ \A i \in 1..Len(k) : a[i] = k[i]
        /\ \A i \in 1..(Len(p) - g) : a[Len(k) + i] = p[g + i].tx
    BY <2>4, AllFacts DEF k
  <2> HIDE DEF a
  <2>6. ASSUME NEW i \in 1..Len(a) PROVE a[i] = s[i]
    <3>1. CASE i <= Len(l)
      BY <1>1, <1>5, <2>2, <2>5, <2>6, <3>1
    <3>2. CASE i = Len(l) + 1
      <4>1. a[i] = tx1
        BY <1>1, <2>2, <2>5, <3>2
      <4>2. 1 \in 1..(Len(q) - f) /\ f + 1 = 1
        BY <1>1, <1>3, <1>6
      <4>3. s[i] = q[1].tx
        BY <1>5, <3>2, <4>2
      <4> QED BY <4>1, <4>3 DEF tx1
    <3>3. CASE i > Len(l) + 1
      <4> DEFINE j == i - (Len(l) + 1)
      <4>1. /\ j \in 1..Len(p) /\ j \in 1..(Len(p) - g) /\ i = Len(k) + j /\ g + j = j
            /\ j + 1 \in 1..(Len(q) - f) /\ i = Len(l) + (j + 1) /\ f + (j + 1) = j + 1
        BY <1>1, <1>3, <1>6, <2>1, <2>2, <2>5, <2>6, <3>3
      <4> HIDE DEF j
      <4>2. a[i] = p[j].tx
        BY <2>5, <4>1
      <4>3. s[i] = q[j + 1].tx
        BY <1>5, <4>1
      <4> QED BY <1>3, <4>1, <4>2, <4>3
    <3> QED BY <1>1, <2>5, <2>6, <3>1, <3>2, <3>3
  <2>7. Len(a) = Len(s)
    BY <1>1, <1>3, <1>5, <1>6, <2>1, <2>2, <2>5
  <2>8. a = s
    BY <1>5, <2>5, <2>6, <2>7, SeqEqual
  <2> QED BY <2>4, <2>8 DEF p, a, s
<1>7. CASE f > 0
  <2>1. 1 \in 1..Len(q) /\ q[1].tx \notin Txs /\ g = f - 1 /\ g \in Nat /\ k = l
    <3>1. 1 \in 1..Len(q) /\ ~(1 > f) /\ f # 0 /\ f - 1 \in Nat
      BY <1>3, <1>1, <1>7
    <3>2. q[1].tx \notin Txs
      BY <1>4, <3>1
    <3> QED BY <1>2, <3>1, <3>2 DEF IsStored
  <2> HIDE DEF l, k
  <2>3. Split(e, p, g)
    <3>1. ASSUME NEW i \in 1..Len(p)
          PROVE  IF i > g THEN p[i].tx \in Txs /\ p[i].n = Len(e) - 1
                 ELSE p[i].tx \notin Txs /\ p[i].n < Len(e) - 1
      <4>1. i + 1 \in 1..Len(q) /\ (i + 1 > f <=> i > g) /\ p[i] = q[i + 1]
        BY <1>1, <1>3, <2>1, <3>1
      <4>2. CASE i > g
        BY <1>2, <1>4, <4>1, <4>2
      <4>3. CASE ~(i > g)
        BY <1>2, <1>4, <4>1, <4>3
      <4> QED BY <4>2, <4>3
    <3>2. g \in 0..Len(p)
      BY <1>1, <1>3, <2>1
    <3> QED BY <3>1, <3>2 DEF Split
  <2>4. Stored(e, p, g)
    BY <1>1, <1>2, <1>3, <2>1, <2>3 DEF Stored, k
  <2>5. /\ a \in Seq(Txs) /\ Len(a) = Len(k) + (Len(p) - g)
        /\ \A i \in 1..Len(k) : a[i] = k[i]
        /\ \A i \in 1..(Len(p) - g) : a[Len(k) + i] = p[g + i].tx
    BY <2>4, AllFacts DEF k
  <2> HIDE DEF a
  <2>6. ASSUME NEW i \in 1..Len(a) PROVE a[i] = s[i]
    <3>1. CASE i <= Len(l)
      BY <1>1, <1>5, <2>1, <2>5, <2>6, <3>1
    <3>3. CASE i > Len(l)
      <4> DEFINE j == i - Len(l)
      <4>1. /\ g + j \in 1..Len(p) /\ j \in 1..(Len(p) - g) /\ i = Len(k) + j
            /\ j \in 1..(Len(q) - f) /\ i = Len(l) + j /\ (g + j) + 1 = f + j
        <5>1. Len(k) = Len(l) /\ Len(l) \in Nat /\ i \in Int /\ i > Len(l) /\ i <= Len(l) + (Len(p) - g)
          BY <1>1, <2>1, <2>5, <2>6, <3>3
        <5>2. Len(p) \in Nat /\ Len(q) = Len(p) + 1 /\ g \in Nat /\ f = g + 1
          BY <1>1, <1>3, <2>1
        <5> QED BY <5>1, <5>2
      <4> HIDE DEF j
      <4>2. a[i] = p[g + j].tx
        BY <2>5, <4>1
      <4>3. s[i] = q[f + j].tx
        BY <1>5, <4>1
      <4>4. p[g + j] = q[f + j]
        BY <1>3, <4>1
      <4> QED BY <4>2, <4>3, <4>4
    <3> QED BY <1>1, <2>5, <2>6, <3>1, <3>3
  <2>7. Len(a) = Len(s)
    BY <1>1, <1>3, <1>5, <2>1, <2>5
  <2>8. a = s
    BY <1>5, <2>5, <2>6, <2>7, SeqEqual
  <2> QED BY <2>4, <2>8 DEF p, a, s
<1>8. f = 0 \/ f > 0
  BY <1>1
<1> QED BY <1>6, <1>7, <1>8

\* Storing a transaction leaves the open batch as it is.
LEMMA WorkingStores ==
  ASSUME NEW d, NEW q, NEW f, Stored(d, q, f), NEW lb,
         NEW b \in Wip, Working(b, d, q, lb, f),
         NEW e, NEW g, IsStored(d, q, f, e, g)
  PROVE  Stored(e, Tail(q), g) /\ Working(b, e, Tail(q), q[1].root, g)
<1> DEFINE p == Tail(q)
           l == d[Len(d)].l2data
           k == e[Len(e)].l2data
           s == All(d, q, f)
           a == All(e, p, g)
           h == q[1].root
<1>1. /\ b.n = Len(d) - 1 /\ b.ger = d[Len(d)].ger /\ b.initial = d[Len(d) - 1].root
      /\ l # <<>> => f = 0 /\ lb = Exec(b.initial, b.ger, l)
      /\ b.count = Len(s)
      /\ b.root = IF b.count = 0 THEN b.initial ELSE Exec(b.initial, b.ger, s)
      /\ \A i \in 1..(Len(q) - f) : q[f + i].root = Exec(b.initial, b.ger, Upto(s, Len(l) + i))
      /\ b.remaining + SumCost(s) <= MaxResources
  BY DEF Working
<1>2. Stored(e, p, g) /\ a = s
  BY AllStored
<1>3. /\ q \in Seq(Pending) /\ Len(q) \in Nat /\ f \in 0..Len(q)
      /\ d \in Seq(Row) /\ Len(d) \in Nat /\ Len(d) >= 2 /\ l \in Seq(Txs) /\ Len(l) \in Nat
  BY DEF Stored, Split
<1>4. q # <<>> /\ e \in Seq(Row) /\ Len(e) = Len(d)
  BY DEF IsStored
<1>5. /\ p \in Seq(Pending) /\ Len(p) = Len(q) - 1 /\ Len(q) >= 1 /\ Len(p) \in Nat
      /\ \A i \in 1..Len(p) : p[i] = q[i + 1]
  BY <1>3, <1>4, HeadTailProperties
<1>6. /\ s \in Seq(Txs) /\ Len(s) = Len(l) + (Len(q) - f)
      /\ \A i \in 1..Len(l) : s[i] = l[i]
      /\ \A i \in 1..(Len(q) - f) : s[Len(l) + i] = q[f + i].tx
  BY AllFacts
<1>7. b.n = Len(e) - 1 /\ b.ger = e[Len(e)].ger /\ b.initial = e[Len(e) - 1].root
  <2>1. Len(d) - 1 \in 1..Len(d) /\ Len(d) - 1 < Len(d)
    BY <1>3
  <2>2. e[Len(d) - 1].root = d[Len(d) - 1].root
    BY <2>1 DEF IsStored
  <2> QED BY <1>1, <1>4, <2>2 DEF IsStored
<1>8. Split(e, p, g)
  BY <1>2 DEF Stored
<1> HIDE DEF p, s, a
<1>9. /\ k # <<>> => g = 0 /\ h = Exec(b.initial, b.ger, k)
      /\ \A i \in 1..(Len(p) - g) : p[g + i].root = Exec(b.initial, b.ger, Upto(a, Len(k) + i))
  <2>1. CASE f = 0
    <3>1. 1 \in 1..Len(q) /\ q[1].tx \in Txs /\ g = 0
      <4>1. 1 \in 1..Len(q) /\ 1 > f
        BY <1>3, <1>5, <2>1
      <4> QED BY <4>1, <2>1 DEF Stored, Split, IsStored
    <3> DEFINE tx1 == q[1].tx
    <3>2. k = Append(l, tx1)
      BY <1>4, <3>1 DEF IsStored
    <3>3. tx1 \in Txs
      BY <3>1
    <3> HIDE DEF l, k, tx1
    <3>4. /\ k \in Seq(Txs) /\ Len(k) = Len(l) + 1 /\ k[Len(l) + 1] = tx1
          /\ \A i \in 1..Len(l) : k[i] = l[i]
      BY <1>3, <3>2, <3>3, AppendProperties
    <3>5. Upto(s, Len(l) + 1) = k
      <4> DEFINE u == Upto(s, Len(l) + 1)
      <4>1. Len(l) + 1 \in 0..Len(s) /\ 1 \in 1..(Len(q) - f) /\ f + 1 = 1
        BY <1>3, <1>5, <1>6, <2>1
      <4>2. u \in Seq(Txs) /\ Len(u) = Len(l) + 1 /\ \A i \in 1..(Len(l) + 1) : u[i] = s[i]
        BY <1>6, <4>1, UptoFacts
      <4> HIDE DEF u
      <4>3. s[Len(l) + 1] = tx1
        BY <1>6, <4>1 DEF tx1
      <4>4. ASSUME NEW i \in 1..Len(u) PROVE u[i] = k[i]
        <5>1. CASE i = Len(l) + 1
          BY <1>3, <3>4, <4>2, <4>3, <5>1
        <5>2. CASE i \in 1..Len(l)
          BY <1>3, <1>6, <3>4, <4>2, <4>4, <5>2
        <5> QED BY <1>3, <4>2, <4>4, <5>1, <5>2
      <4>5. u = k
        BY <3>4, <4>2, <4>4, SeqEqual
      <4> QED BY <4>5 DEF u
    <3>6. h = Exec(b.initial, b.ger, k)
      <4>1. 1 \in 1..(Len(q) - f) /\ f + 1 = 1
        BY <1>3, <1>5, <2>1
      <4>2. q[f + 1].root = Exec(b.initial, b.ger, Upto(s, Len(l) + 1))
        BY <1>1, <4>1
      <4> QED BY <3>5, <4>1, <4>2
    <3>7. ASSUME NEW i \in 1..(Len(p) - g)
          PROVE  p[g + i].root = Exec(b.initial, b.ger, Upto(a, Len(k) + i))
      <4>1. /\ i \in 1..Len(p) /\ g + i = i /\ i + 1 \in 1..(Len(q) - f) /\ f + (i + 1) = i + 1
            /\ Len(l) + (i + 1) = Len(k) + i
        BY <1>3, <1>5, <2>1, <3>1, <3>4, <3>7
      <4>2. q[f + (i + 1)].root = Exec(b.initial, b.ger, Upto(s, Len(l) + (i + 1)))
        BY <1>1, <4>1
      <4>3. p[g + i] = q[f + (i + 1)]
        BY <1>5, <4>1
      <4> QED BY <1>2, <4>1, <4>2, <4>3
    <3> QED BY <3>1, <3>6, <3>7
  <2>2. CASE f > 0
    <3>1. 1 \in 1..Len(q) /\ q[1].tx \notin Txs /\ g = f - 1 /\ g \in Nat /\ k = l
      <4>1. 1 \in 1..Len(q) /\ ~(1 > f) /\ f # 0 /\ f - 1 \in Nat
        BY <1>3, <1>5, <2>2
      <4>2. q[1].tx \notin Txs
        BY <4>1 DEF Stored, Split
      <4> QED BY <1>4, <4>1, <4>2 DEF IsStored
    <3>2. k = <<>>
      BY <1>1, <2>2, <3>1
    <3>3. ASSUME NEW i \in 1..(Len(p) - g)
          PROVE  p[g + i].root = Exec(b.initial, b.ger, Upto(a, Len(k) + i))
      <4>1. g + i \in 1..Len(p) /\ i \in 1..(Len(q) - f) /\ (g + i) + 1 = f + i
        <5>1. Len(p) \in Nat /\ Len(q) = Len(p) + 1 /\ f = g + 1 /\ g \in Nat
          BY <1>3, <1>5, <3>1
        <5> QED BY <3>3, <5>1
      <4>2. q[f + i].root = Exec(b.initial, b.ger, Upto(s, Len(l) + i))
        BY <1>1, <4>1
      <4>3. p[g + i] = q[f + i]
        BY <1>5, <4>1
      <4> QED BY <1>2, <3>1, <4>2, <4>3
    <3> QED BY <3>2, <3>3
  <2>3. f = 0 \/ f > 0
    BY <1>3
  <2> QED BY <2>1, <2>2, <2>3
<1> HIDE DEF l, k, h
<1>10. /\ b.count = Len(a)
       /\ b.root = IF b.count = 0 THEN b.initial ELSE Exec(b.initial, b.ger, a)
       /\ b.remaining + SumCost(a) <= MaxResources
  BY <1>1, <1>2
<1>11. Working(b, e, p, h, g)
  BY <1>7, <1>8, <1>9, <1>10, Zenon DEF Working, a, k
<1> QED BY <1>2, <1>11 DEF p, h

\* The finalizer starts again: what was not stored is forgotten.
LEMMA WorkingRestarts ==
  ASSUME NEW d, NEW q, NEW f, Stored(d, q, f), NEW lb \in Root,
         NEW b \in Wip, Working(b, d, q, lb, f),
         NEW x \in Wip, x.n = Len(d) - 1, x.ger = d[Len(d)].ger,
         x.initial = d[Len(d) - 1].root,
         x.root = IF d[Len(d)].l2data = <<>> THEN d[Len(d) - 1].root ELSE lb,
         x.count = Len(d[Len(d)].l2data),
         x.remaining + SumCost(d[Len(d)].l2data) <= MaxResources
  PROVE  Stored(d, <<>>, 0) /\ Working(x, d, <<>>, lb, 0)
<1> DEFINE l == d[Len(d)].l2data
           e == <<>>
           a == All(d, e, 0)
<1>1. /\ b.n = Len(d) - 1 /\ b.ger = d[Len(d)].ger /\ b.initial = d[Len(d) - 1].root
      /\ l # <<>> => lb = Exec(b.initial, b.ger, l)
  BY DEF Working
<1>2. d \in Seq(Row) /\ Len(d) >= 2 /\ l \in Seq(Txs) /\ Len(l) \in Nat
  BY DEF Stored
<1>3. e \in Seq(Pending) /\ Len(e) = 0
  OBVIOUS
<1> HIDE DEF e
<1>4. Split(d, e, 0)
  BY <1>3 DEF Split
<1>5. Stored(d, e, 0)
  BY <1>2, <1>3, <1>4 DEF Stored
<1>6. /\ a \in Seq(Txs) /\ Len(a) = Len(l) + (0 - 0) /\ \A i \in 1..Len(l) : a[i] = l[i]
  BY <1>3, <1>5, AllFacts
<1> HIDE DEF a, l
<1>7. a = l
  BY <1>2, <1>6, SeqEqual
<1>8. /\ x.n = Len(d) - 1 /\ x.ger = d[Len(d)].ger /\ x.initial = d[Len(d) - 1].root
      /\ l # <<>> => 0 = 0 /\ lb = Exec(x.initial, x.ger, l)
      /\ x.count = Len(a)
  BY <1>1, <1>7 DEF l
<1>9. x.root = IF x.count = 0 THEN x.initial ELSE Exec(x.initial, x.ger, a)
  <2>1. CASE l = <<>>
    <3>1. x.count = 0 /\ x.root = x.initial
      BY <2>1 DEF l
    <3> QED BY <3>1
  <2>2. CASE l # <<>>
    <3>1. x.count # 0 /\ x.root = lb
      BY <1>2, <2>2 DEF l
    <3> QED BY <1>7, <1>8, <2>2, <3>1
  <2> QED BY <2>1, <2>2
<1>10. \A i \in 1..(Len(e) - 0) :
         e[0 + i].root = Exec(x.initial, x.ger, Upto(a, Len(l) + i))
  BY <1>3
<1>11. x.remaining + SumCost(a) <= MaxResources
  BY <1>7 DEF l
<1>12. Working(x, d, e, lb, 0)
  BY <1>4, <1>8, <1>9, <1>10, <1>11, Zenon DEF Working, a, l
<1> QED BY <1>5, <1>12 DEF e

\* A batch is opened behind forced ones.
LEMMA WorkingOpens ==
  ASSUME NEW d \in Seq(Row), Len(d) >= 2, NEW q \in Seq(Pending), NEW lb, NEW g \in Gers,
         \A i \in 1..Len(q) : q[i].tx \notin Txs /\ q[i].n < Len(d)
  PROVE  /\ Stored(Append(d, OpenedBatch(g)), q, Len(q))
         /\ Working(WipBatch(Len(d), g, d[Len(d)].root), Append(d, OpenedBatch(g)), q, lb, Len(q))
         /\ WipBatch(Len(d), g, d[Len(d)].root) \in Wip
<1> DEFINE o == OpenedBatch(g)
           e == Append(d, o)
           r == d[Len(d)].root
           b == WipBatch(Len(d), g, r)
           f == Len(q)
           a == All(e, q, f)
<1>1. /\ o \in Row /\ o.ger = g /\ o.l2data = <<>>
  BY RootFacts, ConstantFacts DEF OpenedBatch, Row
<1> HIDE DEF o
<1>2. /\ e \in Seq(Row) /\ Len(e) = Len(d) + 1 /\ e[Len(d) + 1] = o /\ Len(d) \in Nat
      /\ e[Len(d)] = d[Len(d)] /\ Len(q) \in Nat
  BY <1>1
<1>3. r \in Root /\ Len(e) - 1 = Len(d) /\ Len(e) >= 2
  BY <1>2, FieldFacts
<1>4. /\ b.n = Len(d) /\ b.ger = g /\ b.initial = r /\ b.root = r /\ b.count = 0
      /\ b.remaining = MaxResources /\ b \in Wip
  <2> HIDE DEF e, r
  <2>1. MaxResources \in 0..MaxResources
    BY ConstantFacts
  <2> QED BY <1>2, <1>3, <2>1 DEF WipBatch, Wip
<1> HIDE DEF e, b
<1>5. Split(e, q, f)
  BY <1>2, <1>3 DEF Split
<1>6. e[Len(e)].l2data = <<>>
  BY <1>1, <1>2
<1>7. Stored(e, q, f)
  <2>1. e[Len(e)].l2data \in Seq(Txs)
    BY <1>6
  <2> QED BY <1>2, <1>3, <1>5, <2>1 DEF Stored
<1>8. a \in Seq(Txs) /\ Len(a) = Len(e[Len(e)].l2data) + (Len(q) - f)
  BY <1>7, AllFacts
<1> HIDE DEF a
<1>9. Len(a) = 0 /\ a = <<>>
  BY <1>2, <1>6, <1>8
<1>10. b.remaining + SumCost(a) <= MaxResources
  BY <1>4, <1>9, SumNothing, ConstantFacts
<1>11. b.root = IF b.count = 0 THEN b.initial ELSE Exec(b.initial, b.ger, a)
  BY <1>4
<1>12. /\ b.n = Len(e) - 1 /\ b.ger = e[Len(e)].ger /\ b.initial = e[Len(e) - 1].root
       /\ b.count = Len(a)
  BY <1>1, <1>2, <1>3, <1>4, <1>9
<1>13. \A i \in 1..(Len(q) - f) :
         q[f + i].root = Exec(b.initial, b.ger, Upto(a, Len(e[Len(e)].l2data) + i))
  BY <1>2
<1>14. Working(b, e, q, lb, f)
  BY <1>5, <1>6, <1>10, <1>11, <1>12, <1>13, Zenon DEF Working, a
<1> QED BY <1>4, <1>7, <1>14 DEF b, e, o

-----------------------------------------------------------------------------
(***************************************************************************)
(* The table of batches.                                                   *)
(***************************************************************************)

\* r may be the last row behind a batch with this root.
GoodRow(r, root) ==
  /\ r \in Row
  /\ r.forced # 0 => r.closed
  /\ r.forced = 0 => r.l2data \in Seq(Txs) /\ SumCost(r.l2data) <= MaxResources
  /\ r.closed => r.root = Exec(root, r.ger, r.l2data) /\ IsInjective(r.root.txs)

\* The last row of a table is a good one.
LEMMA LastIsGood ==
  ASSUME NEW d, Table(d)
  PROVE  /\ d \in Seq(Row) /\ Len(d) \in Nat /\ Len(d) >= 2
         /\ d[Len(d)] \in Row /\ d[Len(d) - 1] \in Row
         /\ GoodRow(d[Len(d)], d[Len(d) - 1].root)
<1>1. d \in Seq(Row) /\ Len(d) \in Nat /\ Len(d) >= 2
  BY DEF Table, Rows
<1> DEFINE r == d[Len(d)]
<1>2. Len(d) \in 1..Len(d) /\ Len(d) \in 2..Len(d) /\ Len(d) - 1 \in 1..Len(d)
  BY <1>1
<1>3. r \in Row /\ d[Len(d) - 1] \in Row
  BY <1>1, <1>2
<1>4. r.forced # 0 => r.closed
  BY <1>2, Zenon DEF Table, Rows
<1>5. r.forced = 0 => r.l2data \in Seq(Txs) /\ SumCost(r.l2data) <= MaxResources
  BY <1>2, Zenon DEF Table, Rows, Limited
<1>6. r.closed => r.root = Exec(d[Len(d) - 1].root, r.ger, r.l2data)
  BY <1>2, Zenon DEF Table, Reproduces
<1>7. r.closed => IsInjective(r.root.txs)
  BY <1>2, Zenon DEF Table, Injective
<1> QED BY <1>1, <1>3, <1>4, <1>5, <1>6, <1>7, Zenon DEF GoodRow

\* Another last row.
LEMMA TableReplaced ==
  ASSUME NEW d, Table(d), NEW e \in Seq(Row), Len(e) = Len(d),
         \A i \in 1..Len(d) : i < Len(d) => e[i] = d[i],
         GoodRow(e[Len(d)], d[Len(d) - 1].root)
  PROVE  Table(e)
<1> DEFINE L == Len(d)
           r == e[L]
<1>1. d \in Seq(Row) /\ L \in Nat /\ L >= 2
  BY DEF Table, Rows
<1>2. /\ r.forced # 0 => r.closed
      /\ r.forced = 0 => r.l2data \in Seq(Txs) /\ SumCost(r.l2data) <= MaxResources
      /\ r.closed => r.root = Exec(d[L - 1].root, r.ger, r.l2data) /\ IsInjective(r.root.txs)
  BY DEF GoodRow
<1>3. /\ d[1].forced = 0
      /\ \A i \in 1..L : i < L => d[i].closed
      /\ \A i \in 1..L : d[i].forced # 0 => d[i].closed
      /\ \A i \in 1..L : d[i].forced = 0 => d[i].l2data \in Seq(Txs)
  BY DEF Table, Rows
<1>4. /\ \A i \in 1..L : d[i].forced = 0 => SumCost(d[i].l2data) <= MaxResources
      /\ \A i \in 2..L : d[i].closed => d[i].root = Exec(d[i - 1].root, d[i].ger, d[i].l2data)
      /\ \A i \in 1..L : d[i].closed => IsInjective(d[i].root.txs)
  BY DEF Table, Limited, Reproduces, Injective
<1>5. \A i \in 1..L : i < L => e[i] = d[i]
  OBVIOUS
<1> HIDE DEF L
<1>6. ASSUME NEW i \in 1..L PROVE i = L \/ (i < L /\ e[i] = d[i])
  BY <1>1, <1>5, <1>6
<1>7. /\ e[1].forced = 0
      /\ \A i \in 1..L : i < L => e[i].closed
      /\ \A i \in 1..L : e[i].forced # 0 => e[i].closed
      /\ \A i \in 1..L : e[i].forced = 0 => e[i].l2data \in Seq(Txs)
  <2>1. e[1].forced = 0
    <3>1. 1 \in 1..L /\ 1 < L
      BY <1>1
    <3> QED BY <1>3, <1>5, <3>1
  <2>2. \A i \in 1..L : i < L => e[i].closed
    BY <1>3, <1>5, Zenon
  <2>3. \A i \in 1..L : e[i].forced # 0 => e[i].closed
    BY <1>2, <1>3, <1>6, Zenon
  <2>4. \A i \in 1..L : e[i].forced = 0 => e[i].l2data \in Seq(Txs)
    BY <1>2, <1>3, <1>6, Zenon
  <2> QED BY <2>1, <2>2, <2>3, <2>4
<1>8. Len(e) = L
  BY DEF L
<1>9. Rows(e)
  BY <1>1, <1>7, <1>8 DEF Rows
<1>10. \A i \in 1..L : e[i].forced = 0 => SumCost(e[i].l2data) <= MaxResources
  BY <1>2, <1>4, <1>6, Zenon
<1>11. \A i \in 1..L : e[i].closed => IsInjective(e[i].root.txs)
  BY <1>2, <1>4, <1>6, Zenon
<1>12. ASSUME NEW i \in 2..L, e[i].closed
       PROVE  e[i].root = Exec(e[i - 1].root, e[i].ger, e[i].l2data)
  <2>1. i \in 1..L /\ i - 1 \in 1..L /\ i - 1 < L
    BY <1>1, <1>12
  <2>2. e[i - 1] = d[i - 1]
    BY <1>5, <2>1
  <2>3. CASE i = L
    BY <1>2, <1>12, <2>2, <2>3
  <2>4. CASE i < L
    BY <1>4, <1>5, <1>12, <2>1, <2>2, <2>4
  <2> QED BY <1>6, <2>1, <2>3, <2>4
<1> QED BY <1>8, <1>9, <1>10, <1>11, <1>12 DEF Table, Limited, Reproduces, Injective

\* A row more behind a closed one.
LEMMA TableAppended ==
  ASSUME NEW d, Table(d), d[Len(d)].closed, NEW r, GoodRow(r, d[Len(d)].root)
  PROVE  Table(Append(d, r))
<1> DEFINE L == Len(d)
           e == Append(d, r)
<1>1. d \in Seq(Row) /\ L \in Nat /\ L >= 2
  BY DEF Table, Rows
<1>2. /\ r \in Row
      /\ r.forced # 0 => r.closed
      /\ r.forced = 0 => r.l2data \in Seq(Txs) /\ SumCost(r.l2data) <= MaxResources
      /\ r.closed => r.root = Exec(d[L].root, r.ger, r.l2data) /\ IsInjective(r.root.txs)
  BY DEF GoodRow
<1>3. /\ d[1].forced = 0
      /\ \A i \in 1..L : i < L => d[i].closed
      /\ \A i \in 1..L : d[i].forced # 0 => d[i].closed
      /\ \A i \in 1..L : d[i].forced = 0 => d[i].l2data \in Seq(Txs)
  BY DEF Table, Rows
<1>4. /\ \A i \in 1..L : d[i].forced = 0 => SumCost(d[i].l2data) <= MaxResources
      /\ \A i \in 2..L : d[i].closed => d[i].root = Exec(d[i - 1].root, d[i].ger, d[i].l2data)
      /\ \A i \in 1..L : d[i].closed => IsInjective(d[i].root.txs)
  BY DEF Table, Limited, Reproduces, Injective
<1>5. /\ e \in Seq(Row) /\ Len(e) = L + 1 /\ e[L + 1] = r
      /\ \A i \in 1..L : e[i] = d[i]
  BY <1>1, <1>2, AppendProperties
<1>6. d[L].closed
  OBVIOUS
<1> HIDE DEF L, e
<1>7. ASSUME NEW i \in 1..(L + 1)
      PROVE  (i = L + 1 /\ e[i] = r) \/ (i \in 1..L /\ e[i] = d[i])
  BY <1>1, <1>5, <1>7
<1>8. \A i \in 1..(L + 1) : i < L + 1 => e[i].closed
  <2>1. \A i \in 1..L : d[i].closed
    <3>1. \A i \in 1..L : i < L \/ i = L
      BY <1>1
    <3> QED BY <1>3, <1>6, <3>1, Zenon
  <2>2. \A i \in 1..(L + 1) : i < L + 1 => i \in 1..L
    BY <1>1
  <2> QED BY <1>5, <2>1, <2>2, Zenon
<1>9. \A i \in 1..(L + 1) : e[i].forced # 0 => e[i].closed
  BY <1>2, <1>3, <1>7, Zenon
<1>10. \A i \in 1..(L + 1) : e[i].forced = 0 => e[i].l2data \in Seq(Txs)
  BY <1>2, <1>3, <1>7, Zenon
<1>11. e[1].forced = 0 /\ L + 1 >= 2
  <2>1. 1 \in 1..L /\ L + 1 >= 2
    BY <1>1
  <2> QED BY <1>3, <1>5, <2>1
<1>12. Rows(e)
  BY <1>5, <1>8, <1>9, <1>10, <1>11 DEF Rows
<1>13. \A i \in 1..(L + 1) : e[i].forced = 0 => SumCost(e[i].l2data) <= MaxResources
  BY <1>2, <1>4, <1>7, Zenon
<1>14. \A i \in 1..(L + 1) : e[i].closed => IsInjective(e[i].root.txs)
  BY <1>2, <1>4, <1>7, Zenon
<1>15. ASSUME NEW i \in 2..(L + 1), e[i].closed
       PROVE  e[i].root = Exec(e[i - 1].root, e[i].ger, e[i].l2data)
  <2>1. i \in 1..(L + 1) /\ i - 1 \in 1..L
    BY <1>1, <1>15
  <2>2. e[i - 1] = d[i - 1]
    BY <1>5, <2>1
  <2>3. CASE i = L + 1
    <3>1. i - 1 = L /\ e[i] = r
      BY <1>1, <1>5, <2>3
    <3> QED BY <1>2, <1>15, <2>2, <3>1
  <2>4. CASE i \in 1..L
    <3>1. i \in 2..L
      BY <1>1, <1>15, <2>4
    <3> QED BY <1>4, <1>5, <1>15, <2>2, <2>4, <3>1
  <2> QED BY <1>7, <2>1, <2>3, <2>4
<1>16. Len(e) = L + 1
  BY <1>5
<1>17. Limited(e) /\ Reproduces(e) /\ Injective(e)
  BY <1>13, <1>14, <1>15, <1>16 DEF Limited, Reproduces, Injective
<1> QED BY <1>12, <1>17 DEF Table, e

\* Numbers of forced batches, when no row changes its own.
LEMMA NumberedSame ==
  ASSUME NEW d, NEW e, NEW m, Numbered(d, m), Len(d) \in Nat, Len(e) = Len(d),
         \A i \in 1..Len(d) : e[i].forced = d[i].forced
  PROVE  Numbered(e, m)
<1>1. {e[i].forced : i \in 1..Len(e)} = {d[i].forced : i \in 1..Len(d)}
  OBVIOUS
<1>2. ASSUME NEW j \in 1..Len(d)
      PROVE  {e[i].forced : i \in 1..(j - 1)} = {d[i].forced : i \in 1..(j - 1)}
  <2>1. \A i \in 1..(j - 1) : i \in 1..Len(d)
    BY <1>2
  <2> QED BY <2>1
<1> QED BY <1>1, <1>2 DEF Numbered

\* A row more, forced or not.
LEMMA NumberedMore ==
  ASSUME NEW d \in Seq(Row), Len(d) >= 2, NEW m \in Nat, Numbered(d, m), NEW r \in Row
  PROVE  /\ r.forced = 0 => Numbered(Append(d, r), m)
         /\ r.forced = m + 1 => Numbered(Append(d, r), m + 1)
<1> DEFINE L == Len(d)
           e == Append(d, r)
           F(j) == {d[i].forced : i \in 1..j}
           G(j) == {e[i].forced : i \in 1..j}
<1>1. /\ L \in Nat /\ Len(e) = L + 1 /\ e[L + 1] = r /\ L >= 2
      /\ \A i \in 1..L : e[i] = d[i]
  BY AppendProperties
<1>2. F(L) = 0..m /\ \A j \in 1..L : d[j].forced # 0 => F(j - 1) = 0..(d[j].forced - 1)
  BY DEF Numbered
<1> HIDE DEF L, e
<1>3. ASSUME NEW j \in 0..L PROVE G(j) = F(j)
  <2>1. \A i \in 1..j : e[i] = d[i]
    BY <1>1, <1>3
  <2> QED BY <2>1
<1>4. G(L + 1) = F(L) \cup {r.forced}
  <2>1. \A i \in 1..(L + 1) : i \in 1..L \/ i = L + 1
    BY <1>1
  <2>2. (L + 1) \in 1..(L + 1) /\ 1..L \subseteq 1..(L + 1)
    BY <1>1
  <2>3. ASSUME NEW x \in G(L + 1) PROVE x \in F(L) \cup {r.forced}
    BY <1>1, <2>1, <2>3
  <2>4. ASSUME NEW x \in F(L) \cup {r.forced} PROVE x \in G(L + 1)
    BY <1>1, <2>2, <2>4
  <2> QED BY <2>3, <2>4
<1>5. ASSUME NEW k \in Nat, r.forced = 0 \/ r.forced = m + 1,
             k = IF r.forced = 0 THEN m ELSE m + 1
      PROVE  Numbered(e, k)
  <2>1. G(L + 1) = 0..k
    <3>1. G(L + 1) = (0..m) \cup {r.forced}
      BY <1>2, <1>4
    <3>2. (0..m) \cup {0} = 0..m /\ (0..m) \cup {m + 1} = 0..(m + 1)
      OBVIOUS
    <3>3. CASE r.forced = 0
      BY <1>5, <3>1, <3>2, <3>3
    <3>4. CASE r.forced # 0
      BY <1>5, <3>1, <3>2, <3>4
    <3> QED BY <3>3, <3>4
  <2>2. ASSUME NEW j \in 1..(L + 1), e[j].forced # 0
        PROVE  G(j - 1) = 0..(e[j].forced - 1)
    <3>1. CASE j \in 1..L
      <4>1. j - 1 \in 0..L /\ e[j] = d[j]
        BY <1>1, <3>1
      <4>2. G(j - 1) = F(j - 1)
        BY <1>3, <4>1
      <4>3. F(j - 1) = 0..(d[j].forced - 1)
        BY <1>2, <2>2, <3>1, <4>1
      <4> QED BY <4>1, <4>2, <4>3
    <3>2. CASE j = L + 1
      <4>1. j - 1 = L /\ L \in 0..L /\ e[j] = r
        BY <1>1, <3>2
      <4>2. G(L) = 0..m
        BY <1>2, <1>3, <4>1
      <4>3. r.forced - 1 = m
        BY <1>5, <2>2, <4>1
      <4> QED BY <4>1, <4>2, <4>3
    <3> QED BY <1>1, <2>2, <3>1, <3>2
  <2> QED BY <1>1, <2>1, <2>2 DEF Numbered
<1>6. r.forced = 0 => Numbered(e, m)
  BY <1>5
<1>7. r.forced = m + 1 => Numbered(e, m + 1)
  <2>1. m + 1 \in Nat /\ m + 1 # 0
    OBVIOUS
  <2> QED BY <1>5, <2>1
<1> QED BY <1>6, <1>7 DEF e

\* The number the closing signals manager and the finalizer ask for.
LEMMA TrustedForced ==
  ASSUME NEW m \in Nat, Numbered(db, m), db \in Seq(Row)
  PROVE  GetLastTrustedForcedBatchNumber = m
<1> DEFINE S == {b.forced : b \in ToSet(db)}
<1>1. S = {db[i].forced : i \in 1..Len(db)}
  BY DEF ToSet
<1>2. S = 0..m
  BY <1>1 DEF Numbered
<1> HIDE DEF S
<1>3. m \in S /\ \A y \in S : m >= y
  BY <1>2
<1>4. \A x \in S : (\A y \in S : x >= y) => x = m
  BY <1>2
<1>5. Max(S) = m
  BY <1>3, <1>4 DEF Max
<1> QED BY <1>5 DEF GetLastTrustedForcedBatchNumber, S

-----------------------------------------------------------------------------
(***************************************************************************)
(* Every transaction once.                                                 *)
(***************************************************************************)

\* A transaction leaves the pool and is executed.
LEMMA FreshExecutes ==
  ASSUME NEW s \in Seq(AllTxs), NEW p, NEW m, NEW t \in p, t \in Txs, m \in Nat, Fresh(s, p, m)
  PROVE  Fresh(Append(s, t), p \ {t}, m)
<1> DEFINE a == Append(s, t)
           L == Len(s)
<1>1. /\ L \in Nat /\ DOMAIN s = 1..L /\ DOMAIN a = 1..(L + 1) /\ a[L + 1] = t
      /\ \A i \in 1..L : a[i] = s[i]
  OBVIOUS
<1>2. /\ \A i, j \in 1..L : s[i] = s[j] => i = j
      /\ \A i \in 1..L : s[i] \notin p /\ s[i] <= NumTxs + m
  BY <1>1 DEF Fresh, IsInjective
<1>3. t <= NumTxs + m
  BY ConstantFacts
<1> HIDE DEF a, L
<1>4. ASSUME NEW i \in 1..(L + 1) PROVE (i \in 1..L /\ a[i] = s[i]) \/ (i = L + 1 /\ a[i] = t)
  BY <1>1, <1>4
<1>5. \A i, j \in 1..(L + 1) : a[i] = a[j] => i = j
  BY <1>2, <1>4, Zenon
<1>6. \A i \in 1..(L + 1) : a[i] \notin p \ {t} /\ a[i] <= NumTxs + m
  BY <1>2, <1>3, <1>4
<1> QED BY <1>1, <1>5, <1>6 DEF Fresh, IsInjective, a

\* The next forced batch is executed.
LEMMA FreshForced ==
  ASSUME NEW s \in Seq(AllTxs), NEW p, p \subseteq Txs, NEW m \in Nat, Fresh(s, p, m)
  PROVE  Fresh(Append(s, NumTxs + (m + 1)), p, m + 1)
<1> DEFINE t == NumTxs + (m + 1)
           a == Append(s, t)
           L == Len(s)
<1>1. /\ L \in Nat /\ DOMAIN s = 1..L /\ DOMAIN a = 1..(L + 1) /\ a[L + 1] = t
      /\ \A i \in 1..L : a[i] = s[i] /\ a[i] \in Int
  <2>1. t \in Int
    BY ConstantFacts
  <2>2. AllTxs \subseteq Int
    BY DEF AllTxs
  <2>3. s \in Seq(Int)
    BY <2>2, SeqMonotonic
  <2> HIDE DEF t
  <2>4. a \in Seq(Int) /\ Len(a) = L + 1 /\ a[L + 1] = t /\ \A i \in 1..L : a[i] = s[i]
    BY <2>1, <2>3, AppendProperties
  <2>5. \A i \in 1..L : s[i] \in Int
    BY <2>3
  <2> HIDE DEF a
  <2> QED BY <2>3, <2>4, <2>5
<1>2. /\ \A i, j \in 1..L : s[i] = s[j] => i = j
      /\ \A i \in 1..L : s[i] \notin p /\ s[i] <= NumTxs + m
  BY <1>1 DEF Fresh, IsInjective
<1> HIDE DEF a, L
<1>3. t \notin p /\ t <= NumTxs + (m + 1)
  BY ConstantFacts
<1>4. \A i \in 1..L : a[i] # t /\ a[i] <= NumTxs + (m + 1)
  BY <1>1, <1>2, ConstantFacts
<1> HIDE DEF t
<1>5. ASSUME NEW i \in 1..(L + 1) PROVE (i \in 1..L /\ a[i] = s[i]) \/ (i = L + 1 /\ a[i] = t)
  BY <1>1, <1>5
<1>6. \A i, j \in 1..(L + 1) : a[i] = a[j] => i = j
  BY <1>2, <1>4, <1>5, Zenon
<1>7. \A i \in 1..(L + 1) : a[i] \notin p
  BY <1>2, <1>3, <1>5, Zenon
<1>8. \A i \in 1..(L + 1) : a[i] <= NumTxs + (m + 1)
  BY <1>3, <1>4, <1>5
<1> QED BY <1>1, <1>6, <1>7, <1>8 DEF Fresh, IsInjective, a, t

\* What was executed and not stored is forgotten, and back in the pool.
LEMMA FreshRestarts ==
  ASSUME NEW r \in Seq(AllTxs), NEW s \in Seq(AllTxs), NEW k \in 0..Len(s), NEW l \in Seq(AllTxs),
         Len(l) = k, \A i \in 1..k : l[i] = s[i],
         NEW p, NEW w, \A x \in w : \E i \in (k + 1)..Len(s) : x = s[i],
         NEW m, Fresh(r \o s, p, m)
  PROVE  Fresh(r \o l, p \cup w, m)
<1> DEFINE a == r \o s
           b == r \o l
           L == Len(r)
<1>1. /\ L \in Nat /\ Len(s) \in Nat /\ k \in Nat /\ k <= Len(s)
  OBVIOUS
<1>2. /\ DOMAIN a = 1..(L + Len(s))
      /\ \A i \in 1..(L + Len(s)) : a[i] = IF i <= L THEN r[i] ELSE s[i - L]
  OBVIOUS
<1>3. /\ DOMAIN b = 1..(L + k)
      /\ \A i \in 1..(L + k) : b[i] = IF i <= L THEN r[i] ELSE l[i - L]
  OBVIOUS
<1>4. /\ \A i, j \in DOMAIN a : a[i] = a[j] => i = j
      /\ \A i \in DOMAIN a : a[i] \notin p /\ a[i] <= NumTxs + m
  BY DEF Fresh, IsInjective
<1> HIDE DEF a, b, L
<1>5. ASSUME NEW i \in 1..(L + k) PROVE i \in DOMAIN a /\ b[i] = a[i]
  <2>1. i \in 1..(L + Len(s)) /\ (i > L => i - L \in 1..k)
    BY <1>1, <1>5
  <2>2. CASE i <= L
    BY <1>2, <1>3, <1>5, <2>1, <2>2
  <2>3. CASE i > L
    <3>1. i - L \in 1..k /\ ~(i <= L)
      BY <1>1, <1>5, <2>1, <2>3
    <3>2. b[i] = l[i - L] /\ a[i] = s[i - L]
      BY <1>2, <1>3, <1>5, <2>1, <3>1
    <3>3. l[i - L] = s[i - L]
      BY <3>1
    <3> QED BY <1>2, <2>1, <3>2, <3>3
  <2> QED BY <1>1, <1>5, <2>2, <2>3
<1>6. \A i, j \in DOMAIN b : b[i] = b[j] => i = j
  BY <1>3, <1>4, <1>5
<1>7. ASSUME NEW i \in DOMAIN b PROVE b[i] \notin p \cup w /\ b[i] <= NumTxs + m
  <2>1. i \in DOMAIN a /\ b[i] = a[i] /\ i \in 1..(L + k)
    BY <1>3, <1>5, <1>7
  <2>2. b[i] \notin p /\ b[i] <= NumTxs + m
    BY <1>4, <2>1
  <2>3. ASSUME b[i] \in w PROVE FALSE
    <3>1. PICK j \in (k + 1)..Len(s) : b[i] = s[j]
      BY <2>3
    <3>2. L + j \in 1..(L + Len(s)) /\ ~(L + j <= L) /\ (L + j) - L = j /\ L + j # i
      BY <1>1, <2>1, <3>1
    <3>3. a[L + j] = s[j] /\ L + j \in DOMAIN a
      BY <1>2, <3>2
    <3> QED BY <1>4, <2>1, <3>1, <3>2, <3>3
  <2> QED BY <2>2, <2>3
<1> QED BY <1>6, <1>7 DEF Fresh, IsInjective, b

\* Fewer transactions in the pool.
LEMMA FreshShrinks ==
  ASSUME NEW s, NEW p, NEW w, w \subseteq p, NEW m, Fresh(s, p, m)
  PROVE  Fresh(s, w, m)
BY DEF Fresh

\* The transaction the worker returns waits in the pool and fits.
LEMMA FittingTx ==
  ASSUME pool \subseteq Txs, NEW t \in Txs, t = GetBestFittingTx
  PROVE  t \in pool /\ Cost[t] <= fin.batch.remaining
<1> DEFINE S == {x \in pool : Cost[x] <= fin.batch.remaining}
<1>1. S # {} /\ t = Min(S)
  <2>1. 0 \notin Txs
    BY ConstantFacts
  <2> QED BY <2>1 DEF GetBestFittingTx
<1>2. S \subseteq Nat
  <2>1. Txs \subseteq Nat
    BY ConstantFacts
  <2> QED BY <2>1
<1> HIDE DEF S
<1> DEFINE R == OpToRel(<, Nat)
<1>3. \E x \in S : \A y \in S : x <= y
  <2>1. IsWellFoundedOn(R, Nat)
    BY NatLessThanWellFounded
  <2>2. ASSUME NEW x \in Nat, NEW y \in Nat, y < x
        PROVE  <<y, x>> \in R
    BY <2>2 DEF OpToRel
  <2> HIDE DEF R
  <2>3. \E x \in S : \A y \in S : ~(<<y, x>> \in R)
    BY <1>1, <1>2, <2>1, WFMin
  <2>4. PICK x \in S : \A y \in S : ~(<<y, x>> \in R)
    BY <2>3
  <2>5. ASSUME NEW y \in S PROVE x <= y
    <3>1. x \in Nat /\ y \in Nat
      BY <1>2
    <3>2. ~(y < x)
      BY <2>2, <2>4, <3>1, Zenon
    <3> QED BY <3>1, <3>2
  <2> QED BY <2>5
<1>4. Min(S) \in S
  BY <1>3 DEF Min
<1> QED BY <1>1, <1>4 DEF S

-----------------------------------------------------------------------------
(***************************************************************************)
(* Steps that leave the batches as they are.                               *)
(***************************************************************************)

\* The fields of the finalizer, the signals and the goroutines.
LEMMA PartFacts ==
  ASSUME TypeOK
  PROVE  /\ fin.pc \in {"pick", "check", "close", "forced", "open", "halt"}
         /\ fin.ger \in Gers /\ fin.batch \in Wip
         /\ signals.forced \subseteq 1..MaxForced /\ signals.ger \in Gers
         /\ sent.forced \in 0..MaxForced /\ sent.ger \in Gers
         /\ sanity.unread \in Nat /\ sanity.read \in Checks
         /\ faults.left \in 0..MaxFaults /\ faults.seen \in SUBSET {"halt", "restart"}
<1>1. /\ fin.pc \in {"pick", "check", "close", "forced", "open", "halt"}
      /\ fin.ger \in Gers /\ fin.batch \in Wip
  BY DEF TypeOK, Fin
<1>2. signals.forced \subseteq 1..MaxForced /\ signals.ger \in Gers
  BY DEF TypeOK, Signals
<1>3. sent.forced \in 0..MaxForced /\ sent.ger \in Gers
  BY DEF TypeOK
<1>4. sanity.unread \in Nat /\ sanity.read \in Checks
  BY DEF TypeOK
<1>5. faults.left \in 0..MaxFaults /\ faults.seen \in SUBSET {"halt", "restart"}
  BY DEF TypeOK
<1> QED BY <1>1, <1>2, <1>3, <1>4, <1>5

\* The finalizer with another pc.
LEMMA PcChanged ==
  ASSUME TypeOK, NEW pc \in {"pick", "check", "close", "forced", "open", "halt"},
         fin' = [fin EXCEPT !.pc = pc]
  PROVE  fin' \in Fin /\ fin'.pc = pc /\ fin'.batch = fin.batch
BY DEF TypeOK, Fin

\* A step of this kind keeps what the invariant says of the batches.
LEMMA Quiet ==
  ASSUME IInv, db' = db, lastBlock' = lastBlock, pool' = pool, queue' = queue,
         fin'.batch = fin.batch, Len(forced) <= Len(forced'), Len(forced') \in Nat,
         fin'.pc \in {"pick", "check", "close"} => ~db[Len(db)].closed,
         fin'.pc \in {"forced", "open"} => db[Len(db)].closed
  PROVE  Table(db') /\ Once' /\ InStep'
<1>1. Table(db')
  BY DEF IInv
<1>2. Once'
  <2>1. PICK m \in 0..Len(forced) : Numbered(db, m) /\ Fresh(Tip.txs, pool, m)
    BY DEF IInv, Once
  <2>2. Tip' = Tip
    BY DEF Tip
  <2>3. m \in 0..Len(forced')
    BY DEF IInv, TypeOK
  <2>4. Numbered(db', m) /\ Fresh(Tip'.txs, pool', m)
    BY <2>1, <2>2
  <2> QED BY <2>3, <2>4 DEF Once
<1>3. InStep'
  <2>1. IF db[Len(db)].closed THEN OnlyForced
        ELSE \E f \in 0..Len(queue) : Working(fin.batch, db, queue, lastBlock, f)
    BY DEF IInv, InStep
  <2>2. IF db'[Len(db')].closed THEN OnlyForced'
        ELSE \E f \in 0..Len(queue') : Working(fin'.batch, db', queue', lastBlock', f)
    BY <2>1 DEF OnlyForced
  <2>3. /\ fin'.pc \in {"pick", "check", "close"} => ~db'[Len(db')].closed
        /\ fin'.pc \in {"forced", "open"} => db'[Len(db')].closed
    OBVIOUS
  <2> QED BY <2>2, <2>3 DEF InStep
<1> QED BY <1>1, <1>2, <1>3

\* A step of the finalizer that only goes on to its next part.
LEMMA GoesOn ==
  ASSUME IInv, UNCHANGED <<dbVars, pool, queue, final, sent, sanity, sequential, l1Vars>>,
         NEW pc \in {"pick", "check", "close", "forced", "open", "halt"},
         fin' = [fin EXCEPT !.pc = pc],
         pc \in {"pick", "check", "close"} => ~db[Len(db)].closed,
         pc \in {"forced", "open"} => db[Len(db)].closed,
         signals' \in Signals, signals'.forced \subseteq signals.forced,
         faults' \in [left : 0..MaxFaults, seen : SUBSET {"halt", "restart"}],
         sequential /\ pc = "halt" => "halt" \in faults'.seen
  PROVE  IInv'
<1>1. TypeOK
  BY DEF IInv
<1>2. fin' \in Fin /\ fin'.pc = pc /\ fin'.batch = fin.batch
  BY <1>1, PcChanged
<1>3. /\ ger' = ger /\ forced' = forced /\ db' = db /\ lastBlock' = lastBlock /\ pool' = pool
      /\ queue' = queue /\ final' = final /\ sent' = sent /\ sanity' = sanity
      /\ sequential' = sequential
  BY DEF dbVars, l1Vars
<1>4. TypeOK'
  BY <1>1, <1>2, <1>3 DEF TypeOK
<1>5. Len(forced) <= Len(forced') /\ Len(forced') \in Nat
  BY <1>1, <1>3 DEF TypeOK
<1>6. Table(db') /\ Once' /\ InStep'
  BY <1>2, <1>3, <1>5, Quiet
<1>7. Signalled'
  BY <1>3 DEF IInv, Signalled
<1>8. NoNeedlessHalt'
  BY <1>2, <1>3 DEF NoNeedlessHalt
<1> QED BY <1>4, <1>6, <1>7, <1>8 DEF IInv

\* A fault, and that it is seen.
LEMMA FaultFacts ==
  ASSUME TypeOK, NEW kind, NEW effect \in {"halt", "restart"}, Fault(kind, effect)
  PROVE  /\ faults' \in [left : 0..MaxFaults, seen : SUBSET {"halt", "restart"}]
         /\ effect \in faults'.seen
<1>1. faults.left \in 0..MaxFaults /\ faults.seen \in SUBSET {"halt", "restart"}
  BY PartFacts
<1>2. faults.left - 1 \in 0..MaxFaults
  BY <1>1, ConstantFacts DEF Fault
<1>3. faults.seen \cup {effect} \in SUBSET {"halt", "restart"}
  BY <1>1
<1> QED BY <1>2, <1>3 DEF Fault

\* NoTx, CheckBatch, finalizeBatch: the open batch stays as it is.
LEMMA LooksSafe ==
  ASSUME IInv, NoTx \/ CheckBatch \/ finalizeBatch
  PROVE  IInv'
<1>1. /\ UNCHANGED <<dbVars, pool, queue, final, sent, sanity, sequential, l1Vars>>
      /\ signals' = signals /\ faults' = faults /\ fin.pc \in {"pick", "check"}
  BY DEF NoTx, CheckBatch, finalizeBatch, finOnly
<1>2. TypeOK /\ ~db[Len(db)].closed
  BY <1>1 DEF IInv, InStep
<1>3. /\ signals' \in Signals /\ signals'.forced \subseteq signals.forced
      /\ faults' \in [left : 0..MaxFaults, seen : SUBSET {"halt", "restart"}]
  BY <1>1, <1>2 DEF TypeOK
<1>4. \/ fin' = [fin EXCEPT !.pc = "check"] \/ fin' = [fin EXCEPT !.pc = "pick"]
      \/ fin' = [fin EXCEPT !.pc = "close"] \/ (fin' = [fin EXCEPT !.pc = "halt"] /\ ~sequential)
  BY DEF NoTx, CheckBatch, finalizeBatch, halt
<1> QED BY <1>1, <1>2, <1>3, <1>4, GoesOn

\* ForcedDone
LEMMA ForcedDoneSafe ==
  ASSUME IInv, ForcedDone
  PROVE  IInv'
<1>1. TypeOK /\ db[Len(db)].closed
  BY DEF IInv, InStep, ForcedDone
<1>2. /\ UNCHANGED <<dbVars, pool, queue, final, sent, sanity, sequential, l1Vars>>
      /\ faults' = faults /\ fin' = [fin EXCEPT !.pc = "open"]
      /\ signals' = [signals EXCEPT !.forced = {}, !.forcedDeadline = FALSE]
  BY DEF ForcedDone
<1>3. signals' \in Signals /\ signals'.forced = {}
  BY <1>1, <1>2 DEF TypeOK, Signals
<1>4. faults' \in [left : 0..MaxFaults, seen : SUBSET {"halt", "restart"}]
  BY <1>1, <1>2 DEF TypeOK
<1>5. signals'.forced \subseteq signals.forced
  BY <1>3
<1> QED BY <1>1, <1>2, <1>3, <1>4, <1>5, GoesOn

\* A forced batch that halts the finalizer.
LEMMA HaltSafe ==
  ASSUME IInv, NEW kind, Fault(kind, "halt"), halt,
         UNCHANGED <<l1Vars, dbVars, pool, final, queue, signals, sent, sanity, sequential>>
  PROVE  IInv'
<1>1. TypeOK
  BY DEF IInv
<1>2. /\ faults' \in [left : 0..MaxFaults, seen : SUBSET {"halt", "restart"}]
      /\ "halt" \in faults'.seen
  BY <1>1, FaultFacts
<1>3. fin' = [fin EXCEPT !.pc = "halt"]
  BY DEF halt
<1>4. signals' \in Signals /\ signals'.forced \subseteq signals.forced
  BY <1>1 DEF TypeOK
<1> QED BY <1>2, <1>3, <1>4, GoesOn

\* L1 and the closing signals manager.
LEMMA SignalsSafe ==
  ASSUME IInv, NewGer \/ NewForcedBatch \/ checkForcedBatches \/ checkGERUpdate
  PROVE  IInv'
<1>1. TypeOK
  BY DEF IInv
<1>2. /\ db' = db /\ lastBlock' = lastBlock /\ pool' = pool /\ queue' = queue
      /\ final' = final /\ fin' = fin /\ sanity' = sanity /\ sequential' = sequential
      /\ faults' = faults
  BY DEF NewGer, NewForcedBatch, checkForcedBatches, checkGERUpdate, signalOnly, dbVars
<1>3. /\ ger \in Gers /\ forced \in Seq(Gers) /\ Len(forced) \in Nat /\ Len(forced) <= MaxForced
      /\ signals \in Signals /\ sent \in [forced : 0..MaxForced, ger : Gers]
  BY <1>1 DEF TypeOK
<1>4. signals.forced \subseteq 1..Len(forced) /\ sent.forced <= Len(forced)
  BY DEF IInv, Signalled
<1>5. /\ ger' \in Gers /\ forced' \in Seq(Gers) /\ Len(forced') \in Nat /\ Len(forced') <= MaxForced
      /\ signals' \in Signals /\ sent' \in [forced : 0..MaxForced, ger : Gers]
      /\ signals'.forced \subseteq 1..Len(forced') /\ sent'.forced <= Len(forced')
      /\ Len(forced) <= Len(forced')
  <2>1. CASE NewGer
    <3>1. ger' = ger + 1 /\ ger < MaxGer /\ forced' = forced /\ signals' = signals /\ sent' = sent
      BY <2>1 DEF NewGer
    <3>2. ger' \in Gers
      BY <1>3, <3>1, ConstantFacts DEF Gers
    <3> QED BY <1>3, <1>4, <3>1, <3>2
  <2>2. CASE NewForcedBatch
    <3>1. /\ ger' = ger /\ forced' = Append(forced, ger) /\ signals' = signals /\ sent' = sent
          /\ Len(forced) < ForcedBound[sequential]
      BY <2>2 DEF NewForcedBatch
    <3>2. ForcedBound[sequential] \in 0..MaxForced
      BY <1>1, FinalizerAssumption DEF TypeOK
    <3>3. forced' \in Seq(Gers) /\ Len(forced') = Len(forced) + 1
      BY <1>3, <3>1, AppendProperties
    <3>4. Len(forced') \in Nat /\ Len(forced') <= MaxForced /\ Len(forced) <= Len(forced')
      BY <1>3, <3>1, <3>2, <3>3, ConstantFacts
    <3>5. signals.forced \subseteq 1..Len(forced') /\ sent.forced <= Len(forced')
      <4>1. sent.forced \in Nat
        BY <1>1, PartFacts
      <4>2. 1..Len(forced) \subseteq 1..Len(forced')
        BY <1>3, <3>4
      <4> QED BY <1>3, <1>4, <3>3, <4>1, <4>2
    <3> QED BY <1>3, <3>1, <3>3, <3>4, <3>5
  <2>3. CASE checkForcedBatches
    <3> DEFINE k == LastForcedSent + 1
    <3>1. LastForcedSent \in Nat
      <4>1. PICK m \in 0..Len(forced) : Numbered(db, m)
        BY DEF IInv, Once
      <4>2. m \in Nat
        BY <1>3
      <4>3. GetLastTrustedForcedBatchNumber = m
        BY <1>1, <4>1, <4>2, TrustedForced DEF TypeOK
      <4>4. sent.forced \in Nat
        BY <1>1, PartFacts
      <4> QED BY <4>2, <4>3, <4>4 DEF LastForcedSent
    <3>2. /\ ger' = ger /\ forced' = forced /\ LastForcedSent < Len(forced)
          /\ sent' = [sent EXCEPT !.forced = k]
          /\ signals' = [signals EXCEPT !.forced = @ \cup {k}, !.forcedDeadline = TRUE]
      BY <2>3 DEF checkForcedBatches, signalOnly, l1Vars
    <3>3. k \in 1..Len(forced) /\ k \in 1..MaxForced /\ k \in 0..MaxForced
      BY <1>3, <3>1, <3>2, ConstantFacts
    <3> HIDE DEF k
    <3>4. sent' \in [forced : 0..MaxForced, ger : Gers] /\ sent'.forced = k
      BY <1>3, <3>2, <3>3
    <3>5. signals' \in Signals /\ signals'.forced = signals.forced \cup {k}
      BY <1>3, <3>2, <3>3 DEF Signals
    <3>6. k <= Len(forced)
      BY <1>3, <3>3
    <3> QED BY <1>3, <1>4, <3>2, <3>3, <3>4, <3>5, <3>6
  <2>4. CASE checkGERUpdate
    <3>1. /\ ger' = ger /\ forced' = forced /\ sent' = [sent EXCEPT !.ger = ger]
          /\ signals' = [signals EXCEPT !.ger = ger, !.gerDeadline = TRUE]
      BY <2>4 DEF checkGERUpdate, signalOnly, l1Vars
    <3>2. sent' \in [forced : 0..MaxForced, ger : Gers] /\ sent'.forced = sent.forced
      BY <1>3, <3>1
    <3>3. signals' \in Signals /\ signals'.forced = signals.forced
      BY <1>3, <3>1 DEF Signals
    <3> QED BY <1>3, <1>4, <3>1, <3>2, <3>3
  <2> QED BY <2>1, <2>2, <2>3, <2>4
<1>6. TypeOK'
  BY <1>1, <1>2, <1>5 DEF TypeOK
<1>7. Table(db') /\ Once' /\ InStep'
  BY <1>2, <1>5, Quiet DEF IInv, InStep
<1>8. Signalled'
  BY <1>5 DEF Signalled
<1>9. NoNeedlessHalt'
  BY <1>2 DEF IInv, NoNeedlessHalt
<1> QED BY <1>6, <1>7, <1>8, <1>9 DEF IInv

\* The parallel sanity checks.
LEMMA SanitySafe ==
  ASSUME IInv, SanityCheckReads \/ reprocessFullBatch
  PROVE  IInv'
<1>1. TypeOK
  BY DEF IInv
<1>2. UNCHANGED <<l1Vars, dbVars, pool, final, queue, fin, signals, sent, sequential, faults>>
  BY DEF SanityCheckReads, reprocessFullBatch
<1>3. /\ ger' = ger /\ forced' = forced /\ db' = db /\ lastBlock' = lastBlock /\ pool' = pool
      /\ final' = final /\ queue' = queue /\ fin' = fin /\ signals' = signals /\ sent' = sent
      /\ sequential' = sequential /\ faults' = faults
  BY <1>2 DEF l1Vars, dbVars
<1>4. /\ sanity \in [unread : Nat, read : Checks, failed : BOOLEAN]
      /\ \A c \in sanity.read : c.n < Len(db)
      /\ fin.batch \in Wip /\ fin.batch.n < Len(db)
  BY <1>1, PartFacts DEF TypeOK
<1>5. sanity.unread \in Nat /\ sanity.read \in Checks /\ sanity.failed \in BOOLEAN
  BY <1>4
<1>6. /\ sanity' \in [unread : Nat, read : Checks, failed : BOOLEAN]
      /\ \A c \in sanity'.read : c.n < Len(db)
  <2>1. CASE SanityCheckReads
    <3> DEFINE c == [n |-> fin.batch.n, initial |-> fin.batch.initial, root |-> fin.batch.root]
    <3>1. c \in [n : Nat, initial : Root, root : Root] /\ c.n < Len(db)
      BY <1>4, FieldFacts
    <3>2. sanity' = [sanity EXCEPT !.unread = @ - 1, !.read = @ \cup {c}] /\ sanity.unread > 0
      BY <2>1 DEF SanityCheckReads
    <3> HIDE DEF c
    <3>3. sanity.unread - 1 \in Nat /\ sanity.read \cup {c} \in Checks
      BY <1>5, <3>1, <3>2 DEF Checks
    <3>4. sanity'.read = sanity.read \cup {c}
      BY <1>4, <3>2
    <3>5. sanity' \in [unread : Nat, read : Checks, failed : BOOLEAN]
      BY <1>4, <3>2, <3>3
    <3> QED BY <1>4, <3>1, <3>4, <3>5
  <2>2. CASE reprocessFullBatch
    <3>1. PICK c \in sanity.read :
            sanity' = [sanity EXCEPT !.read = @ \ {c},
                         !.failed = @ \/ Mismatch(c.n, c.initial, c.root)]
      BY <2>2 DEF reprocessFullBatch
    <3> DEFINE x == sanity.failed \/ Mismatch(c.n, c.initial, c.root)
    <3>2. x \in BOOLEAN
      BY <1>5
    <3>3. sanity' = [sanity EXCEPT !.read = sanity.read \ {c}, !.failed = x]
      BY <3>1, Zenon
    <3> HIDE DEF x
    <3>4. sanity.read \ {c} \in Checks
      BY <1>5 DEF Checks
    <3>5. /\ sanity'.read = sanity.read \ {c}
          /\ sanity' \in [unread : Nat, read : Checks, failed : BOOLEAN]
      BY <1>4, <3>2, <3>3, <3>4
    <3> QED BY <1>4, <3>5
  <2> QED BY <2>1, <2>2
<1>7. TypeOK'
  BY <1>1, <1>3, <1>6 DEF TypeOK
<1>8. Len(forced) \in Nat /\ Len(forced) <= Len(forced)
  BY <1>1 DEF TypeOK
<1>9. Table(db') /\ Once' /\ InStep'
  BY <1>3, <1>8, Quiet DEF IInv, InStep
<1>10. Signalled' /\ NoNeedlessHalt'
  BY <1>3 DEF IInv, Signalled, NoNeedlessHalt
<1> QED BY <1>7, <1>9, <1>10 DEF IInv

-----------------------------------------------------------------------------
(***************************************************************************)
(* Steps that execute transactions.                                        *)
(***************************************************************************)

\* The open batch, and what waits to be stored.
LEMMA OpenBatch ==
  ASSUME IInv, ~db[Len(db)].closed
  PROVE  \E f \in 0..Len(queue) :
           Stored(db, queue, f) /\ Working(fin.batch, db, queue, lastBlock, f)
<1>1. /\ db \in Seq(Row) /\ Len(db) >= 2 /\ db[Len(db)] \in Row
      /\ GoodRow(db[Len(db)], db[Len(db) - 1].root)
  BY LastIsGood DEF IInv
<1>2. db[Len(db)].l2data \in Seq(Txs)
  BY <1>1, Zenon DEF GoodRow
<1>3. PICK f \in 0..Len(queue) : Working(fin.batch, db, queue, lastBlock, f)
  BY DEF IInv, InStep
<1>4. Split(db, queue, f)
  BY <1>3 DEF Working
<1>5. queue \in Seq(Pending)
  BY DEF IInv, TypeOK
<1>6. Stored(db, queue, f)
  BY <1>1, <1>2, <1>4, <1>5 DEF Stored
<1> QED BY <1>3, <1>6

\* A transaction that was executed and not taken has used resources.
LEMMA WorkingLess ==
  ASSUME NEW d, NEW q, NEW f, Stored(d, q, f), NEW lb,
         NEW b \in Wip, Working(b, d, q, lb, f),
         NEW x \in Wip, x.n = b.n, x.ger = b.ger, x.initial = b.initial, x.root = b.root,
         x.count = b.count, x.remaining <= b.remaining
  PROVE  Working(x, d, q, lb, f)
<1>1. SumCost(All(d, q, f)) \in Nat
  BY AllFacts, UnitsFinite
<1>2. b.remaining \in Nat /\ x.remaining \in Nat /\ MaxResources \in Nat
  BY FieldFacts, ConstantFacts
<1>3. b.remaining + SumCost(All(d, q, f)) <= MaxResources
  BY DEF Working
<1>4. x.remaining + SumCost(All(d, q, f)) <= MaxResources
  BY <1>1, <1>2, <1>3
<1> QED BY <1>4 DEF Working

\* Such a step, or one that only takes transactions out of the pool.
LEMMA SpentSafe ==
  ASSUME IInv, ~db[Len(db)].closed, UNCHANGED <<finOnly, queue>>,
         fin' \in Fin, fin'.pc = "check", NEW x, fin'.batch = x,
         x.n = fin.batch.n, x.ger = fin.batch.ger, x.initial = fin.batch.initial,
         x.root = fin.batch.root, x.count = fin.batch.count,
         x.remaining <= fin.batch.remaining,
         pool' \subseteq pool, final' \subseteq Txs
  PROVE  IInv'
<1>1. TypeOK
  BY DEF IInv
<1>2. /\ ger' = ger /\ forced' = forced /\ db' = db /\ lastBlock' = lastBlock
      /\ queue' = queue /\ signals' = signals /\ sent' = sent /\ sanity' = sanity
      /\ sequential' = sequential /\ faults' = faults
  BY DEF finOnly, l1Vars, dbVars
<1>3. PICK f \in 0..Len(queue) :
        Stored(db, queue, f) /\ Working(fin.batch, db, queue, lastBlock, f)
  BY OpenBatch
<1>4. fin.batch \in Wip /\ x \in Wip
  BY <1>1, PartFacts DEF Fin
<1>5. Working(x, db, queue, lastBlock, f)
  BY <1>3, <1>4, WorkingLess
<1>6. TypeOK'
  BY <1>1, <1>2 DEF TypeOK
<1>7. Table(db')
  BY <1>2 DEF IInv
<1>8. InStep'
  <2>1. ~db'[Len(db')].closed
    BY <1>2
  <2>2. Working(fin'.batch, db', queue', lastBlock', f) /\ f \in 0..Len(queue')
    BY <1>2, <1>5
  <2> QED BY <2>1, <2>2 DEF InStep
<1>9. Once'
  <2>1. PICK m \in 0..Len(forced) : Numbered(db, m) /\ Fresh(Tip.txs, pool, m)
    BY DEF IInv, Once
  <2>2. Tip' = Tip
    BY <1>2 DEF Tip
  <2>3. Fresh(Tip.txs, pool', m)
    BY <2>1, FreshShrinks
  <2> QED BY <1>2, <2>1, <2>2, <2>3 DEF Once
<1>10. Signalled' /\ NoNeedlessHalt'
  BY <1>2 DEF IInv, Signalled, NoNeedlessHalt
<1> QED BY <1>6, <1>7, <1>8, <1>9, <1>10 DEF IInv

\* A transaction is executed into the open batch b.
LEMMA ExecutedSafe ==
  ASSUME IInv, ~db[Len(db)].closed, NEW t \in Txs, t \in pool, NEW b \in Wip,
         b.n = fin.batch.n, b.ger = fin.batch.ger, b.initial = fin.batch.initial,
         b.root = fin.batch.root, b.count = fin.batch.count,
         b.remaining <= fin.batch.remaining,
         Executed(t, b), UNCHANGED finOnly, final' \subseteq Txs
  PROVE  IInv'
<1>1. TypeOK
  BY DEF IInv
<1>2. /\ ger' = ger /\ forced' = forced /\ db' = db /\ lastBlock' = lastBlock
      /\ signals' = signals /\ sent' = sent /\ sanity' = sanity
      /\ sequential' = sequential /\ faults' = faults
  BY DEF finOnly, l1Vars, dbVars
<1>3. PICK f \in 0..Len(queue) :
        Stored(db, queue, f) /\ Working(fin.batch, db, queue, lastBlock, f)
  BY OpenBatch
<1>4. fin.batch \in Wip
  BY <1>1, PartFacts
<1>5. Working(b, db, queue, lastBlock, f)
  BY <1>3, <1>4, WorkingLess
<1> DEFINE root == processTransaction(b, <<t>>)
           x == [b EXCEPT !.root = root, !.count = @ + 1, !.remaining = @ - Cost[t]]
           e == [tx |-> t, n |-> b.n, root |-> root]
<1>6. /\ Cost[t] <= b.remaining
      /\ fin' = [fin EXCEPT !.pc = "check", !.batch = x]
      /\ queue' = Append(queue, e)
      /\ pool' = pool \ {t}
  BY DEF Executed
<1>7. /\ b.n \in Nat /\ b.ger \in Gers /\ b.root \in Root /\ b.count \in Nat
      /\ b.remaining \in 0..MaxResources /\ Cost[t] \in Nat /\ MaxResources \in Nat /\ t \in AllTxs
  BY FieldFacts, ConstantFacts
<1>8. root \in Root
  <2>1. 0 \in Gers /\ <<t>> \in Seq(AllTxs)
    BY <1>7, ConstantFacts
  <2> QED BY <1>7, <2>1, ExecFacts DEF processTransaction
<1> HIDE DEF root
<1>9. b.count + 1 \in Nat /\ b.remaining - Cost[t] \in 0..MaxResources
  BY <1>6, <1>7
<1>10. /\ x \in Wip /\ x.n = b.n /\ x.ger = b.ger /\ x.initial = b.initial
       /\ x.count = b.count + 1 /\ x.root = root /\ x.remaining = b.remaining - Cost[t]
  BY <1>8, <1>9 DEF Wip
<1>11. e \in Pending /\ e.tx = t /\ e.n = b.n /\ e.root = root
  BY <1>7, <1>8 DEF Pending
<1> HIDE DEF x, e
<1>12. IsExecuted(b, x, e)
  <2>1. x.remaining + Cost[e.tx] <= b.remaining
    BY <1>7, <1>10, <1>11
  <2>2. x.root = processTransaction(b, <<e.tx>>)
    BY <1>10, <1>11 DEF root
  <2> QED BY <1>10, <1>11, <2>1, <2>2 DEF IsExecuted
<1>14. /\ Stored(db, Append(queue, e), f) /\ Working(x, db, Append(queue, e), lastBlock, f)
       /\ x.root.txs = Append(b.root.txs, e.tx)
  BY <1>3, <1>5, <1>12, WorkingExecutes
<1>15. fin' \in Fin /\ fin'.batch = x /\ fin'.pc = "check"
  BY <1>1, <1>6, <1>10 DEF TypeOK, Fin
<1>16. /\ queue' \in Seq(Pending) /\ Len(queue') = Len(queue) + 1 /\ Len(queue) \in Nat
       /\ \A i \in 1..Len(queue') : queue'[i].n < Len(db)
  <2>1. queue \in Seq(Pending) /\ \A i \in 1..Len(queue) : queue[i].n < Len(db)
    BY <1>1 DEF TypeOK
  <2>2. /\ queue' \in Seq(Pending) /\ Len(queue') = Len(queue) + 1 /\ Len(queue) \in Nat
        /\ queue'[Len(queue) + 1] = e /\ \A i \in 1..Len(queue) : queue'[i] = queue[i]
    BY <1>6, <1>11, <2>1, AppendProperties
  <2>3. e.n < Len(db)
    BY <1>1, <1>11 DEF TypeOK
  <2>4. ASSUME NEW i \in 1..Len(queue') PROVE queue'[i].n < Len(db)
    <3>1. i \in 1..Len(queue) \/ i = Len(queue) + 1
      BY <2>2, <2>4
    <3> QED BY <2>1, <2>2, <2>3, <3>1
  <2> QED BY <2>2, <2>4
<1>17. x.n < Len(db)
  BY <1>1, <1>10 DEF TypeOK
<1>18. TypeOK'
  BY <1>1, <1>2, <1>6, <1>15, <1>16, <1>17 DEF TypeOK
<1>19. Table(db')
  BY <1>2 DEF IInv
<1>20. InStep'
  <2>1. ~db'[Len(db')].closed
    BY <1>2
  <2>2. Working(fin'.batch, db', queue', lastBlock', f)
    BY <1>2, <1>6, <1>14, <1>15
  <2>3. f \in 0..Len(queue')
    BY <1>16
  <2> QED BY <1>15, <2>1, <2>2, <2>3 DEF InStep
<1>21. Once'
  <2>1. PICK m \in 0..Len(forced) : Numbered(db, m) /\ Fresh(Tip.txs, pool, m)
    BY DEF IInv, Once
  <2>2. Tip = fin.batch.root /\ Tip' = x.root
    BY <1>2, <1>15 DEF Tip
  <2>3. Tip'.txs = Append(Tip.txs, t) /\ Tip.txs \in Seq(AllTxs)
    BY <1>7, <1>11, <1>14, <2>2, RootFacts
  <2>4. m \in Nat
    BY <1>1 DEF TypeOK
  <2>5. Fresh(Append(Tip.txs, t), pool \ {t}, m)
    BY <2>1, <2>3, <2>4, FreshExecutes
  <2>6. Numbered(db', m) /\ Fresh(Tip'.txs, pool', m) /\ m \in 0..Len(forced')
    BY <1>2, <1>6, <2>1, <2>3, <2>5
  <2> QED BY <2>6 DEF Once
<1>22. Signalled' /\ NoNeedlessHalt'
  BY <1>2, <1>15 DEF IInv, Signalled, NoNeedlessHalt
<1> QED BY <1>18, <1>19, <1>20, <1>21, <1>22 DEF IInv

\* ExecuteTx, ReprocessTx and RejectTx.
LEMMA TxSafe ==
  ASSUME IInv, NEW t \in Txs, ExecuteTx(t) \/ ReprocessTx(t) \/ RejectTx(t)
  PROVE  IInv'
<1>1. TypeOK
  BY DEF IInv
<1>2. fin.pc = "pick" /\ t = GetBestFittingTx
  BY DEF ExecuteTx, ReprocessTx, RejectTx
<1>3. ~db[Len(db)].closed
  BY <1>2 DEF IInv, InStep
<1>4. t \in pool /\ Cost[t] <= fin.batch.remaining
  BY <1>1, <1>2, FittingTx DEF TypeOK
<1>5. fin.batch \in Wip /\ fin \in Fin
  BY <1>1, PartFacts DEF TypeOK
<1>6. fin.batch.remaining \in 0..MaxResources /\ Cost[t] \in Nat /\ MaxResources \in Nat
  BY <1>5, FieldFacts, ConstantFacts
<1>7. CASE ExecuteTx(t)
  <2>1. Executed(t, fin.batch) /\ UNCHANGED finOnly /\ final' = final
    BY <1>7 DEF ExecuteTx
  <2>2. final' \subseteq Txs /\ fin.batch.remaining <= fin.batch.remaining
    BY <1>1, <1>6, <2>1 DEF TypeOK
  <2> QED BY <1>3, <1>4, <1>5, <2>1, <2>2, ExecutedSafe
<1>8. CASE RejectTx(t)
  <2>1. UNCHANGED <<finOnly, final, queue>> /\ pool' = pool \ {t} /\ fin' = [fin EXCEPT !.pc = "check"]
    BY <1>8 DEF RejectTx
  <2>2. fin' \in Fin /\ fin'.pc = "check" /\ fin'.batch = fin.batch
    BY <1>1, <2>1, PcChanged
  <2>3. final' \subseteq Txs /\ fin.batch.remaining <= fin.batch.remaining /\ pool' \subseteq pool
    BY <1>1, <1>6, <2>1 DEF TypeOK
  <2> QED BY <1>3, <2>1, <2>2, <2>3, SpentSafe
<1>9. CASE ReprocessTx(t)
  <2> DEFINE b == [fin.batch EXCEPT !.remaining = @ - Cost[t]]
  <2>1. fin.batch.remaining - Cost[t] \in 0..MaxResources
    BY <1>4, <1>6
  <2>2. /\ b \in Wip /\ b.n = fin.batch.n /\ b.ger = fin.batch.ger /\ b.initial = fin.batch.initial
        /\ b.root = fin.batch.root /\ b.count = fin.batch.count
        /\ b.remaining = fin.batch.remaining - Cost[t]
    BY <1>5, <2>1 DEF Wip
  <2>3. /\ UNCHANGED finOnly /\ final' = final \cup {t}
        /\ \/ Executed(t, b)
           \/ fin' = [fin EXCEPT !.pc = "check", !.batch = b] /\ UNCHANGED <<pool, queue>>
    BY <1>9 DEF ReprocessTx
  <2> HIDE DEF b
  <2>4. b.remaining <= fin.batch.remaining
    BY <1>6, <2>2
  <2>5. final' \subseteq Txs
    BY <1>1, <2>3 DEF TypeOK
  <2>6. CASE Executed(t, b)
    BY <1>3, <1>4, <2>2, <2>3, <2>4, <2>5, <2>6, ExecutedSafe
  <2>7. CASE fin' = [fin EXCEPT !.pc = "check", !.batch = b] /\ UNCHANGED <<pool, queue>>
    <3>1. fin' \in Fin /\ fin'.pc = "check" /\ fin'.batch = b
      BY <1>5, <2>2, <2>7 DEF Fin
    <3>2. UNCHANGED <<finOnly, queue>> /\ pool' \subseteq pool
      BY <2>3, <2>7
    <3> QED BY <1>3, <2>2, <2>4, <2>5, <3>1, <3>2, SpentSafe
  <2> QED BY <2>3, <2>6, <2>7
<1> QED BY <1>7, <1>8, <1>9

-----------------------------------------------------------------------------
(***************************************************************************)
(* Steps that close, add and open batches.                                 *)
(***************************************************************************)

\* With everything stored, the root of the batch is what its row gives: the
\* sanity check finds no difference.
LEMMA SettledFacts ==
  ASSUME NEW d, NEW q, q = <<>>, NEW f, Stored(d, q, f), NEW lb,
         NEW b \in Wip, Working(b, d, q, lb, f)
  PROVE  /\ Settled(b) \in Wip /\ Settled(b).n = b.n /\ Settled(b).initial = b.initial
         /\ Settled(b).root = Exec(d[Len(d) - 1].root, d[Len(d)].ger, d[Len(d)].l2data)
         /\ Settled(b).root.txs = b.root.txs
<1> DEFINE l == d[Len(d)].l2data
           s == All(d, q, f)
           i == b.initial
           g == b.ger
<1>1. /\ b.n = Len(d) - 1 /\ g = d[Len(d)].ger /\ i = d[Len(d) - 1].root
      /\ b.count = Len(s)
      /\ b.root = IF b.count = 0 THEN i ELSE Exec(i, g, s)
  BY DEF Working
<1>2. l \in Seq(Txs) /\ Len(l) \in Nat /\ f = 0 /\ Len(q) = 0
  BY DEF Stored, Split
<1>3. s = l
  <2>1. /\ s \in Seq(Txs) /\ Len(s) = Len(l) + (Len(q) - f)
        /\ \A j \in 1..Len(l) : s[j] = l[j]
    BY AllFacts
  <2>2. Len(s) = Len(l)
    BY <1>2, <2>1
  <2> HIDE DEF s, l
  <2> QED BY <1>2, <2>1, <2>2, SeqEqual
<1>4. g \in Gers /\ i \in Root /\ b.root \in Root /\ i.txs \in Seq(AllTxs) /\ l \in Seq(AllTxs)
  BY <1>2, FieldFacts, RootFacts, TxsInAll
<1> HIDE DEF l, s, i, g
<1>5. CASE b.count = 0
  <2>1. l = <<>> /\ b.root = i
    BY <1>1, <1>2, <1>3, <1>5
  <2> DEFINE r == Exec(i, g, <<>>)
  <2>2. r \in Root /\ r.txs = i.txs \o <<>>
    <3>1. <<>> \in Seq(AllTxs)
      OBVIOUS
    <3> QED BY <1>4, <3>1, ExecFacts
  <2>3. r.txs = i.txs
    BY <1>4, <2>2
  <2>4. Settled(b) = [b EXCEPT !.root = r]
    BY <1>5, <2>1 DEF Settled, processTransaction, i, g
  <2> HIDE DEF r
  <2>5. Settled(b) \in Wip /\ Settled(b).n = b.n /\ Settled(b).initial = b.initial /\ Settled(b).root = r
    BY <2>2, <2>4 DEF Wip
  <2>6. r = Exec(d[Len(d) - 1].root, d[Len(d)].ger, d[Len(d)].l2data)
    BY <1>1, <2>1 DEF r, l
  <2>7. Settled(b).root.txs = b.root.txs
    BY <2>1, <2>3, <2>5
  <2> QED BY <2>5, <2>6, <2>7
<1>6. CASE b.count # 0
  <2>1. b.root = Exec(i, g, l)
    BY <1>1, <1>3, <1>6
  <2>2. b.root.txs = i.txs \o l
    BY <1>4, <2>1, ExecFacts
  <2>3. Len(i.txs \o l) = Len(i.txs) + Len(l) /\ Len(l) # 0 /\ Len(i.txs) \in Nat
    BY <1>1, <1>2, <1>3, <1>4, <1>6, ConcatProperties
  <2>4. b.root # i
    BY <1>2, <2>2, <2>3
  <2>5. Settled(b) = b
    BY <2>4 DEF Settled, i
  <2>6. b.root = Exec(d[Len(d) - 1].root, d[Len(d)].ger, d[Len(d)].l2data)
    BY <1>1, <2>1 DEF l
  <2> QED BY <2>5, <2>6
<1> QED BY <1>5, <1>6

\* CloseBatch
LEMMA CloseSafe ==
  ASSUME IInv, CloseBatch
  PROVE  IInv'
<1> DEFINE b == Settled(fin.batch)
           L == Len(db)
           r == db[L]
           c == [r EXCEPT !.closed = TRUE, !.root = b.root]
           e == [db EXCEPT ![L] = c]
           next == IF signals.forced = {} THEN "open" ELSE "forced"
<1>1. TypeOK /\ Table(db)
  BY DEF IInv
<1>2. fin.pc = "close" /\ queue = <<>> /\ ~r.closed
  BY DEF CloseBatch, IInv, InStep
<1>3. PICK f \in 0..Len(queue) :
        Stored(db, queue, f) /\ Working(fin.batch, db, queue, lastBlock, f)
  BY <1>2, OpenBatch
<1>4. /\ db \in Seq(Row) /\ L \in Nat /\ L >= 2 /\ r \in Row /\ db[L - 1] \in Row
      /\ GoodRow(r, db[L - 1].root)
  BY <1>1, LastIsGood
<1>5. fin.batch \in Wip /\ fin \in Fin /\ fin.batch.n = L - 1 /\ fin.batch.initial = db[L - 1].root
  BY <1>1, <1>3, PartFacts DEF TypeOK, Working
<1>6. /\ b \in Wip /\ b.n = L - 1 /\ b.initial = db[L - 1].root
      /\ b.root = Exec(db[L - 1].root, r.ger, r.l2data)
      /\ b.root.txs = fin.batch.root.txs
  BY <1>2, <1>3, <1>5, SettledFacts
<1>7. b.n + 1 = L /\ b.root \in Root
  BY <1>4, <1>6, FieldFacts
<1>8. ~Mismatch(b.n, b.initial, b.root)
  BY <1>6, <1>7 DEF Mismatch
<1>9. Closed(b) = e
  BY <1>7 DEF Closed
<1>10. /\ db' = e /\ fin' = [fin EXCEPT !.pc = next, !.batch = b]
       /\ \/ UNCHANGED sanity
          \/ sanity' = [sanity EXCEPT !.unread = @ + 1]
       /\ UNCHANGED <<l1Vars, lastBlock, pool, final, queue, signals, sent, sequential, faults>>
  <2> HIDE DEF e, b
  <2> QED BY <1>8, <1>9 DEF CloseBatch, b
<1> HIDE DEF b
<1>11. /\ c \in Row /\ c.closed /\ c.root = b.root /\ c.forced = r.forced
       /\ c.l2data = r.l2data /\ c.ger = r.ger
  BY <1>4, <1>7 DEF Row
<1> HIDE DEF c
<1>12. /\ e \in Seq(Row) /\ Len(e) = L /\ e[L] = c
       /\ \A i \in 1..L : i < L => e[i] = db[i]
  BY <1>4, <1>11
<1>13. PICK m \in 0..Len(forced) : Numbered(db, m) /\ Fresh(Tip.txs, pool, m)
  BY DEF IInv, Once
<1>14. Tip.txs = b.root.txs
  BY <1>2, <1>6 DEF Tip
<1>15. GoodRow(c, db[L - 1].root)
  <2>1. c.forced = 0 => c.l2data \in Seq(Txs) /\ SumCost(c.l2data) <= MaxResources
    BY <1>4, <1>11 DEF GoodRow
  <2>2. IsInjective(c.root.txs)
    BY <1>11, <1>13, <1>14 DEF Fresh
  <2>3. c.root = Exec(db[L - 1].root, c.ger, c.l2data)
    BY <1>6, <1>11
  <2> QED BY <1>11, <2>1, <2>2, <2>3 DEF GoodRow
<1> HIDE DEF e
<1>16. Table(e)
  BY <1>1, <1>12, <1>15, TableReplaced
<1>17. Numbered(e, m)
  <2>1. ASSUME NEW i \in 1..L PROVE e[i].forced = db[i].forced
    <3>1. i < L \/ i = L
      BY <1>4, <2>1
    <3> QED BY <1>11, <1>12, <2>1, <3>1
  <2> QED BY <1>4, <1>12, <1>13, <2>1, NumberedSame
<1>18. next \in {"open", "forced"}
  OBVIOUS
<1> HIDE DEF next
<1>19. fin' \in Fin /\ fin'.pc = next /\ fin'.batch = b
  BY <1>5, <1>6, <1>10, <1>18 DEF Fin
<1>20. /\ ger' = ger /\ forced' = forced /\ lastBlock' = lastBlock /\ pool' = pool
       /\ final' = final /\ queue' = queue /\ signals' = signals /\ sent' = sent
       /\ sequential' = sequential /\ faults' = faults
  BY <1>10 DEF l1Vars
<1>21. sanity' \in [unread : Nat, read : Checks, failed : BOOLEAN] /\ sanity'.read = sanity.read
  <2>1. sanity \in [unread : Nat, read : Checks, failed : BOOLEAN]
    BY <1>1 DEF TypeOK
  <2> QED BY <1>10, <2>1
<1>22. Len(db') = L /\ db' \in Seq(Row) /\ b.n < L
  BY <1>4, <1>6, <1>10, <1>12
<1>23. TypeOK'
  BY <1>1, <1>19, <1>20, <1>21, <1>22 DEF TypeOK
<1>24. db'[Len(db')].closed /\ db'[Len(db')].root = b.root
  BY <1>10, <1>11, <1>12, <1>22
<1>25. InStep'
  <2>1. OnlyForced'
    BY <1>2, <1>20 DEF OnlyForced
  <2> QED BY <1>18, <1>19, <1>24, <2>1 DEF InStep
<1>26. Once'
  <2>1. Tip'.txs = Tip.txs
    BY <1>14, <1>24 DEF Tip
  <2> QED BY <1>10, <1>13, <1>17, <1>20, <2>1 DEF Once
<1>27. Signalled'
  BY <1>20 DEF IInv, Signalled
<1>28. NoNeedlessHalt'
  BY <1>18, <1>19 DEF NoNeedlessHalt
<1> QED BY <1>10, <1>16, <1>23, <1>25, <1>26, <1>27, <1>28 DEF IInv

\* processForcedBatch
LEMMA ForcedSafe ==
  ASSUME IInv, processForcedBatch
  PROVE  IInv'
<1> DEFINE L == Len(db)
           k == NextForced
           t == ForcedTx(k)
           g == ForcedGer(k)
           root == Exec(Last(db).root, g, <<t>>)
           r == [ger |-> g, forced |-> k, closed |-> TRUE, root |-> root, l2data |-> <<t>>]
           e == [tx |-> t, n |-> L, root |-> root]
<1>1. TypeOK /\ Table(db)
  BY DEF IInv
<1>2. /\ fin.pc = "forced" /\ MoreForced /\ db' = Append(db, r) /\ queue' = Append(queue, e)
      /\ fin' = [fin EXCEPT !.ger = g]
      /\ UNCHANGED <<l1Vars, lastBlock, pool, final, signals, sent, sanity, sequential, faults>>
  BY DEF processForcedBatch
<1>3. db[L].closed
  BY <1>2 DEF IInv, InStep
<1>4. db \in Seq(Row) /\ L \in Nat /\ L >= 2 /\ db[L] \in Row
  BY <1>1, LastIsGood
<1>5. PICK m \in 0..Len(forced) : Numbered(db, m) /\ Fresh(Tip.txs, pool, m)
  BY DEF IInv, Once
<1>6. m \in Nat /\ Len(forced) \in Nat /\ Len(forced) <= MaxForced /\ forced \in Seq(Gers)
  BY <1>1 DEF TypeOK
<1>7. k = m + 1
  BY <1>4, <1>5, <1>6, TrustedForced DEF NextForced
<1>8. k \in 1..Len(forced) /\ k \in 1..MaxForced /\ k \in 0..MaxForced
  <2>1. PICK j \in signals.forced : j >= k
    BY <1>2 DEF MoreForced
  <2>2. j \in 1..Len(forced)
    BY <2>1 DEF IInv, Signalled
  <2> QED BY <1>6, <1>7, <2>1, <2>2, ConstantFacts
<1>9. t = NumTxs + k /\ t \in AllTxs /\ t \notin Txs /\ g \in Gers
  <2>1. t \in AllTxs /\ t \notin Txs
    BY <1>8, ConstantFacts DEF ForcedTx, AllTxs
  <2>2. g \in Gers
    BY <1>6, <1>8 DEF ForcedGer
  <2> QED BY <2>1, <2>2 DEF ForcedTx
<1> DEFINE one == <<t>>
<1> HIDE DEF k, t, g
<1>10. one \in Seq(AllTxs) /\ Last(db) = db[L] /\ db[L].root \in Root /\ db[L].root.txs \in Seq(AllTxs)
  BY <1>4, <1>9, FieldFacts, RootFacts DEF Last
<1>11. root \in Root /\ root.txs = db[L].root.txs \o one /\ root = Exec(db[L].root, g, one)
  <2>1. root = Exec(db[L].root, g, one)
    BY <1>10
  <2> HIDE DEF root, one
  <2> QED BY <1>9, <1>10, <2>1, ExecFacts
<1>12. root.txs = Append(db[L].root.txs, t)
  BY <1>9, <1>10, <1>11, AppendIsConcat
<1> HIDE DEF root
<1>13. /\ r \in Row /\ r.ger = g /\ r.forced = k /\ r.closed /\ r.root = root /\ r.l2data = one
  BY <1>8, <1>9, <1>10, <1>11 DEF Row
<1>14. e \in Pending /\ e.tx = t /\ e.n = L
  BY <1>4, <1>9, <1>11 DEF Pending
<1> HIDE DEF r, e, one
<1>15. Fresh(root.txs, pool, k)
  <2>1. Tip.txs = db[L].root.txs /\ pool \subseteq Txs
    BY <1>1, <1>3 DEF Tip, TypeOK
  <2>2. Fresh(Append(db[L].root.txs, NumTxs + (m + 1)), pool, m + 1)
    BY <1>5, <1>6, <1>10, <2>1, FreshForced
  <2> QED BY <1>7, <1>9, <1>12, <2>2
<1>16. GoodRow(r, db[L].root)
  <2>1. r.forced # 0
    BY <1>8, <1>13
  <2>2. IsInjective(r.root.txs)
    BY <1>13, <1>15 DEF Fresh
  <2>3. r.root = Exec(db[L].root, r.ger, r.l2data)
    BY <1>11, <1>13
  <2> QED BY <1>13, <2>1, <2>2, <2>3 DEF GoodRow
<1>17. Table(db')
  BY <1>1, <1>2, <1>3, <1>16, TableAppended
<1>18. Numbered(db', k)
  BY <1>2, <1>4, <1>5, <1>6, <1>7, <1>13, NumberedMore
<1>19. /\ db' \in Seq(Row) /\ Len(db') = L + 1 /\ db'[L + 1] = r
  BY <1>2, <1>4, <1>13, AppendProperties
<1>20. /\ queue' \in Seq(Pending) /\ Len(queue') = Len(queue) + 1 /\ Len(queue) \in Nat
       /\ queue'[Len(queue) + 1] = e /\ \A i \in 1..Len(queue) : queue'[i] = queue[i]
  <2>1. queue \in Seq(Pending)
    BY <1>1 DEF TypeOK
  <2> QED BY <1>2, <1>14, <2>1, AppendProperties
<1>21. fin' \in Fin /\ fin'.pc = "forced" /\ fin'.batch = fin.batch
  BY <1>1, <1>2, <1>9 DEF TypeOK, Fin
<1>22. /\ ger' = ger /\ forced' = forced /\ lastBlock' = lastBlock /\ pool' = pool
       /\ final' = final /\ signals' = signals /\ sent' = sent /\ sanity' = sanity
       /\ sequential' = sequential /\ faults' = faults
  BY <1>2 DEF l1Vars
<1>23. ASSUME NEW i \in 1..Len(queue') PROVE queue'[i].tx \notin Txs /\ queue'[i].n < Len(db')
  <2>1. CASE i = Len(queue) + 1
    BY <1>4, <1>9, <1>14, <1>19, <1>20, <2>1
  <2>2. CASE i \in 1..Len(queue)
    <3>1. queue[i].tx \notin Txs /\ queue[i].n < Len(db)
      BY <1>3, <2>2 DEF IInv, InStep, OnlyForced
    <3>2. queue[i].n \in Nat
      BY <1>1, <2>2, FieldFacts DEF TypeOK
    <3> QED BY <1>4, <1>19, <1>20, <2>2, <3>1, <3>2
  <2> QED BY <1>20, <1>23, <2>1, <2>2
<1>24. fin.batch.n < Len(db') /\ \A c \in sanity.read : c.n < Len(db')
  <2>1. fin.batch.n \in Nat /\ fin.batch.n < L
    BY <1>1, PartFacts, FieldFacts DEF TypeOK
  <2>2. ASSUME NEW c \in sanity.read PROVE c.n < Len(db')
    <3>1. c.n \in Nat /\ c.n < L
      BY <1>1, PartFacts DEF TypeOK, Checks
    <3> QED BY <1>4, <1>19, <3>1
  <2> QED BY <1>4, <1>19, <2>1, <2>2
<1>25. TypeOK'
  BY <1>1, <1>19, <1>20, <1>21, <1>22, <1>23, <1>24 DEF TypeOK
<1>26. db'[Len(db')].closed /\ db'[Len(db')].root = root
  BY <1>13, <1>19
<1>27. InStep'
  BY <1>21, <1>23, <1>26 DEF InStep, OnlyForced
<1>28. Once'
  <2>1. Tip' = root
    BY <1>26 DEF Tip
  <2>2. k \in 0..Len(forced')
    BY <1>6, <1>8, <1>22
  <2>3. Numbered(db', k) /\ Fresh(Tip'.txs, pool', k)
    BY <1>15, <1>18, <1>22, <2>1
  <2> QED BY <2>2, <2>3 DEF Once
<1>29. Signalled' /\ NoNeedlessHalt'
  BY <1>21, <1>22 DEF IInv, Signalled, NoNeedlessHalt
<1> QED BY <1>17, <1>25, <1>27, <1>28, <1>29 DEF IInv

\* A new open batch behind a closed one, with only transactions of forced
\* batches that wait.
LEMMA OpenedFacts ==
  ASSUME Table(db), db[Len(db)].closed, NEW g \in Gers, NEW q \in Seq(Pending), NEW lb,
         \A i \in 1..Len(q) : q[i].tx \notin Txs /\ q[i].n < Len(db)
  PROVE  /\ Append(db, OpenedBatch(g)) \in Seq(Row)
         /\ Len(Append(db, OpenedBatch(g))) = Len(db) + 1 /\ Len(db) \in Nat
         /\ ~Append(db, OpenedBatch(g))[Len(db) + 1].closed
         /\ Append(db, OpenedBatch(g))[Len(db) + 1].ger = g
         /\ Table(Append(db, OpenedBatch(g)))
         /\ \A m \in Nat : Numbered(db, m) => Numbered(Append(db, OpenedBatch(g)), m)
         /\ WipBatch(Len(db), g, db[Len(db)].root) \in Wip
         /\ WipBatch(Len(db), g, db[Len(db)].root).n = Len(db)
         /\ WipBatch(Len(db), g, db[Len(db)].root).root = db[Len(db)].root
         /\ Working(WipBatch(Len(db), g, db[Len(db)].root), Append(db, OpenedBatch(g)), q, lb, Len(q))
<1> DEFINE o == OpenedBatch(g)
           e == Append(db, o)
           b == WipBatch(Len(db), g, db[Len(db)].root)
<1>1. /\ db \in Seq(Row) /\ Len(db) \in Nat /\ Len(db) >= 2
  BY LastIsGood
<1>2. o \in Row /\ ~o.closed /\ o.ger = g /\ o.forced = 0 /\ o.l2data = <<>>
  BY RootFacts, ConstantFacts DEF OpenedBatch, Row
<1>3. b.n = Len(db) /\ b.root = db[Len(db)].root
  BY DEF WipBatch
<1>4. b \in Wip /\ Working(b, e, q, lb, Len(q))
  BY <1>1, WorkingOpens
<1> HIDE DEF o, b
<1>5. GoodRow(o, db[Len(db)].root)
  <2>1. SumCost(o.l2data) <= MaxResources
    BY <1>2, SumNothing, ConstantFacts
  <2>2. o.l2data \in Seq(Txs)
    BY <1>2
  <2> QED BY <1>2, <2>1, <2>2 DEF GoodRow
<1>6. Table(e)
  BY <1>5, TableAppended
<1>7. \A m \in Nat : Numbered(db, m) => Numbered(e, m)
  BY <1>1, <1>2, NumberedMore
<1>8. e \in Seq(Row) /\ Len(e) = Len(db) + 1 /\ e[Len(db) + 1] = o
  BY <1>1, <1>2, AppendProperties
<1> HIDE DEF e
<1> QED BY <1>1, <1>2, <1>3, <1>4, <1>6, <1>7, <1>8 DEF e, o, b

\* openWIPBatch
LEMMA OpenSafe ==
  ASSUME IInv, openWIPBatch
  PROVE  IInv'
<1> DEFINE L == Len(db)
           g == NextGer
           e == Append(db, OpenedBatch(g))
           b == WipBatch(L, g, db[L].root)
<1>1. TypeOK /\ Table(db)
  BY DEF IInv
<1>2. /\ fin.pc = "open" /\ db' = e /\ Last(db) = db[L]
      /\ fin' = [pc |-> "pick", ger |-> g, batch |-> b]
      /\ signals' = [signals EXCEPT !.ger = 0, !.gerDeadline = FALSE]
      /\ UNCHANGED <<l1Vars, lastBlock, pool, final, queue, sent, sanity, sequential, faults>>
  BY DEF openWIPBatch, Last
<1>3. db[L].closed /\ OnlyForced
  BY <1>2 DEF IInv, InStep
<1>4. g \in Gers
  BY <1>1, PartFacts DEF NextGer
<1>5. queue \in Seq(Pending) /\ Len(queue) \in Nat
  BY <1>1 DEF TypeOK
<1> HIDE DEF g
<1>6. /\ e \in Seq(Row) /\ Len(e) = L + 1 /\ L \in Nat /\ ~e[L + 1].closed
      /\ Table(e) /\ \A m \in Nat : Numbered(db, m) => Numbered(e, m)
      /\ b \in Wip /\ b.n = L /\ b.root = db[L].root
      /\ Working(b, e, queue, lastBlock, Len(queue))
  BY <1>1, <1>3, <1>4, <1>5, OpenedFacts DEF OnlyForced
<1> HIDE DEF e, b
<1>7. fin' \in Fin /\ fin'.pc = "pick" /\ fin'.batch = b
  BY <1>2, <1>4, <1>6 DEF Fin
<1>8. signals' \in Signals /\ signals'.forced = signals.forced
  BY <1>1, <1>2, ConstantFacts DEF TypeOK, Signals
<1>9. /\ ger' = ger /\ forced' = forced /\ lastBlock' = lastBlock /\ pool' = pool
      /\ final' = final /\ queue' = queue /\ sent' = sent /\ sanity' = sanity
      /\ sequential' = sequential /\ faults' = faults
  BY <1>2 DEF l1Vars
<1>10. /\ \A i \in 1..Len(queue) : queue[i].n < L + 1
       /\ b.n < L + 1
       /\ \A c \in sanity.read : c.n < L + 1
  <2>1. ASSUME NEW i \in 1..Len(queue) PROVE queue[i].n < L + 1
    <3>1. queue[i].n \in Nat /\ queue[i].n < L
      BY <1>1, <1>5, FieldFacts DEF TypeOK
    <3> QED BY <1>6, <3>1
  <2>2. ASSUME NEW c \in sanity.read PROVE c.n < L + 1
    <3>1. c.n \in Nat /\ c.n < L
      BY <1>1, PartFacts DEF TypeOK, Checks
    <3> QED BY <1>6, <3>1
  <2> QED BY <1>6, <2>1, <2>2
<1>11. TypeOK'
  <2> HIDE DEF L
  <2>1. Len(db') = L + 1
    BY <1>2, <1>6
  <2> QED BY <1>1, <1>2, <1>6, <1>7, <1>8, <1>9, <1>10, <2>1 DEF TypeOK
<1>12. ~db'[Len(db')].closed
  BY <1>2, <1>6
<1>13. InStep'
  <2>1. Working(fin'.batch, db', queue', lastBlock', Len(queue)) /\ Len(queue) \in 0..Len(queue')
    BY <1>2, <1>5, <1>6, <1>7, <1>9
  <2> QED BY <1>7, <1>12, <2>1 DEF InStep
<1>14. Once'
  <2>1. PICK m \in 0..Len(forced) : Numbered(db, m) /\ Fresh(Tip.txs, pool, m)
    BY DEF IInv, Once
  <2>2. Tip = db[L].root /\ Tip' = b.root
    BY <1>3, <1>7, <1>12 DEF Tip
  <2>3. m \in Nat
    BY <1>1 DEF TypeOK
  <2>4. Numbered(db', m)
    BY <1>2, <1>6, <2>1, <2>3
  <2> QED BY <1>6, <1>9, <2>1, <2>2, <2>4 DEF Once
<1>15. Signalled' /\ NoNeedlessHalt'
  BY <1>7, <1>8, <1>9 DEF IInv, Signalled, NoNeedlessHalt
<1> QED BY <1>2, <1>6, <1>11, <1>13, <1>14, <1>15 DEF IInv

\* storeProcessedTx
LEMMA StoreSafe ==
  ASSUME IInv, storeProcessedTx
  PROVE  IInv'
<1> DEFINE q == queue[1]
           L == Len(db)
           l == db[L].l2data
<1>1. TypeOK /\ Table(db)
  BY DEF IInv
<1>2. /\ queue # <<>> /\ lastBlock' = q.root /\ queue' = Tail(queue)
      /\ db' = [db EXCEPT ![q.n + 1].l2data = IF q.tx \in Txs THEN Append(@, q.tx) ELSE @]
      /\ UNCHANGED <<l1Vars, pool, final, fin, signals, sent, sanity, sequential, faults>>
  <2>1. queue # <<>> => Head(queue) = queue[1]
    BY <1>1 DEF TypeOK
  <2> QED BY <2>1 DEF storeProcessedTx
<1>3. /\ db \in Seq(Row) /\ L \in Nat /\ L >= 2 /\ db[L] \in Row /\ GoodRow(db[L], db[L - 1].root)
  BY <1>1, LastIsGood
<1>4. /\ queue \in Seq(Pending) /\ Len(queue) \in Nat /\ Len(queue) >= 1
      /\ \A i \in 1..Len(queue) : queue[i].n < L
  BY <1>1, <1>2 DEF TypeOK
<1>5. /\ queue' \in Seq(Pending) /\ Len(queue') = Len(queue) - 1
      /\ \A i \in 1..Len(queue') : queue'[i] = queue[i + 1]
  BY <1>2, <1>4, HeadTailProperties
<1>6. q \in Pending /\ q.tx \in AllTxs /\ q.n \in Nat /\ q.root \in Root /\ q.n < L
  BY <1>4, FieldFacts
<1>7. /\ ger' = ger /\ forced' = forced /\ pool' = pool /\ final' = final /\ fin' = fin
      /\ signals' = signals /\ sent' = sent /\ sanity' = sanity
      /\ sequential' = sequential /\ faults' = faults
  BY <1>2 DEF l1Vars
<1> HIDE DEF q
<1>8. ASSUME q.tx \notin Txs PROVE db' = db
  <2> DEFINE n == q.n + 1
  <2>1. n \in 1..L
    BY <1>3, <1>6
  <2>2. db[n] \in Row
    BY <1>3, <2>1
  <2>3. db' = [db EXCEPT ![n].l2data = @]
    BY <1>2, <1>8
  <2> HIDE DEF n
  <2>4. [db[n] EXCEPT !.l2data = @] = db[n]
    BY <2>2 DEF Row
  <2> QED BY <1>3, <2>1, <2>3, <2>4
<1>9. CASE db[L].closed
  <2>1. OnlyForced
    BY <1>9 DEF IInv, InStep
  <2>2. q.tx \notin Txs
    BY <1>4, <2>1 DEF OnlyForced, q
  <2>3. db' = db
    BY <1>8, <2>2
  <2>4. ASSUME NEW i \in 1..Len(queue') PROVE queue'[i].tx \notin Txs /\ queue'[i].n < L
    <3>1. i + 1 \in 1..Len(queue) /\ queue'[i] = queue[i + 1]
      BY <1>4, <1>5, <2>4
    <3> QED BY <2>1, <3>1 DEF OnlyForced
  <2>5. TypeOK'
    BY <1>1, <1>2, <1>5, <1>6, <1>7, <2>3, <2>4 DEF TypeOK
  <2>6. InStep'
    BY <1>7, <1>9, <2>3, <2>4 DEF IInv, InStep, OnlyForced
  <2>7. Once'
    BY <1>7, <2>3 DEF IInv, Once, Tip
  <2>8. Table(db')
    BY <1>1, <2>3
  <2>9. Signalled' /\ NoNeedlessHalt'
    BY <1>7 DEF IInv, Signalled, NoNeedlessHalt
  <2> QED BY <2>5, <2>6, <2>7, <2>8, <2>9 DEF IInv
<1>10. CASE ~db[L].closed
  <2>1. PICK f \in 0..Len(queue) :
          Stored(db, queue, f) /\ Working(fin.batch, db, queue, lastBlock, f)
    BY <1>10, OpenBatch
  <2> DEFINE g == IF f = 0 THEN 0 ELSE f - 1
  <2>2. Split(db, queue, f)
    BY <2>1 DEF Stored
  <2>3. l \in Seq(Txs) /\ db[L].forced = 0
    BY <1>3, <1>10, Zenon DEF GoodRow
  <2> DEFINE c == [db[L] EXCEPT !.l2data = Append(l, q.tx)]
  <2>4. q.tx \in Txs => q.n + 1 = L /\ f = 0
    <3>1. 1 \in 1..Len(queue)
      BY <1>4
    <3>2. q.tx \in Txs => q.n = L - 1 /\ 1 > f
      BY <2>2, <3>1 DEF Split, q
    <3> QED BY <1>3, <2>1, <3>2
  <2>5. /\ db' \in Seq(Row) /\ Len(db') = L
        /\ \A i \in 1..L : i < L => db'[i] = db[i]
        /\ db'[L].ger = db[L].ger /\ db'[L].forced = 0 /\ ~db'[L].closed /\ db'[L] \in Row
        /\ db'[L].l2data = IF q.tx \in Txs THEN Append(l, q.tx) ELSE l
    <3>1. CASE q.tx \notin Txs
      <4>1. db' = db
        BY <1>8, <3>1
      <4> QED BY <1>3, <1>10, <2>3, <3>1, <4>1
    <3>2. CASE q.tx \in Txs
      <4>1. Append(l, q.tx) \in Seq(AllTxs)
        <5>1. l \in Seq(AllTxs)
          BY <2>3, TxsInAll
        <5> QED BY <1>6, <5>1
      <4> HIDE DEF l
      <4>2. /\ c \in Row /\ c.ger = db[L].ger /\ c.forced = 0 /\ ~c.closed
            /\ c.l2data = Append(l, q.tx)
        BY <1>3, <1>10, <2>3, <4>1 DEF Row
      <4>3. db' = [db EXCEPT ![L] = c]
        BY <1>2, <2>4, <3>2 DEF l
      <4> HIDE DEF c
      <4>4. /\ db' \in Seq(Row) /\ Len(db') = L /\ db'[L] = c
            /\ \A i \in 1..L : i < L => db'[i] = db[i]
        BY <1>3, <4>2, <4>3
      <4> QED BY <3>2, <4>2, <4>4
    <3> QED BY <3>1, <3>2
  <2> HIDE DEF c, g
  <2>6. IsStored(db, queue, f, db', g)
    <3>1. \A i \in 1..L : i < L => db'[i].root = db[i].root
      BY <2>5
    <3> QED BY <1>2, <2>5, <3>1 DEF IsStored, g, q
  <2>7. fin.batch \in Wip
    BY <1>1, PartFacts
  <2>8. Stored(db', queue', g) /\ Working(fin.batch, db', queue', lastBlock', g)
    <3>1. Stored(db', Tail(queue), g) /\ Working(fin.batch, db', Tail(queue), queue[1].root, g)
      BY <2>1, <2>6, <2>7, WorkingStores
    <3> QED BY <1>2, <3>1 DEF q
  <2>9. GoodRow(db'[L], db[L - 1].root)
    <3> DEFINE k == db'[Len(db')].l2data
               s == All(db', queue', g)
               w == [i \in 1..(Len(queue') - g) |-> queue'[g + i].tx]
    <3>1. k \in Seq(Txs)
      BY <2>8 DEF Stored
    <3>2. s \in Seq(Txs) /\ s = k \o w
      BY <2>8, AllFacts DEF All
    <3>3. w \in Seq(Txs)
      <4>1. Split(db', queue', g) /\ queue' \in Seq(Pending)
        BY <2>8 DEF Stored
      <4>2. g \in 0..Len(queue') /\ Len(queue') - g \in Nat
        BY <4>1 DEF Split
      <4>3. ASSUME NEW i \in 1..(Len(queue') - g) PROVE queue'[g + i].tx \in Txs
        <5>1. g + i \in 1..Len(queue') /\ g + i > g
          BY <4>2, <4>3
        <5> QED BY <4>1, <5>1 DEF Split
      <4> QED BY <4>2, <4>3, IsASeq
    <3>4. fin.batch.remaining + SumCost(s) <= MaxResources
      BY <2>8 DEF Working
    <3> HIDE DEF k, s, w
    <3>5. SumCost(k) <= SumCost(s)
      BY <3>1, <3>2, <3>3, SumPart
    <3>6. /\ SumCost(k) \in Nat /\ SumCost(s) \in Nat /\ fin.batch.remaining \in Nat
          /\ MaxResources \in Nat
      <4>1. SumCost(k) \in Nat
        BY <3>1, UnitsFinite
      <4>2. SumCost(s) \in Nat
        BY <3>2, UnitsFinite
      <4> QED BY <2>7, <4>1, <4>2, FieldFacts, ConstantFacts
    <3>7. SumCost(k) <= MaxResources
      BY <3>4, <3>5, <3>6
    <3> QED BY <2>5, <3>1, <3>7 DEF GoodRow, k
  <2>10. Table(db')
    BY <1>1, <2>5, <2>9, TableReplaced
  <2>11. PICK m \in 0..Len(forced) : Numbered(db, m) /\ Fresh(Tip.txs, pool, m)
    BY DEF IInv, Once
  <2>12. Numbered(db', m)
    <3>1. ASSUME NEW i \in 1..L PROVE db'[i].forced = db[i].forced
      <4>1. i < L \/ i = L
        BY <1>3, <3>1
      <4> QED BY <2>3, <2>5, <3>1, <4>1
    <3> QED BY <1>3, <2>5, <2>11, <3>1, NumberedSame
  <2>13. Once'
    <3>1. Tip' = fin.batch.root /\ Tip = fin.batch.root
      BY <1>7, <1>10, <2>5 DEF Tip
    <3> QED BY <1>7, <2>11, <2>12, <3>1 DEF Once
  <2>14. ~db'[Len(db')].closed
    BY <2>5
  <2>15. InStep'
    <3>1. g \in 0..Len(queue')
      BY <2>8 DEF Stored, Split
    <3>2. fin'.pc \notin {"forced", "open"}
      BY <1>7, <1>10 DEF IInv, InStep
    <3> QED BY <1>7, <2>8, <2>14, <3>1, <3>2 DEF InStep
  <2>16. \A i \in 1..Len(queue') : queue'[i].n < L
    <3>1. ASSUME NEW i \in 1..Len(queue') PROVE queue'[i].n < L
      <4>1. i + 1 \in 1..Len(queue) /\ queue'[i] = queue[i + 1]
        BY <1>4, <1>5, <3>1
      <4> QED BY <1>4, <4>1
    <3> QED BY <3>1
  <2>17. TypeOK'
    <3> HIDE DEF L
    <3>1. fin.batch.n < L /\ \A x \in sanity.read : x.n < L
      BY <1>1 DEF TypeOK, L
    <3> QED BY <1>1, <1>2, <1>5, <1>6, <1>7, <2>5, <2>16, <3>1 DEF TypeOK
  <2>18. Signalled' /\ NoNeedlessHalt'
    BY <1>7 DEF IInv, Signalled, NoNeedlessHalt
  <2> QED BY <2>10, <2>13, <2>15, <2>17, <2>18 DEF IInv
<1> QED BY <1>9, <1>10

-----------------------------------------------------------------------------
(***************************************************************************)
(* The process starts again.                                               *)
(***************************************************************************)

\* The transactions that go back to the pool.
Unstored == {queue[i].tx : i \in {j \in DOMAIN queue : queue[j].tx \in Txs}}

\* GetWIPBatch finds the batch again as its stored transactions left it.
LEMMA WipFound ==
  ASSUME IInv, ~db[Len(db)].closed, NEW m, Fresh(fin.batch.root.txs, pool, m)
  PROVE  /\ GetWIPBatch \in Wip /\ GetWIPBatch.n = Len(db) - 1
         /\ Working(GetWIPBatch, db, <<>>, lastBlock, 0)
         /\ Fresh(GetWIPBatch.root.txs, pool \cup Unstored, m)
<1> DEFINE L == Len(db)
           l == db[L].l2data
           prev == db[L - 1].root
           x == GetWIPBatch
           b == fin.batch
<1>1. TypeOK /\ Table(db)
  BY DEF IInv
<1>2. /\ db \in Seq(Row) /\ L \in Nat /\ L >= 2 /\ db[L] \in Row /\ db[L - 1] \in Row
      /\ GoodRow(db[L], db[L - 1].root)
  BY <1>1, LastIsGood
<1>3. PICK f : Stored(db, queue, f) /\ Working(b, db, queue, lastBlock, f)
  BY OpenBatch
<1>4. /\ l \in Seq(Txs) /\ Len(l) \in Nat /\ SumCost(l) \in Nat /\ SumCost(l) <= MaxResources
      /\ l \in Seq(AllTxs)
  <2>1. l \in Seq(Txs) /\ SumCost(l) <= MaxResources
    BY <1>2, Zenon DEF GoodRow
  <2> HIDE DEF l
  <2> QED BY <2>1, UnitsFinite, TxsInAll
<1>5. lastBlock \in Root /\ b \in Wip
  BY <1>1, PartFacts DEF TypeOK
<1>6. db[L].ger \in Gers /\ prev \in Root /\ MaxResources - SumCost(l) \in 0..MaxResources
  BY <1>2, <1>4, FieldFacts, ConstantFacts
<1>7. x = [n |-> L - 1, ger |-> db[L].ger, initial |-> prev,
           root |-> IF l = <<>> THEN prev ELSE lastBlock,
           count |-> Len(l), remaining |-> MaxResources - SumCost(l)]
  BY DEF GetWIPBatch, Last
<1> HIDE DEF l, prev, x
<1>8. /\ x \in Wip /\ x.n = L - 1 /\ x.ger = db[L].ger /\ x.initial = prev
      /\ x.root = (IF l = <<>> THEN prev ELSE lastBlock) /\ x.count = Len(l)
      /\ x.remaining = MaxResources - SumCost(l)
  <2> DEFINE rt == IF l = <<>> THEN prev ELSE lastBlock
  <2>1. rt \in Root /\ L - 1 \in Nat
    BY <1>2, <1>5, <1>6
  <2>2. x = [n |-> L - 1, ger |-> db[L].ger, initial |-> prev, root |-> rt,
             count |-> Len(l), remaining |-> MaxResources - SumCost(l)]
    BY <1>7
  <2> HIDE DEF rt
  <2>3. /\ x \in Wip /\ x.n = L - 1 /\ x.ger = db[L].ger /\ x.initial = prev
        /\ x.root = rt /\ x.count = Len(l) /\ x.remaining = MaxResources - SumCost(l)
    BY <1>4, <1>6, <2>1, <2>2 DEF Wip
  <2> QED BY <2>3 DEF rt
<1>9. x.remaining + SumCost(l) <= MaxResources
  BY <1>4, <1>8, ConstantFacts
<1>10. Working(x, db, <<>>, lastBlock, 0)
  <2>1. /\ x \in Wip /\ x.n = Len(db) - 1 /\ x.ger = db[Len(db)].ger
        /\ x.initial = db[Len(db) - 1].root
    BY <1>8 DEF prev
  <2>2. /\ x.root = IF db[Len(db)].l2data = <<>> THEN db[Len(db) - 1].root ELSE lastBlock
        /\ x.count = Len(db[Len(db)].l2data)
        /\ x.remaining + SumCost(db[Len(db)].l2data) <= MaxResources
    BY <1>8, <1>9 DEF prev, l
  <2>3. Stored(db, queue, f) /\ Working(b, db, queue, lastBlock, f)
    BY <1>3
  <2> QED BY <1>5, <2>1, <2>2, <2>3, WorkingRestarts
<1> DEFINE s == All(db, queue, f)
           u == Len(queue) - f
<1>11. /\ b.ger = db[L].ger /\ b.initial = prev
       /\ l # <<>> => lastBlock = Exec(prev, db[L].ger, l)
       /\ b.count = Len(s)
       /\ b.root = IF b.count = 0 THEN prev ELSE Exec(prev, db[L].ger, s)
  BY <1>3 DEF Working, l, prev
<1>12. /\ s \in Seq(Txs) /\ Len(s) = Len(l) + u
       /\ \A i \in 1..Len(l) : s[i] = l[i]
       /\ \A i \in 1..u : s[Len(l) + i] = queue[f + i].tx
  <2>1. Stored(db, queue, f)
    BY <1>3
  <2> QED BY <2>1, AllFacts DEF l
<1>13. u \in Nat /\ f \in Nat /\ Len(queue) \in Nat /\ f <= Len(queue) /\ queue \in Seq(Pending)
  BY <1>1, <1>3 DEF TypeOK, Stored, Split
<1> HIDE DEF s
<1> DEFINE r == prev.txs
<1>14. r \in Seq(AllTxs) /\ s \in Seq(AllTxs)
  BY <1>6, <1>12, RootFacts, TxsInAll
<1>15. b.root.txs = r \o s
  <2>1. CASE b.count = 0
    <3>1. s = <<>> /\ b.root = prev
      BY <1>11, <1>12, <2>1
    <3> HIDE DEF r
    <3>2. r \o s = r
      BY <1>14, <3>1
    <3> QED BY <3>1, <3>2 DEF r
  <2>2. CASE b.count # 0
    <3>1. b.root = Exec(prev, db[L].ger, s)
      BY <1>11, <2>2
    <3>2. prev \in Root /\ db[L].ger \in Gers /\ s \in Seq(AllTxs)
      BY <1>6, <1>14
    <3>3. Exec(prev, db[L].ger, s).txs = prev.txs \o s
      BY <3>2, ExecFacts
    <3> QED BY <3>1, <3>3
  <2> QED BY <2>1, <2>2
<1>16. x.root.txs = r \o l
  <2>1. CASE l = <<>>
    <3>1. x.root = prev
      BY <1>8, <2>1
    <3> HIDE DEF r
    <3>2. r \o l = r
      BY <1>14, <2>1
    <3> QED BY <3>1, <3>2 DEF r
  <2>2. CASE l # <<>>
    <3>1. x.root = Exec(prev, db[L].ger, l)
      BY <1>8, <1>11, <2>2
    <3> QED BY <1>4, <1>6, <3>1, ExecFacts
  <2> QED BY <2>1, <2>2
<1> HIDE DEF r
<1>17. ASSUME NEW t \in Unstored PROVE \E i \in (Len(l) + 1)..Len(s) : t = s[i]
  <2>1. PICK j \in DOMAIN queue : t = queue[j].tx /\ queue[j].tx \in Txs
    BY <1>17 DEF Unstored
  <2>2. j \in 1..Len(queue)
    BY <1>13, <2>1
  <2>3. j > f
    BY <1>3, <2>1, <2>2 DEF Stored, Split
  <2> DEFINE i == Len(l) + (j - f)
  <2>4. j - f \in 1..u /\ f + (j - f) = j /\ i \in (Len(l) + 1)..Len(s)
    BY <1>4, <1>12, <1>13, <2>2, <2>3
  <2>5. s[i] = queue[j].tx
    BY <1>12, <2>4
  <2> HIDE DEF i
  <2> QED BY <2>1, <2>4, <2>5
<1>18. Fresh(r \o l, pool \cup Unstored, m)
  <2>1. Fresh(r \o s, pool, m)
    BY <1>15
  <2>2. Len(l) \in 0..Len(s)
    BY <1>4, <1>12, <1>13
  <2>3. \A i \in 1..Len(l) : l[i] = s[i]
    BY <1>12
  <2>4. \A t \in Unstored : \E i \in (Len(l) + 1)..Len(s) : t = s[i]
    BY <1>17
  <2> QED BY <1>4, <1>14, <2>1, <2>2, <2>3, <2>4, FreshRestarts
<1> QED BY <1>8, <1>10, <1>16, <1>18 DEF x

\* Whatever the process was doing.
LEMMA RestartSafe ==
  ASSUME IInv, Restart,
         faults' \in [left : 0..MaxFaults, seen : SUBSET {"halt", "restart"}]
  PROVE  IInv'
<1> DEFINE L == Len(db)
           none == <<>>
           fresh == [unread |-> 0, read |-> {}, failed |-> FALSE]
<1>1. TypeOK /\ Table(db)
  BY DEF IInv
<1>2. /\ db \in Seq(Row) /\ L \in Nat /\ L >= 2 /\ db[L] \in Row
  BY <1>1, LastIsGood
<1>3. /\ final' = {} /\ queue' = none /\ signals' = newSignals /\ sanity' = fresh
      /\ sent' = [forced |-> 0, ger |-> db'[Len(db')].ger]
      /\ pool' = pool \cup Unstored
      /\ ger' = ger /\ forced' = forced /\ lastBlock' = lastBlock /\ sequential' = sequential
  BY DEF Restart, Unstored, l1Vars, Last
<1>4. PICK m \in 0..Len(forced) : Numbered(db, m) /\ Fresh(Tip.txs, pool, m)
  BY DEF IInv, Once
<1>5. m \in Nat /\ Len(forced) \in Nat
  BY <1>1 DEF TypeOK
<1>6. none \in Seq(Pending) /\ Len(none) = 0
  OBVIOUS
<1>7. EarlyGer \in Gers
  BY ConstantFacts
<1>8. \E b \in Wip : /\ fin' = newFin(b) /\ db' \in Seq(Row) /\ Len(db') \in Nat /\ b.n < Len(db')
                     /\ Table(db') /\ ~db'[Len(db')].closed /\ db'[Len(db')].ger \in Gers
                     /\ Numbered(db', m) /\ Working(b, db', none, lastBlock, 0)
                     /\ Fresh(b.root.txs, pool', m)
  <2>1. CASE db[L].closed
    <3> DEFINE e == Append(db, OpenedBatch(EarlyGer))
               b == WipBatch(L, EarlyGer, db[L].root)
    <3>1. db' = e /\ fin' = newFin(b)
      BY <2>1 DEF Restart, Openable, Last
    <3>2. /\ e \in Seq(Row) /\ Len(e) = L + 1 /\ ~e[L + 1].closed /\ e[L + 1].ger = EarlyGer
          /\ Table(e) /\ \A k \in Nat : Numbered(db, k) => Numbered(e, k)
          /\ b \in Wip /\ b.n = L /\ b.root = db[L].root
          /\ Working(b, e, none, lastBlock, 0)
      <4>1. \A i \in 1..Len(none) : none[i].tx \notin Txs /\ none[i].n < L
        BY <1>6
      <4> HIDE DEF none
      <4> QED BY <1>1, <1>6, <1>7, <2>1, <4>1, OpenedFacts
    <3> HIDE DEF e, b
    <3>3. Unstored = {}
      <4>1. OnlyForced /\ queue \in Seq(Pending)
        BY <1>1, <2>1 DEF IInv, InStep, TypeOK
      <4> QED BY <4>1 DEF Unstored, OnlyForced
    <3>4. Tip = db[L].root
      BY <2>1 DEF Tip
    <3>5. Fresh(b.root.txs, pool', m)
      BY <1>3, <1>4, <3>2, <3>3, <3>4
    <3>6. Len(db') = L + 1 /\ Len(db') \in Nat /\ b.n < Len(db') /\ db' \in Seq(Row)
      BY <1>2, <3>1, <3>2
    <3>7. ~db'[Len(db')].closed /\ db'[Len(db')].ger \in Gers
      BY <1>7, <3>1, <3>2, <3>6
    <3>8. Table(db') /\ Numbered(db', m) /\ Working(b, db', none, lastBlock, 0)
      BY <1>4, <1>5, <3>1, <3>2
    <3> QED BY <3>1, <3>2, <3>5, <3>6, <3>7, <3>8
  <2>2. CASE ~db[L].closed
    <3> DEFINE b == GetWIPBatch
    <3>1. db' = db /\ fin' = newFin(b)
      BY <2>2 DEF Restart, Openable, Last
    <3>2. Tip = fin.batch.root
      BY <2>2 DEF Tip
    <3>3. /\ b \in Wip /\ b.n = L - 1 /\ Working(b, db, none, lastBlock, 0)
          /\ Fresh(b.root.txs, pool \cup Unstored, m)
      <4>1. Fresh(fin.batch.root.txs, pool, m)
        BY <1>4, <3>2
      <4> QED BY <2>2, <4>1, WipFound
    <3> HIDE DEF b
    <3>4. b.n < Len(db') /\ Len(db') \in Nat /\ db' \in Seq(Row)
      BY <1>2, <3>1, <3>3
    <3>5. db'[Len(db')].ger \in Gers
      BY <1>2, <3>1, FieldFacts
    <3> QED BY <1>1, <1>3, <1>4, <2>2, <3>1, <3>3, <3>4, <3>5
  <2> QED BY <2>1, <2>2
<1>9. PICK b \in Wip : /\ fin' = newFin(b) /\ db' \in Seq(Row) /\ Len(db') \in Nat /\ b.n < Len(db')
                       /\ Table(db') /\ ~db'[Len(db')].closed /\ db'[Len(db')].ger \in Gers
                       /\ Numbered(db', m) /\ Working(b, db', none, lastBlock, 0)
                       /\ Fresh(b.root.txs, pool', m)
  BY <1>8
<1>10. fin' \in Fin /\ fin'.pc = "pick" /\ fin'.batch = b
  BY <1>9, ConstantFacts DEF newFin, Fin
<1>11. signals' \in Signals /\ signals'.forced = {}
  BY <1>3, ConstantFacts DEF newSignals, Signals
<1>12. sent' \in [forced : 0..MaxForced, ger : Gers] /\ sent'.forced = 0
  <2>1. 0 \in 0..MaxForced
    BY ConstantFacts
  <2> QED BY <1>3, <1>9, <2>1
<1>13. sanity' \in [unread : Nat, read : Checks, failed : BOOLEAN] /\ sanity'.read = {}
  BY <1>3 DEF Checks
<1>14. pool' \subseteq Txs
  BY <1>1, <1>3 DEF TypeOK, Unstored
<1> HIDE DEF none, fresh
<1>15. TypeOK'
  <2>1. /\ ger' \in Gers /\ forced' \in Seq(Gers) /\ Len(forced') <= MaxForced
        /\ lastBlock' \in Root /\ sequential' \in Modes
    BY <1>1, <1>3 DEF TypeOK
  <2>2. queue' \in Seq(Pending) /\ \A i \in 1..Len(queue') : queue'[i].n < Len(db')
    BY <1>3, <1>6
  <2>3. final' \subseteq Txs
    BY <1>3
  <2>4. \A c \in sanity'.read : c.n < Len(db')
    BY <1>13
  <2> QED BY <1>9, <1>10, <1>11, <1>12, <1>13, <1>14, <2>1, <2>2, <2>3, <2>4 DEF TypeOK
<1>16. InStep'
  <2>1. Working(fin'.batch, db', queue', lastBlock', 0) /\ 0 \in 0..Len(queue')
    BY <1>3, <1>6, <1>9, <1>10
  <2> QED BY <1>9, <1>10, <2>1 DEF InStep
<1>17. Once'
  <2>1. Tip' = b.root
    BY <1>9, <1>10 DEF Tip
  <2> QED BY <1>3, <1>4, <1>9, <2>1 DEF Once
<1>18. Signalled'
  BY <1>3, <1>5, <1>11, <1>12 DEF Signalled
<1>19. NoNeedlessHalt'
  BY <1>10 DEF NoNeedlessHalt
<1> QED BY <1>9, <1>15, <1>16, <1>17, <1>18, <1>19 DEF IInv

-----------------------------------------------------------------------------
(***************************************************************************)
(* The invariant.                                                          *)
(***************************************************************************)

\* It holds at the start.
LEMMA InitSafe == Init => IInv
<1> SUFFICES ASSUME Init PROVE IInv
  OBVIOUS
<1> DEFINE z == [OpenedBatch(0) EXCEPT !.closed = TRUE]
           o == OpenedBatch(0)
           b == WipBatch(1, 0, NoRoot)
           none == <<>>
           d == <<z>>
<1>1. /\ ger = EarlyGer /\ forced = none /\ db = <<z, o>> /\ lastBlock = NoRoot /\ pool = Txs
      /\ final = {} /\ queue = none /\ fin = newFin(b) /\ signals = newSignals
      /\ sent = [forced |-> 0, ger |-> 0]
      /\ sanity = [unread |-> 0, read |-> {}, failed |-> FALSE]
      /\ sequential \in Modes /\ faults = [left |-> MaxFaults, seen |-> {}]
  BY DEF Init
<1>2. /\ o \in Row /\ ~o.closed /\ o.ger = 0 /\ o.forced = 0 /\ o.l2data = none
  BY RootFacts, ConstantFacts DEF OpenedBatch, Row
<1>3. /\ z \in Row /\ z.closed /\ z.ger = 0 /\ z.forced = 0 /\ z.l2data = none /\ z.root = NoRoot
  <2>1. o.root = NoRoot
    BY DEF OpenedBatch
  <2>2. z = [o EXCEPT !.closed = TRUE]
    OBVIOUS
  <2> HIDE DEF z, o, none
  <2> QED BY <1>2, <2>1, <2>2 DEF Row
<1> HIDE DEF z, o
<1>4. db \in Seq(Row) /\ Len(db) = 2 /\ db[1] = z /\ db[2] = o
  BY <1>1, <1>2, <1>3
<1>5. /\ b \in Wip /\ b.n = 1 /\ b.ger = 0 /\ b.initial = NoRoot /\ b.root = NoRoot /\ b.count = 0
      /\ b.remaining = MaxResources
  <2>1. MaxResources \in 0..MaxResources /\ NoRoot \in Root /\ 0 \in Gers
    BY ConstantFacts, RootFacts
  <2> QED BY <2>1 DEF WipBatch, Wip
<1> HIDE DEF b
<1>6. none \in Seq(Pending) /\ Len(none) = 0 /\ none \in Seq(Txs) /\ none \in Seq(Gers)
  OBVIOUS
<1>7. NoRoot.txs = none /\ SumCost(none) = 0 /\ IsInjective(none)
  BY SumNothing DEF NoRoot, IsInjective
<1> HIDE DEF none
<1>8. fin \in Fin /\ fin.pc = "pick" /\ fin.batch = b
  BY <1>1, <1>5, ConstantFacts DEF newFin, Fin
<1>9. TypeOK
  <2>1. /\ ger \in Gers /\ forced \in Seq(Gers) /\ Len(forced) <= MaxForced
    BY <1>1, <1>6, ConstantFacts
  <2>2. lastBlock \in Root /\ pool \subseteq Txs /\ final \subseteq Txs
    BY <1>1, RootFacts
  <2>3. queue \in Seq(Pending) /\ \A i \in 1..Len(queue) : queue[i].n < Len(db)
    BY <1>1, <1>6
  <2>4. fin.batch.n < Len(db)
    BY <1>4, <1>5, <1>8
  <2>5. signals \in Signals
    BY <1>1, ConstantFacts DEF newSignals, Signals
  <2>6. sent \in [forced : 0..MaxForced, ger : Gers]
    BY <1>1, ConstantFacts
  <2>7. sanity \in [unread : Nat, read : Checks, failed : BOOLEAN] /\ sanity.read = {}
    BY <1>1 DEF Checks
  <2>8. faults \in [left : 0..MaxFaults, seen : SUBSET {"halt", "restart"}]
    BY <1>1, ConstantFacts
  <2> QED BY <1>1, <1>4, <1>8, <2>1, <2>2, <2>3, <2>4, <2>5, <2>6, <2>7, <2>8 DEF TypeOK
<1>10. Table(db)
  <2>1. \A i \in 1..2 : i = 1 \/ i = 2
    OBVIOUS
  <2>2. Rows(db)
    <3>1. /\ Len(db) >= 2 /\ db[1].forced = 0 /\ 1..Len(db) = 1..2
          /\ \A i \in 1..2 : i < Len(db) => i = 1
      BY <1>3, <1>4
    <3>2. \A i \in 1..2 : i < Len(db) => db[i].closed
      BY <1>3, <1>4, <3>1, Zenon
    <3>3. \A i \in 1..2 : db[i].forced = 0 /\ db[i].l2data = none
      BY <1>2, <1>3, <1>4, <2>1, Zenon
    <3> QED BY <1>4, <1>6, <3>1, <3>2, <3>3 DEF Rows
  <2>3. Limited(db)
    BY <1>2, <1>3, <1>4, <1>7, <2>1, ConstantFacts DEF Limited
  <2>4. Reproduces(db)
    <3>1. \A i \in 2..2 : i = 2
      OBVIOUS
    <3> QED BY <1>2, <1>4, <3>1 DEF Reproduces
  <2>5. Injective(db)
    BY <1>2, <1>3, <1>4, <1>7, <2>1 DEF Injective
  <2> QED BY <2>2, <2>3, <2>4, <2>5 DEF Table
<1>11. Working(b, db, queue, lastBlock, 0)
  <2> DEFINE a == All(db, queue, 0)
  <2>1. Split(db, queue, 0)
    BY <1>1, <1>6 DEF Split
  <2>2. Stored(db, queue, 0)
    <3>1. db[Len(db)] = o /\ Len(db) >= 2
      BY <1>4
    <3>2. db[Len(db)].l2data \in Seq(Txs)
      BY <1>2, <1>6, <3>1
    <3> QED BY <1>1, <1>4, <1>6, <2>1, <3>1, <3>2 DEF Stored
  <2>3. a \in Seq(Txs) /\ Len(a) = Len(db[Len(db)].l2data) + (Len(queue) - 0)
    BY <2>2, AllFacts
  <2> HIDE DEF a
  <2>4. Len(a) = 0 /\ a = none
    BY <1>1, <1>2, <1>4, <1>6, <2>3 DEF none
  <2>5. /\ b.n = Len(db) - 1 /\ b.ger = db[Len(db)].ger /\ b.initial = db[Len(db) - 1].root
        /\ db[Len(db)].l2data = <<>>
    BY <1>2, <1>3, <1>4, <1>5 DEF none
  <2>6. /\ b.count = Len(a) /\ b.remaining + SumCost(a) <= MaxResources
    BY <1>5, <1>7, <2>4, ConstantFacts
  <2>7. \A i \in 1..(Len(queue) - 0) :
          queue[0 + i].root = Exec(b.initial, b.ger, Upto(a, Len(db[Len(db)].l2data) + i))
    BY <1>1, <1>6
  <2>8. b.root = IF b.count = 0 THEN b.initial ELSE Exec(b.initial, b.ger, a)
    BY <1>5
  <2> QED BY <2>1, <2>5, <2>6, <2>7, <2>8, Zenon DEF Working, a
<1>12. ~db[Len(db)].closed
  BY <1>2, <1>4
<1>13. InStep
  <2>1. 0 \in 0..Len(queue)
    BY <1>1, <1>6
  <2> QED BY <1>8, <1>11, <1>12, <2>1 DEF InStep
<1>14. Once
  <2>1. Tip = NoRoot
    BY <1>5, <1>8, <1>12 DEF Tip
  <2>2. Fresh(Tip.txs, pool, 0)
    <3>1. DOMAIN none = {}
      BY DEF none
    <3> QED BY <1>7, <2>1, <3>1 DEF Fresh
  <2>3. Numbered(db, 0)
    <3>1. \A i \in 1..2 : db[i].forced = 0
      BY <1>2, <1>3, <1>4
    <3>2. {db[i].forced : i \in 1..2} = 0..0
      <4>1. 1 \in 1..2
        OBVIOUS
      <4> QED BY <3>1, <4>1
    <3> QED BY <1>4, <3>1, <3>2 DEF Numbered
  <2>4. 0 \in 0..Len(forced)
    BY <1>1, <1>6
  <2> QED BY <2>2, <2>3, <2>4 DEF Once
<1>15. Signalled /\ NoNeedlessHalt
  BY <1>1, <1>6, <1>8 DEF Signalled, NoNeedlessHalt, newSignals
<1> QED BY <1>9, <1>10, <1>13, <1>14, <1>15 DEF IInv

\* It is preserved, action by action.
LEMMA NextSafe == IInv /\ [Next]_vars => IInv'
<1> SUFFICES ASSUME IInv, [Next]_vars PROVE IInv'
  OBVIOUS
<1>1. CASE UNCHANGED vars
  <2>1. /\ ger' = ger /\ forced' = forced /\ db' = db /\ lastBlock' = lastBlock /\ pool' = pool
        /\ final' = final /\ queue' = queue /\ fin' = fin /\ signals' = signals /\ sent' = sent
        /\ sanity' = sanity /\ sequential' = sequential /\ faults' = faults
    BY <1>1 DEF vars, l1Vars, dbVars
  <2>2. TypeOK'
    BY <2>1 DEF IInv, TypeOK
  <2>3. Len(forced) \in Nat /\ Len(forced) <= Len(forced)
    BY DEF IInv, TypeOK
  <2>4. Table(db') /\ Once' /\ InStep'
    BY <2>1, <2>3, Quiet DEF IInv, InStep
  <2>5. Signalled' /\ NoNeedlessHalt'
    BY <2>1 DEF IInv, Signalled, NoNeedlessHalt
  <2> QED BY <2>2, <2>4, <2>5 DEF IInv
<1>2. CASE NewGer \/ NewForcedBatch \/ checkForcedBatches \/ checkGERUpdate
  BY <1>2, SignalsSafe
<1>3. CASE Step
  <2>1. CASE \E t \in Txs : ExecuteTx(t) \/ ReprocessTx(t) \/ RejectTx(t)
    BY <2>1, TxSafe
  <2>2. CASE NoTx \/ CheckBatch \/ finalizeBatch
    BY <2>2, LooksSafe
  <2>3. CASE CloseBatch
    BY <2>3, CloseSafe
  <2>4. CASE processForcedBatch
    BY <2>4, ForcedSafe
  <2>5. CASE ForcedDone
    BY <2>5, ForcedDoneSafe
  <2>6. CASE openWIPBatch
    BY <2>6, OpenSafe
  <2> QED BY <1>3, <2>1, <2>2, <2>3, <2>4, <2>5, <2>6 DEF Step
<1>4. CASE ForcedBatchFails
  <2>1. /\ Fault("executor", "halt") /\ halt
        /\ UNCHANGED <<l1Vars, dbVars, pool, final, queue, signals, sent, sanity, sequential>>
    BY <1>4 DEF ForcedBatchFails
  <2> QED BY <2>1, HaltSafe
<1>5. ASSUME NEW kind, Fault(kind, "restart"), Restart PROVE IInv'
  <2>1. TypeOK
    BY DEF IInv
  <2>2. faults' \in [left : 0..MaxFaults, seen : SUBSET {"halt", "restart"}]
    BY <1>5, <2>1, FaultFacts
  <2> QED BY <1>5, <2>2, RestartSafe
<1>6. CASE ForcedCommitFails
  <2>1. CASE /\ Fault("commit", "halt") /\ halt
             /\ UNCHANGED <<l1Vars, dbVars, pool, final, queue, signals, sent, sanity, sequential>>
    BY <2>1, HaltSafe
  <2>2. CASE Fault("commit", "restart") /\ Restart
    BY <1>5, <2>2
  <2> QED BY <1>6, <2>1, <2>2 DEF ForcedCommitFails
<1>7. CASE FinalizeBatchFails
  BY <1>5, <1>7 DEF FinalizeBatchFails
<1>8. CASE storeProcessedTx
  BY <1>8, StoreSafe
<1>9. CASE SanityCheckReads \/ reprocessFullBatch
  BY <1>9, SanitySafe
<1>10. CASE Crash
  BY <1>5, <1>10 DEF Crash
<1> QED BY <1>1, <1>2, <1>3, <1>4, <1>6, <1>7, <1>8, <1>9, <1>10 DEF Next

\* The inductive invariant holds in every state.
THEOREM FinalizerInvariant == Spec => []IInv
BY InitSafe, NextSafe, PTL DEF Spec

\* Type correctness: every part keeps values of its type, resources left never
\* fall below zero, and every batch that is worked on is in the database.
THEOREM FinalizerTypeCorrect == Spec => []TypeOK
<1>1. IInv => TypeOK
  BY DEF IInv
<1> QED BY <1>1, FinalizerInvariant, PTL

\* Every closed batch can be reproduced from the database, for any number of
\* transactions, forced batches and faults: what the sanity check looks for.
THEOREM FinalizerReproduces == Spec => []ClosedBatchesReproduce
<1>1. IInv => ClosedBatchesReproduce
  BY DEF IInv, Table, Reproduces, ClosedBatchesReproduce
<1> QED BY <1>1, FinalizerInvariant, PTL

\* No transaction is executed twice, and forced batches come in the order of
\* L1, without gap or repetition, however often they are handed over.
THEOREM FinalizerForcedInOrder == Spec => []ForcedInOrder
<1>1. IInv => ForcedInOrder
  <2> SUFFICES ASSUME IInv PROVE ForcedInOrder
    OBVIOUS
  <2>1. DOMAIN db = 1..Len(db)
    BY DEF IInv, TypeOK
  <2>2. \A i \in 1..Len(db) : db[i].closed => IsInjective(db[i].root.txs)
    BY DEF IInv, Table, Injective
  <2>3. \A j \in 1..Len(db) : db[j].forced # 0 =>
          {db[i].forced : i \in 1..(j - 1)} = 0..(db[j].forced - 1)
    BY DEF IInv, Once, Numbered
  <2> QED BY <2>1, <2>2, <2>3 DEF ForcedInOrder
<1> QED BY <1>1, FinalizerInvariant, PTL

\* The finalizer never thinks that more is left of its batch than is, and no
\* batch uses more than it may.
THEOREM FinalizerWithinLimits == Spec => []WithinLimits
<1>1. IInv => WithinLimits
  <2> SUFFICES ASSUME IInv PROVE WithinLimits
    OBVIOUS
  <2>1. DOMAIN db = 1..Len(db) /\ DOMAIN queue = 1..Len(queue) /\ Last(db) = db[Len(db)]
    BY DEF IInv, TypeOK, Last
  <2>2. \A i \in 1..Len(db) : db[i].forced = 0 => SumCost(db[i].l2data) <= MaxResources
    BY DEF IInv, Table, Limited
  <2>3. ASSUME ~db[Len(db)].closed
        PROVE  \E f \in 0..Len(queue) :
                 /\ \A i \in 1..Len(queue) : queue[i].n = fin.batch.n <=> i > f
                 /\ fin.batch.count = Len(WithWaiting(f))
                 /\ fin.batch.remaining + SumCost(WithWaiting(f)) <= MaxResources
    <3>1. PICK f \in 0..Len(queue) :
            Stored(db, queue, f) /\ Working(fin.batch, db, queue, lastBlock, f)
      BY <2>3, OpenBatch
    <3>2. WithWaiting(f) = All(db, queue, f)
      BY <2>1 DEF WithWaiting, All
    <3>3. /\ fin.batch.count = Len(All(db, queue, f))
          /\ fin.batch.remaining + SumCost(All(db, queue, f)) <= MaxResources
          /\ fin.batch.n = Len(db) - 1
      BY <3>1 DEF Working
    <3>4. ASSUME NEW i \in 1..Len(queue) PROVE queue[i].n = fin.batch.n <=> i > f
      <4>1. queue[i].n \in Nat /\ Len(db) \in Nat
        BY <3>4, FieldFacts DEF IInv, TypeOK
      <4>2. IF i > f THEN queue[i].n = Len(db) - 1 ELSE queue[i].n < Len(db) - 1
        BY <3>1, <3>4 DEF Stored, Split
      <4> QED BY <3>3, <4>1, <4>2
    <3> QED BY <3>2, <3>3, <3>4
  <2> QED BY <2>1, <2>2, <2>3 DEF WithinLimits
<1> QED BY <1>1, FinalizerInvariant, PTL

\* With the sanity check in sequence a finalizer that halts has seen a forced
\* batch fail: the check itself never finds a difference.
THEOREM FinalizerNoNeedlessHalt == Spec => []NoNeedlessHalt
<1>1. IInv => NoNeedlessHalt
  BY DEF IInv
<1> QED BY <1>1, FinalizerInvariant, PTL
=============================================================================

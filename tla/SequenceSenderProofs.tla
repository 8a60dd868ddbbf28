------------------------ MODULE SequenceSenderProofs ------------------------
(***************************************************************************)
(* Proofs about the sequence sender on top of the transaction manager, for *)
(* any number of batches, blocks and faults and any upgrade: the contract  *)
(* gets every batch once and in order, and the two together implement      *)
(* BatchStages.                                                            *)
(***************************************************************************)
EXTENDS SequenceSender, EthTxManagerProofs

-----------------------------------------------------------------------------
(***************************************************************************)
(* What the contract has.                                                  *)
(***************************************************************************)
\* The block of c at i brought batches.
Brought(c, i) == c[i].tx # NoTx /\ c[i].ok

\* The fields of an id.
LEMMA IdFacts ==
  ASSUME NEW id \in Id
  PROVE  id.from \in Nat /\ id.to \in Nat /\ 1 <= id.from /\ id.from <= id.to /\ id.to <= MaxBatch
BY SenderAssumption

\* The id of what a block brought.
LEMMA BroughtFacts ==
  ASSUME NEW b \in Block, b.tx # NoTx
  PROVE  b.tx \in EthTx /\ b.tx.id \in Id
<1>1. b.tx \in EthTx
  BY DEF Block
<1> QED BY <1>1, NoTxFacts

\* A range of batches, marked with a block.
LEMMA RangeFacts ==
  ASSUME NEW i, NEW id \in Id
  PROVE  /\ IsFiniteSet({i} \X (id.from .. id.to))
         /\ Cardinality({i} \X (id.from .. id.to)) = id.to - id.from + 1
<1>1. IsFiniteSet({i}) /\ Cardinality({i}) = 1
  BY FS_Singleton
<1> DEFINE R == id.from .. id.to
<1>2. id.from \in Int /\ id.to \in Int /\ ~(id.from > id.to)
  BY IdFacts
<1>3. IsFiniteSet(R) /\ Cardinality(R) = id.to - id.from + 1
  <2>1. \A x, y \in Int : IsFiniteSet(x..y) /\ Cardinality(x..y) = IF x > y THEN 0 ELSE y - x + 1
    BY FS_Interval
  <2> QED BY <1>2, <2>1
<1> HIDE DEF R
<1>4. IsFiniteSet({i} \X R) /\ Cardinality({i} \X R) = 1 * Cardinality(R)
  BY <1>1, <1>3, FS_Product
<1> QED BY <1>2, <1>3, <1>4 DEF R

\* Which pairs are in it.
LEMMA BatchesFacts ==
  ASSUME NEW c, NEW p
  PROVE  p \in Batches(c) <=>
           \E i \in DOMAIN c : Brought(c, i) /\ p \in {i} \X (c[i].tx.id.from .. c[i].tx.id.to)
BY DEF Batches, Brought

\* There are finitely many.
LEMMA BatchesFinite ==
  ASSUME NEW c \in Seq(Block)
  PROVE  IsFiniteSet(Batches(c)) /\ Sequenced(c) \in Nat
<1> DEFINE U == (1..Len(c)) \X (1..MaxBatch)
<1>1. Len(c) \in Nat /\ MaxBatch \in Nat
  BY SenderAssumption
<1>2. \A n \in Nat : IsFiniteSet(1..n)
  BY FS_Interval
<1>3. IsFiniteSet(U)
  BY <1>1, <1>2, FS_Product
<1>4. Batches(c) \subseteq U
  <2> SUFFICES ASSUME NEW p \in Batches(c) PROVE p \in U
    OBVIOUS
  <2>1. PICK i \in DOMAIN c : Brought(c, i) /\ p \in {i} \X (c[i].tx.id.from .. c[i].tx.id.to)
    BY BatchesFacts
  <2>2. i \in 1..Len(c) /\ c[i] \in Block /\ c[i].tx # NoTx
    BY <2>1 DEF Brought
  <2>3. c[i].tx.id \in Id
    BY <2>2, BroughtFacts
  <2>4. c[i].tx.id.from .. c[i].tx.id.to \subseteq 1..MaxBatch
    BY <1>1, <2>3, IdFacts
  <2> QED BY <2>1, <2>2, <2>4
<1>5. IsFiniteSet(Batches(c))
  BY <1>3, <1>4, FS_Subset
<1> QED BY <1>5, FS_CardinalityType DEF Sequenced

\* A block more.
LEMMA SequencedAppend ==
  ASSUME NEW c \in Seq(Block), NEW b \in Block
  PROVE  Sequenced(Append(c, b)) =
           Sequenced(c) + (IF b.tx # NoTx /\ b.ok THEN b.tx.id.to - b.tx.id.from + 1 ELSE 0)
<1> DEFINE d == Append(c, b)
           L == Len(c)
           R == {L + 1} \X (b.tx.id.from .. b.tx.id.to)
<1>1. /\ L \in Nat /\ DOMAIN c = 1..L /\ DOMAIN d = 1..(L + 1) /\ d[L + 1] = b
      /\ \A i \in 1..L : d[i] = c[i]
  OBVIOUS
<1>2. IsFiniteSet(Batches(c)) /\ Sequenced(c) \in Nat
  BY BatchesFinite
<1>3. \A i \in DOMAIN c : i # L + 1 /\ i \in DOMAIN d /\ d[i] = c[i]
  BY <1>1
<1>4. \A i \in DOMAIN d : i = L + 1 \/ i \in DOMAIN c
  BY <1>1
<1>5. L + 1 \in DOMAIN d
  BY <1>1
<1> HIDE DEF d, L
<1>6. CASE b.tx # NoTx /\ b.ok
  <2>1. Batches(d) = Batches(c) \cup R
    <3>1. ASSUME NEW p PROVE p \in Batches(d) <=> p \in Batches(c) \cup R
      <4>1. p \in Batches(d) <=>
              \E i \in DOMAIN d : Brought(d, i) /\ p \in {i} \X (d[i].tx.id.from .. d[i].tx.id.to)
        BY BatchesFacts
      <4>2. p \in Batches(c) <=>
              \E i \in DOMAIN c : Brought(c, i) /\ p \in {i} \X (c[i].tx.id.from .. c[i].tx.id.to)
        BY BatchesFacts
      <4>3. \A i \in DOMAIN c : Brought(d, i) <=> Brought(c, i)
        BY <1>3 DEF Brought
      <4>4. Brought(d, L + 1)
        BY <1>1, <1>6 DEF Brought
      <4> QED BY <1>1, <1>3, <1>4, <1>5, <4>1, <4>2, <4>3, <4>4, Zenon
    <3> QED BY <3>1
  <2>2. Batches(c) \cap R = {}
    <3> SUFFICES ASSUME NEW p, p \in Batches(c), p \in R PROVE FALSE
      OBVIOUS
    <3>1. PICK i \in DOMAIN c : p \in {i} \X (c[i].tx.id.from .. c[i].tx.id.to)
      BY BatchesFacts
    <3>2. p[1] = i /\ p[1] = L + 1
      BY <3>1
    <3> QED BY <1>3, <3>2
  <2>3. IsFiniteSet(R) /\ Cardinality(R) = b.tx.id.to - b.tx.id.from + 1
    BY <1>6, BroughtFacts, RangeFacts
  <2> HIDE DEF R
  <2>4. Cardinality(Batches(c) \cup R) =
          Cardinality(Batches(c)) + Cardinality(R) - Cardinality(Batches(c) \cap R)
    BY <1>2, <2>3, FS_Union
  <2>5. Cardinality(Batches(c) \cap R) = 0
    BY <2>2, FS_EmptySet
  <2>6. Cardinality(R) \in Nat
    BY <2>3, FS_CardinalityType
  <2>7. Sequenced(d) = Sequenced(c) + Cardinality(R)
    BY <1>2, <2>1, <2>4, <2>5, <2>6 DEF Sequenced
  <2> QED BY <1>6, <2>3, <2>7 DEF d
<1>7. CASE ~(b.tx # NoTx /\ b.ok)
  <2>1. Batches(d) = Batches(c)
    <3>1. ASSUME NEW p PROVE p \in Batches(d) <=> p \in Batches(c)
      <4>1. p \in Batches(d) <=>
              \E i \in DOMAIN d : Brought(d, i) /\ p \in {i} \X (d[i].tx.id.from .. d[i].tx.id.to)
        BY BatchesFacts
      <4>2. p \in Batches(c) <=>
              \E i \in DOMAIN c : Brought(c, i) /\ p \in {i} \X (c[i].tx.id.from .. c[i].tx.id.to)
        BY BatchesFacts
      <4>3. \A i \in DOMAIN c : Brought(d, i) <=> Brought(c, i)
        BY <1>3 DEF Brought
      <4>4. ~Brought(d, L + 1)
        BY <1>1, <1>7 DEF Brought
      <4> QED BY <1>1, <1>3, <1>4, <4>1, <4>2, <4>3, <4>4, Zenon
    <3> QED BY <3>1
  <2> QED BY <1>2, <1>7, <2>1 DEF Sequenced, d
<1> QED BY <1>6, <1>7

\* The beginning of a chain has no more, and all if nothing came later.
LEMMA SequencedPrefix ==
  ASSUME NEW c \in Seq(Block), NEW d \in Seq(Block), Len(d) <= Len(c),
         \A i \in 1..Len(d) : d[i] = c[i]
  PROVE  /\ Sequenced(d) <= Sequenced(c)
         /\ (\A i \in DOMAIN c : Brought(c, i) => i <= Len(d)) => Sequenced(d) = Sequenced(c)
<1>1. \A i \in DOMAIN d : i \in DOMAIN c /\ d[i] = c[i]
  OBVIOUS
<1>2. \A i \in DOMAIN c : i <= Len(d) => i \in DOMAIN d
  OBVIOUS
<1>3. Batches(d) \subseteq Batches(c)
  <2> SUFFICES ASSUME NEW p \in Batches(d) PROVE p \in Batches(c)
    OBVIOUS
  <2>1. PICK i \in DOMAIN d : Brought(d, i) /\ p \in {i} \X (d[i].tx.id.from .. d[i].tx.id.to)
    BY BatchesFacts
  <2>2. i \in DOMAIN c /\ Brought(c, i) /\ p \in {i} \X (c[i].tx.id.from .. c[i].tx.id.to)
    BY <1>1, <2>1 DEF Brought
  <2> QED BY <2>2, BatchesFacts
<1>4. IsFiniteSet(Batches(c))
  BY BatchesFinite
<1>5. Sequenced(d) <= Sequenced(c)
  BY <1>3, <1>4, FS_Subset DEF Sequenced
<1>6. ASSUME \A i \in DOMAIN c : Brought(c, i) => i <= Len(d) PROVE Batches(c) \subseteq Batches(d)
  <2> SUFFICES ASSUME NEW p \in Batches(c) PROVE p \in Batches(d)
    OBVIOUS
  <2>1. PICK i \in DOMAIN c : Brought(c, i) /\ p \in {i} \X (c[i].tx.id.from .. c[i].tx.id.to)
    BY BatchesFacts
  <2>2. i \in DOMAIN d /\ Brought(d, i) /\ p \in {i} \X (d[i].tx.id.from .. d[i].tx.id.to)
    BY <1>1, <1>2, <1>6, <2>1 DEF Brought
  <2> QED BY <2>2, BatchesFacts
<1>7. (\A i \in DOMAIN c : Brought(c, i) => i <= Len(d)) => Batches(d) = Batches(c)
  BY <1>3, <1>6
<1> QED BY <1>5, <1>7 DEF Sequenced

\* Nothing at the start.
LEMMA SequencedEmpty == Sequenced(<<>>) = 0
<1>1. Batches(<<>>) = {}
  BY DEF Batches
<1> QED BY <1>1, FS_EmptySet DEF Sequenced

-----------------------------------------------------------------------------
(***************************************************************************)
(* The inductive invariant.                                                *)
(***************************************************************************)
\* The request has been added and the sender has not marked it as done.
Outstanding(id) == rows[id].status \notin {"absent", "done"}

\* One request at a time; it asks for what the contract expects next, until it
\* has been successful.
AsksForNext ==
  /\ \A i, j \in Id : Outstanding(i) /\ Outstanding(j) => i = j
  /\ \A id \in Id : Outstanding(id) =>
       id.to <= closed /\ (Successes(id) = {} => id.from = Sequenced(chain) + 1)

\* The sender looks for more only when nothing is outstanding, and what it
\* plans is what the contract expects next.
PlansNext ==
  /\ \A w \in Owner : owners[w].pc = "work" => \A id \in Id : ~Outstanding(id)
  /\ plan # {} => \A w \in Owner : owners[w].pc = "work"
  /\ \A id \in plan : id \in Id /\ id.from = Sequenced(chain) + 1 /\ id.to <= closed

SInv ==
  /\ IInv /\ closed \in 0..MaxBatch
  /\ AsksForNext /\ PlansNext /\ SequencedInOrder

\* What may go wrong here leaves the chain linear.
LEMMA NothingReplaced ==
  ASSUME IInv
  PROVE  Always /\ Shape /\ Linear /\ \A id \in Id : OneNonce(id)
<1>1. faults.seen \subseteq Kinds
  BY DEF IInv, Always, Shape
<1>2. faults.seen \cap {"receipt", "reorg"} = {} /\ "reorg" \notin faults.seen
  BY <1>1, SenderAssumption
<1> QED BY <1>2 DEF IInv, Always

\* There is one owner.
LEMMA OneOwner == \A v, w \in Owner : v = w
BY SenderAssumption

\* No block is mined, nothing is added or planned.
LEMMA QuietSInv ==
  ASSUME SInv, IInv', UNCHANGED <<chain, closed>>, plan' \subseteq plan,
         \A id \in Id : Outstanding(id)' => Outstanding(id),
         \A w \in Owner : owners'[w].pc = "work" =>
           owners[w].pc = "work" \/ \A id \in Id : ~Outstanding(id),
         plan' # {} => \A w \in Owner : owners'[w].pc = "work"
  PROVE  SInv'
<1>1. AsksForNext'
  <2>1. \A id : Successes(id)' = Successes(id)
    BY DEF Successes
  <2> QED BY <2>1 DEF SInv, AsksForNext
<1>2. PlansNext'
  BY DEF SInv, PlansNext
<1>3. SequencedInOrder'
  BY DEF SInv, SequencedInOrder
<1> QED BY <1>1, <1>2, <1>3 DEF SInv

\* While the sender has nothing outstanding, the state knows all batches the
\* contract has.
LEMMA AllIsVirtual ==
  ASSUME IInv, \A id \in Id : ~Outstanding(id)
  PROVE  GetLastVirtualBatchNum = Sequenced(chain)
<1>1. /\ Always /\ Shape /\ Linear /\ \A id \in Id : OneNonce(id)
  BY NothingReplaced
<1>2. /\ chain \in Seq(Block) /\ synced \in Seq(Block) /\ Len(synced) <= Len(chain)
      /\ \A i \in 1..Len(synced) : synced[i] = chain[i]
  BY <1>1 DEF Shape, Linear, ChainLinear, Agrees
<1>3. \A i \in DOMAIN chain : Brought(chain, i) => i <= Len(synced)
  <2> SUFFICES ASSUME NEW i \in DOMAIN chain, Brought(chain, i) PROVE i <= Len(synced)
    OBVIOUS
  <2> DEFINE q == chain[i].tx.id
  <2>1. chain[i].tx # NoTx /\ chain[i].ok
    BY DEF Brought
  <2>2. chain[i] \in Block /\ chain[i].tx \in MinedTxs(chain)
    BY <1>1, <2>1, BlockFacts
  <2>3. q \in Id /\ i \in Successes(q)
    BY <2>1, <2>2, BroughtFacts DEF Successes
  <2>4. chain[i].tx \in rows[q].history /\ RowOK(q) /\ RowLinear(q)
    BY <1>1, <2>2, <2>3 DEF Always, SentIsRecorded, Linear
  <2> HIDE DEF q
  <2>5. rows[q].status = "done"
    BY <2>3, <2>4 DEF RowOK, Outstanding
  <2>6. rows[q].block \in Successes(q) /\ rows[q].block <= Len(synced)
    BY <2>4, <2>5 DEF RowLinear, Settled
  <2> QED BY <1>1, <2>3, <2>6, OneSuccess
<1> QED BY <1>2, <1>3, SequencedPrefix DEF GetLastVirtualBatchNum

\* A transaction that may be mined next belongs to the outstanding request.
LEMMA NextIsOutstanding ==
  ASSUME SInv, NEW tx \in network, tx.nonce = CurrentNonce
  PROVE  tx.id \in Id /\ Outstanding(tx.id) /\ Successes(tx.id) = {}
<1>1. /\ Always /\ Shape /\ Linear /\ \A id \in Id : OneNonce(id)
  BY NothingReplaced DEF SInv
<1>2. tx \in EthTx /\ tx.id \in Id
  BY <1>1, SentFacts
<1>3. tx \in rows[tx.id].history /\ RowOK(tx.id) /\ RowLinear(tx.id) /\ OneNonce(tx.id)
  BY <1>1, <1>2 DEF Always, SentIsRecorded, Linear
<1>4. \A i \in DOMAIN chain : chain[i].tx # NoTx => chain[i].tx.nonce < CurrentNonce
  BY <1>1 DEF Linear, ChainLinear
<1>5. CurrentNonce \in Nat
  BY <1>1, NonceFacts
<1>6. ~Reverted(tx)
  BY <1>2, <1>4, <1>5, NoTxFacts DEF Reverted
<1>7. Successes(tx.id) = {}
  <2> SUFFICES ASSUME NEW k \in Successes(tx.id) PROVE FALSE
    OBVIOUS
  <2>1. k \in DOMAIN chain /\ chain[k].tx # NoTx /\ chain[k].tx.nonce = rows[tx.id].nonce
    BY <1>1, <1>2, SuccessNonce
  <2>2. tx.nonce = rows[tx.id].nonce
    BY <1>3, <1>6 DEF OneNonce
  <2> QED BY <1>4, <1>5, <2>1, <2>2
<1>8. rows[tx.id].status # "absent"
  BY <1>3 DEF RowOK
<1>9. rows[tx.id].status # "done"
  BY <1>3, <1>7 DEF RowLinear, Settled
<1> QED BY <1>2, <1>7, <1>8, <1>9 DEF Outstanding

\* A block is mined: the contract gets the batches it expects, or none.
LEMMA ExtendSInv ==
  ASSUME SInv, IInv', NEW tx \in EthTx \cup {NoTx}, NEW ok \in BOOLEAN, Extend(tx, ok),
         UNCHANGED senderVars, tx = NoTx \/ (tx \in network /\ tx.nonce = CurrentNonce)
  PROVE  /\ SInv'
         /\ \/ Sequenced(chain') = Sequenced(chain)
            \/ Sequenced(chain') \in (Sequenced(chain) + 1)..closed
<1> DEFINE b == [n |-> mined + 1, tx |-> tx, ok |-> ok]
           L == Len(chain)
           C == Sequenced(chain)
<1>1. /\ mined < MaxBlocks /\ chain' = Append(chain, b) /\ UNCHANGED <<rows, owners, synced>>
      /\ UNCHANGED <<closed, plan>>
  BY DEF Extend, senderVars
<1>2. /\ Always /\ Shape /\ chain \in Seq(Block) /\ L \in Nat /\ mined \in Nat /\ MaxBlocks \in Nat
      /\ DOMAIN chain = 1..L
  BY ShapeFacts DEF SInv, IInv, Always
<1>3. b \in Block /\ b.tx = tx /\ b.ok = ok
  BY <1>1, <1>2 DEF Block
<1> HIDE DEF b
<1>4. /\ DOMAIN chain' = 1..(L + 1) /\ chain'[L + 1] = b /\ \A i \in 1..L : chain'[i] = chain[i]
  BY <1>1, <1>2, <1>3
<1>5. /\ Sequenced(chain') = C + (IF tx # NoTx /\ ok THEN tx.id.to - tx.id.from + 1 ELSE 0)
      /\ C \in Nat
  BY <1>1, <1>2, <1>3, SequencedAppend, BatchesFinite
<1>6. \A i \in 1..(L + 1) : SubSeq(chain', 1, i - 1) = SubSeq(chain, 1, i - 1)
  <2> SUFFICES ASSUME NEW i \in 1..(L + 1) PROVE SubSeq(chain', 1, i - 1) = SubSeq(chain, 1, i - 1)
    OBVIOUS
  <2>1. i - 1 \in Nat /\ i - 1 <= L /\ Len(chain') = L + 1 /\ chain' \in Seq(Block)
    BY <1>1, <1>2, <1>3
  <2>2. \A k \in 1..(i - 1) : chain'[k] = chain[k]
    BY <1>4, <2>1
  <2> QED BY <1>2, <2>1, <2>2
<1>7. SubSeq(chain, 1, L) = chain
  BY <1>2
<1>8. ASSUME tx # NoTx /\ ok => tx.id.from = C + 1 PROVE SequencedInOrder'
  <2> SUFFICES ASSUME NEW i \in DOMAIN chain', chain'[i].tx # NoTx, chain'[i].ok
               PROVE  chain'[i].tx.id.from = Sequenced(SubSeq(chain', 1, i - 1)) + 1
    BY DEF SequencedInOrder
  <2>1. CASE i \in 1..L
    BY <1>2, <1>4, <1>6, <2>1 DEF SInv, SequencedInOrder
  <2>2. CASE i = L + 1
    <3>1. SubSeq(chain', 1, i - 1) = chain
      <4>1. i \in 1..(L + 1) /\ i - 1 = L
        BY <1>2, <2>2
      <4> QED BY <1>6, <1>7, <4>1
    <3> QED BY <1>3, <1>4, <1>8, <2>2, <3>1
  <2> QED BY <1>2, <1>4, <2>1, <2>2
<1>9. CASE tx # NoTx /\ ok
  <2>1. tx.id \in Id /\ Outstanding(tx.id) /\ Successes(tx.id) = {}
    BY <1>9, NextIsOutstanding
  <2>2. tx.id.from = C + 1 /\ tx.id.to <= closed
    BY <2>1 DEF SInv, AsksForNext
  <2>3. tx.id.to \in Nat /\ tx.id.from \in Nat /\ tx.id.from <= tx.id.to /\ closed \in Nat
    BY <2>1, IdFacts DEF SInv
  <2>4. Sequenced(chain') = tx.id.to
    BY <1>5, <1>9, <2>2, <2>3
  <2>5. Sequenced(chain') \in (C + 1)..closed
    BY <1>5, <2>2, <2>3, <2>4
  <2>6. L + 1 \in Successes(tx.id)'
    <3>1. L + 1 \in DOMAIN chain'
      BY <1>2, <1>4
    <3>2. chain'[L + 1].tx = tx /\ chain'[L + 1].ok
      BY <1>3, <1>4, <1>9, Zenon
    <3> QED BY <1>9, <3>1, <3>2, Zenon DEF Successes
  <2>7. AsksForNext'
    <3>1. \A id \in Id : Outstanding(id)' <=> Outstanding(id)
      BY <1>1 DEF Outstanding
    <3>2. \A id \in Id : Outstanding(id) => id = tx.id
      BY <2>1 DEF SInv, AsksForNext
    <3> QED BY <1>1, <2>1, <2>6, <3>1, <3>2 DEF SInv, AsksForNext
  <2>8. PlansNext'
    <3>1. \A w \in Owner : owners[w].pc # "work"
      BY <2>1 DEF SInv, PlansNext
    <3>2. plan = {}
      BY <3>1, SenderAssumption DEF SInv, PlansNext
    <3> QED BY <1>1, <3>1, <3>2 DEF PlansNext
  <2> QED BY <1>1, <1>8, <2>2, <2>5, <2>7, <2>8 DEF SInv
<1>10. CASE ~(tx # NoTx /\ ok)
  <2>1. Sequenced(chain') = C
    BY <1>5, <1>10
  <2>2. \A id \in Id : Successes(id)' = Successes(id)
    <3> SUFFICES ASSUME NEW id \in Id PROVE Successes(id)' = Successes(id)
      OBVIOUS
    <3>1. L + 1 \notin Successes(id)'
      BY <1>3, <1>4, <1>10 DEF Successes
    <3>2. \A i \in 1..L : i \in Successes(id)' <=> i \in Successes(id)
      BY <1>2, <1>4 DEF Successes
    <3>3. Successes(id)' \subseteq 1..(L + 1) /\ Successes(id) \subseteq 1..L
      BY <1>2, <1>4 DEF Successes
    <3>4. \A i \in 1..(L + 1) : i = L + 1 \/ i \in 1..L
      BY <1>2
    <3>5. 1..L \subseteq 1..(L + 1)
      BY <1>2
    <3> HIDE DEF L
    <3> QED BY <3>1, <3>2, <3>3, <3>4, <3>5, Zenon
  <2>3. AsksForNext'
    BY <1>1, <2>1, <2>2 DEF SInv, AsksForNext, Outstanding
  <2>4. PlansNext'
    BY <1>1, <2>1 DEF SInv, PlansNext, Outstanding
  <2> QED BY <1>1, <1>8, <1>10, <2>1, <2>3, <2>4 DEF SInv
<1> QED BY <1>9, <1>10

-----------------------------------------------------------------------------
(***************************************************************************)
(* The steps.                                                              *)
(***************************************************************************)
\* Nothing happens to the stages of a batch.
SameStage == UNCHANGED <<closed, chain, synced>>

\* The manager works on the outstanding request only.
LEMMA ManagerSInv ==
  ASSUME SInv, IInv', UNCHANGED senderVars, Manager
  PROVE  SInv' /\ SameStage
<1>1. /\ \A id \in Id : gos[id].pc # "idle" => Outstanding(id)
      /\ UNCHANGED <<closed, plan>>
  BY NothingReplaced DEF SInv, Linear, RowLinear, Open, Outstanding, senderVars
<1>2. UNCHANGED <<owners, chain, synced>> /\ \A id \in Id : Outstanding(id)' => Outstanding(id)
  <2>1. ASSUME NEW id \in Id, NEW row, NEW c, gos[id].pc # "idle", Update(id, row, c)
        PROVE  UNCHANGED <<owners, chain, synced>> /\ \A j \in Id : Outstanding(j)' => Outstanding(j)
    <3>1. \A j \in Id : j # id => rows'[j] = rows[j]
      BY <2>1 DEF Update
    <3>2. UNCHANGED <<owners, chain, synced>>
      BY <2>1 DEF Update, l1Vars
    <3> QED BY <1>1, <2>1, <3>1, <3>2 DEF Outstanding
  <2>2. ASSUME NEW id \in Id, NEW r, Goto(id, r)
        PROVE  UNCHANGED <<owners, chain, synced>> /\ \A j \in Id : Outstanding(j)' => Outstanding(j)
    BY <2>2 DEF Goto, l1Vars, Outstanding
  <2>3. CASE monitorTxs
    BY <2>3 DEF monitorTxs, l1Vars, Outstanding
  <2>4. ASSUME NEW id \in Id, Timeout(id)
        PROVE  UNCHANGED <<owners, chain, synced>> /\ \A j \in Id : Outstanding(j)' => Outstanding(j)
    BY <2>2, <2>4 DEF Timeout, GiveUp
  <2>5. ASSUME NEW id \in Id, monitorTx(id)
        PROVE  UNCHANGED <<owners, chain, synced>> /\ \A j \in Id : Outstanding(j)' => Outstanding(j)
    <3>1. CASE \E tx \in gos[id].left : CheckTxWasMined(id, tx)
      BY <2>2, <3>1 DEF CheckTxWasMined
    <3>2. CASE reviewMonitoredTxNonce(id)
      BY <2>1, <2>2, <3>2 DEF reviewMonitoredTxNonce
    <3>3. CASE reviewMonitoredTx(id)
      BY <2>1, <3>3 DEF reviewMonitoredTx
    <3>4. CASE AddHistory(id)
      BY <2>1, <2>2, <3>4 DEF AddHistory
    <3>5. CASE SendTx(id)
      <4>1. CASE UNCHANGED <<rows, owners, chain, mined, synced>>
        BY <4>1 DEF Outstanding
      <4> QED BY <2>2, <3>5, <4>1 DEF SendTx
    <3>6. CASE MarkSent(id)
      BY <2>1, <3>6 DEF MarkSent
    <3>7. CASE WaitTxToBeMined(id) \/ GetTxReceipt(id)
      BY <2>2, <3>7 DEF WaitTxToBeMined, GetTxReceipt
    <3>8. CASE Finish(id)
      BY <2>2, <3>8 DEF Finish
    <3>9. CASE Save(id)
      BY <2>1, <3>9 DEF Save
    <3> QED BY <2>5, <3>1, <3>2, <3>3, <3>4, <3>5, <3>6, <3>7, <3>8, <3>9 DEF monitorTx
  <2> QED BY <2>3, <2>4, <2>5 DEF Manager
<1>3. plan' # {} => \A w \in Owner : owners'[w].pc = "work"
  BY <1>1, <1>2 DEF SInv, PlansNext
<1> QED BY <1>1, <1>2, <1>3, QuietSInv DEF SameStage

\* The sender reads results, and marks a confirmed request as done.
LEMMA ProcessSInv ==
  ASSUME SInv, IInv', UNCHANGED senderVars, NEW w \in Owner, ProcessPendingMonitoredTxs(w)
  PROVE  SInv' /\ SameStage
<1>1. UNCHANGED <<closed, plan>>
  BY DEF senderVars
<1>2. Shape /\ OwnerOK(w) /\ \A v \in Owner : v = w
  BY OneOwner DEF SInv, IInv, Always
<1>3. owners \in [Owner -> OwnerState]
  BY <1>2 DEF Shape
<1>4. CASE ListResults(w)
  <2> DEFINE results == {[id |-> id, status |-> rows[id].status] :
                           id \in {i \in Id : OwnerOf[i] = w
                                              /\ rows[i].status \notin {"absent", "done"}}}
             c == IF results = {} THEN "work" ELSE "list"
             a == [AtWork EXCEPT !.pc = c]
             r == [a EXCEPT !.todo = results]
  <2>1. owners[w].pc = "list" /\ OwnerGoto(w, [AtWork EXCEPT !.pc = c, !.todo = results])
    BY <1>4 DEF ListResults
  <2>2. [AtWork EXCEPT !.pc = c, !.todo = results] = r
    BY Zenon
  <2>3. c = "work" => \A id \in Id : ~Outstanding(id)
    <3> SUFFICES ASSUME NEW id \in Id, Outstanding(id) PROVE results # {}
      OBVIOUS
    <3>1. OwnerOf[id] = w
      BY <1>2, EthTxManagerAssumption
    <3> QED BY <3>1 DEF Outstanding
  <2>4. c \in {"list", "put", "work"}
    OBVIOUS
  <2> HIDE DEF results, c
  <2>5. a.pc = c /\ a \in OwnerState
    BY <2>4, StartFacts DEF OwnerState
  <2> HIDE DEF a
  <2>6. r.pc = c
    BY <2>5 DEF OwnerState
  <2> HIDE DEF r
  <2>7. owners' = [owners EXCEPT ![w] = r] /\ UNCHANGED <<rows, chain, synced>>
    BY <2>1, <2>2 DEF OwnerGoto, l1Vars
  <2>8. owners'[w].pc = c
    BY <1>3, <2>6, <2>7
  <2>9. plan = {}
    BY <2>1 DEF SInv, PlansNext
  <2>10. \A id \in Id : Outstanding(id)' => Outstanding(id)
    BY <2>7 DEF Outstanding
  <2> QED BY <1>1, <1>2, <2>3, <2>7, <2>8, <2>9, <2>10, QuietSInv DEF SameStage
<1>5. CASE \E x \in owners[w].todo : HandleResult(w, x)
  <2>1. PICK x \in owners[w].todo : HandleResult(w, x)
    BY <1>5
  <2> DEFINE c == IF x.status = "confirmed" THEN "put" ELSE "list"
             r == [pc |-> c, todo |-> owners[w].todo \ {x}, id |-> x.id, row |-> rows[x.id]]
  <2>2. /\ owners[w].pc = "list" /\ owners' = [owners EXCEPT ![w] = r]
        /\ UNCHANGED <<rows, chain, synced>>
    BY <2>1 DEF HandleResult, OwnerGoto, l1Vars
  <2>3. r.pc # "work"
    OBVIOUS
  <2> HIDE DEF r
  <2>4. owners'[w].pc # "work" /\ plan = {}
    BY <1>3, <2>2, <2>3 DEF SInv, PlansNext
  <2>5. \A id \in Id : Outstanding(id)' => Outstanding(id)
    BY <2>2 DEF Outstanding
  <2> QED BY <1>1, <1>2, <2>2, <2>4, <2>5, QuietSInv DEF SameStage
<1>6. CASE setStatusDone(w)
  <2> DEFINE o == owners[w]
             new == [o.row EXCEPT !.status = "done"]
             back == [AtWork EXCEPT !.todo = o.todo]
  <2>1. /\ o.pc = "put" /\ rows' = [rows EXCEPT ![o.id] = new]
        /\ owners' = [owners EXCEPT ![w] = back] /\ UNCHANGED <<chain, synced>>
    BY <1>6 DEF setStatusDone, l1Vars
  <2>2. o.id \in Id /\ o.row \in Row /\ o.todo \in SUBSET [id : Id, status : Status]
    BY <1>2, <1>3, <2>1 DEF OwnerOK, OwnerState
  <2>3. new.status = "done"
    BY <2>2 DEF Row
  <2>4. back.pc = "list"
    BY <2>2, StartFacts DEF OwnerState
  <2> HIDE DEF new, back
  <2>5. owners'[w].pc = "list" /\ plan = {}
    BY <1>3, <2>1, <2>4 DEF SInv, PlansNext
  <2>6. \A id \in Id : Outstanding(id)' => Outstanding(id)
    BY <1>2, <2>1, <2>2, <2>3 DEF Outstanding, Shape
  <2> QED BY <1>1, <1>2, <2>1, <2>5, <2>6, QuietSInv DEF SameStage
<1> QED BY <1>4, <1>5, <1>6 DEF ProcessPendingMonitoredTxs

\* The sender gives up what it does: at the end of a cycle, or in a crash.
LEMMA BackToList ==
  ASSUME SInv, IInv', UNCHANGED <<rows, chain, synced, closed>>, plan' = {},
         \A w \in Owner : owners'[w].pc = "list"
  PROVE  SInv' /\ SameStage
<1>1. \A id \in Id : Outstanding(id)' => Outstanding(id)
  BY DEF Outstanding
<1> QED BY <1>1, QuietSInv DEF SameStage

\* The state learns of a block; it is one of the contract's.
LEMMA SyncBlockSInv ==
  ASSUME SInv, IInv', UNCHANGED senderVars, SyncBlock
  PROVE  /\ SInv' /\ UNCHANGED <<closed, chain>>
         /\ \/ Sequenced(synced') = Sequenced(synced)
            \/ Sequenced(synced') \in (Sequenced(synced) + 1)..Sequenced(chain)
<1> DEFINE S == Len(synced)
           b == chain[S + 1]
           V == Sequenced(synced)
<1>1. /\ Agrees(S) /\ S < Len(chain) /\ synced' = Append(synced, b)
      /\ UNCHANGED <<rows, owners, chain, closed, plan>>
  BY DEF SyncBlock, l1Vars, senderVars
<1>2. /\ Shape /\ chain \in Seq(Block) /\ Len(chain) \in Nat /\ S \in Nat
      /\ synced \in Seq(Block)
  BY ShapeFacts DEF SInv, IInv, Always
<1>3. b \in Block
  BY <1>1, <1>2
<1>4. /\ synced' \in Seq(Block) /\ Len(synced') = S + 1 /\ Len(synced') <= Len(chain)
      /\ \A i \in 1..Len(synced') : synced'[i] = chain[i]
  BY <1>1, <1>2, <1>3 DEF Agrees
<1>5. Sequenced(synced') <= Sequenced(chain)
  BY <1>2, <1>4, SequencedPrefix
<1> HIDE DEF b
<1>6. Sequenced(synced') = V + (IF b.tx # NoTx /\ b.ok THEN b.tx.id.to - b.tx.id.from + 1 ELSE 0)
  BY <1>1, <1>2, <1>3, SequencedAppend
<1>7. V \in Nat /\ Sequenced(chain) \in Nat
  BY <1>2, BatchesFinite
<1>8. b.tx # NoTx => b.tx.id.to \in Nat /\ b.tx.id.from \in Nat /\ b.tx.id.from <= b.tx.id.to
  BY <1>3, BroughtFacts, IdFacts
<1>9. \/ Sequenced(synced') = V
      \/ Sequenced(synced') \in (V + 1)..Sequenced(chain)
  BY <1>5, <1>6, <1>7, <1>8
<1>10. \A id \in Id : Outstanding(id)' => Outstanding(id)
  BY <1>1 DEF Outstanding
<1>11. plan' # {} => \A w \in Owner : owners'[w].pc = "work"
  BY <1>1 DEF SInv, PlansNext
<1> QED BY <1>1, <1>9, <1>10, <1>11, QuietSInv

\* The next sequences are chosen, starting with what the contract expects.
LEMMA getSequencesToSendSInv ==
  ASSUME SInv, IInv', NEW w \in Owner, getSequencesToSend(w)
  PROVE  SInv' /\ SameStage
<1>1. /\ owners[w].pc = "work" /\ UNCHANGED <<vars, closed>>
      /\ \E id \in Candidates : plan' = {id}
  BY DEF getSequencesToSend
<1>2. UNCHANGED <<rows, owners, chain, synced>>
  BY <1>1 DEF vars, l1Vars
<1>3. PICK id \in Candidates : plan' = {id}
  BY <1>1
<1>4. \A i \in Id : ~Outstanding(i)
  BY <1>1 DEF SInv, PlansNext
<1>5. GetLastVirtualBatchNum = Sequenced(chain)
  BY <1>4, AllIsVirtual DEF SInv
<1>6. Sequenced(chain) \in Nat /\ closed \in Nat /\ closed <= MaxBatch /\ MaxBatch \in Nat
  BY BatchesFinite, SenderAssumption DEF SInv, IInv, Always, Shape
<1>7. id.from = Sequenced(chain) + 1 /\ id.to <= closed /\ id \in Id
  BY <1>5, <1>6, SenderAssumption DEF Candidates
<1>8. PlansNext'
  <2>1. \A v \in Owner : owners'[v].pc = "work"
    BY <1>1, <1>2, OneOwner
  <2>2. \A i \in Id : ~Outstanding(i)'
    BY <1>2, <1>4 DEF Outstanding
  <2> QED BY <1>1, <1>2, <1>3, <1>7, <2>1, <2>2 DEF PlansNext
<1>9. AsksForNext'
  BY <1>2, <1>4 DEF AsksForNext, Outstanding
<1>10. SequencedInOrder'
  BY <1>2 DEF SInv, SequencedInOrder
<1> QED BY <1>1, <1>2, <1>8, <1>9, <1>10 DEF SInv, SameStage

\* The request is added, or refused because it has been added before.
LEMMA tryToSendSequenceSInv ==
  ASSUME SInv, NEW w \in Owner, tryToSendSequence(w)
  PROVE  SInv' /\ SameStage
<1>1. /\ plan # {} /\ plan' = {} /\ owners' = [owners EXCEPT ![w] = AtWork]
      /\ UNCHANGED <<gos, chain, network, mined, synced, faults, closed>>
  BY DEF tryToSendSequence, l1Vars
<1>2. PICK id \in plan : Insert(id) \/ UNCHANGED rows
  BY <1>1 DEF tryToSendSequence
<1>3. /\ id \in Id /\ id.from = Sequenced(chain) + 1 /\ id.to <= closed
      /\ \A i \in Id : ~Outstanding(i)
  BY <1>1 DEF SInv, PlansNext
<1>4. Shape /\ owners \in [Owner -> OwnerState]
  BY DEF SInv, IInv, Always, Shape
<1>5. FaultsGrow
  BY <1>1, <1>4 DEF FaultsGrow, Shape
<1>6. \A v \in Owner : owners'[v] = AtWork /\ owners'[v].pc = "list"
  BY <1>1, <1>4, OneOwner, StartFacts
<1>7. OwnersLetGo
  <2>1. owners' \in [Owner -> OwnerState]
    BY <1>1, <1>4, StartFacts
  <2> QED BY <1>6, <2>1, StartFacts DEF OwnersLetGo
<1>8. CASE UNCHANGED rows
  <2>1. IInv'
    <3>1. OwnerGoto(w, AtWork)
      BY <1>1, <1>8 DEF OwnerGoto, l1Vars
    <3>2. owners'[w] = AtWork => OwnerOK(w)' /\ OwnerLinear(w)'
      BY StartFacts DEF OwnerOK, OwnerLinear
    <3> QED BY <1>5, <3>1, <3>2, StartFacts, OwnerGotoIInv DEF SInv
  <2> QED BY <1>1, <1>6, <1>8, <2>1, BackToList
<1>9. CASE Insert(id)
  <2>1. IInv'
    BY <1>1, <1>3, <1>5, <1>7, <1>9, InsertIInv DEF SInv
  <2>2. \A i \in Id : i # id => ~Outstanding(i)'
    <3>1. \A i \in Id : i # id => rows'[i] = rows[i]
      BY <1>9 DEF Insert
    <3> QED BY <1>3, <3>1 DEF Outstanding
  <2>3. AsksForNext'
    BY <1>1, <1>3, <2>2 DEF AsksForNext
  <2>4. PlansNext'
    BY <1>1, <1>6 DEF PlansNext
  <2>5. SequencedInOrder'
    BY <1>1 DEF SInv, SequencedInOrder
  <2> QED BY <1>1, <2>1, <2>3, <2>4, <2>5 DEF SInv, SameStage
<1> QED BY <1>2, <1>8, <1>9

\* The cycle ends.
LEMMA WaitTickSInv ==
  ASSUME SInv, NEW w \in Owner, WaitTick(w)
  PROVE  SInv' /\ SameStage
<1>1. /\ plan = {} /\ owners' = [owners EXCEPT ![w] = AtWork]
      /\ UNCHANGED <<rows, gos, chain, network, mined, synced, faults, closed, plan>>
  BY DEF WaitTick, l1Vars, senderVars
<1>2. Shape /\ owners \in [Owner -> OwnerState]
  BY DEF SInv, IInv, Always, Shape
<1>3. FaultsGrow
  BY <1>1, <1>2 DEF FaultsGrow, Shape
<1>4. \A v \in Owner : owners'[v] = AtWork /\ owners'[v].pc = "list"
  BY <1>1, <1>2, OneOwner, StartFacts
<1>5. IInv'
  <2>1. OwnerGoto(w, AtWork)
    BY <1>1 DEF OwnerGoto, l1Vars
  <2>2. owners'[w] = AtWork => OwnerOK(w)' /\ OwnerLinear(w)'
    BY StartFacts DEF OwnerOK, OwnerLinear
  <2> QED BY <1>3, <2>1, <2>2, StartFacts, OwnerGotoIInv DEF SInv
<1> QED BY <1>1, <1>4, <1>5, BackToList

\* The sequencer closes a batch.
LEMMA CloseBatchSInv ==
  ASSUME SInv, IInv', CloseBatch
  PROVE  SInv' /\ closed' = closed + 1 /\ UNCHANGED <<chain, synced>>
<1>1. /\ closed < MaxBatch /\ closed' = closed + 1
      /\ UNCHANGED <<rows, owners, chain, synced, plan>>
  BY DEF CloseBatch, vars, l1Vars
<1>2. closed' \in 0..MaxBatch /\ closed \in Nat /\ closed <= closed'
  BY <1>1, SenderAssumption DEF SInv
<1>3. AsksForNext'
  <2>1. \A id : Successes(id)' = Successes(id)
    BY <1>1 DEF Successes
  <2>2. \A id \in Id : Outstanding(id)' <=> Outstanding(id)
    BY <1>1 DEF Outstanding
  <2>3. \A id \in Id : id.to <= closed => id.to <= closed'
    BY <1>1, <1>2, IdFacts
  <2> QED BY <1>1, <2>1, <2>2, <2>3 DEF SInv, AsksForNext
<1>4. PlansNext'
  <2>1. \A id \in Id : id.to <= closed => id.to <= closed'
    BY <1>1, <1>2, IdFacts
  <2> QED BY <1>1, <2>1 DEF SInv, PlansNext, Outstanding
<1>5. SequencedInOrder'
  BY <1>1 DEF SInv, SequencedInOrder
<1> QED BY <1>1, <1>2, <1>3, <1>4, <1>5 DEF SInv

\* What a step may do to the stages of a batch.
StageStep ==
  \/ SameStage
  \/ closed' = closed + 1 /\ UNCHANGED <<chain, synced>>
  \/ /\ \/ Sequenced(chain') = Sequenced(chain)
        \/ Sequenced(chain') \in (Sequenced(chain) + 1)..closed
     /\ UNCHANGED <<closed, synced>>
  \/ /\ \/ Sequenced(synced') = Sequenced(synced)
        \/ Sequenced(synced') \in (Sequenced(synced) + 1)..Sequenced(chain)
     /\ UNCHANGED <<closed, chain>>

\* L1 mines a transaction.
LEMMA MineTxSInv ==
  ASSUME SInv, IInv', UNCHANGED senderVars, NEW tx \in network, NEW ok \in BOOLEAN, MineTx(tx, ok)
  PROVE  SInv' /\ StageStep
<1>1. tx \in EthTx \cup {NoTx} /\ tx.nonce = CurrentNonce /\ Extend(tx, ok)
  BY DEF SInv, IInv, Always, Shape, MineTx
<1>2. UNCHANGED <<closed, synced>>
  BY <1>1 DEF Extend, senderVars
<1> QED BY <1>1, <1>2, ExtendSInv DEF StageStep

\* Something goes wrong.
LEMMA FaultySInv ==
  ASSUME SInv, IInv', UNCHANGED senderVars, Faulty
  PROVE  SInv' /\ StageStep
<1>1. UNCHANGED <<closed, plan>>
  BY DEF senderVars
<1>2. ASSUME UNCHANGED <<rows, owners, chain, synced>> PROVE SInv' /\ StageStep
  <2>1. \A id \in Id : Outstanding(id)' => Outstanding(id)
    BY <1>2 DEF Outstanding
  <2>2. plan' # {} => \A w \in Owner : owners'[w].pc = "work"
    BY <1>1, <1>2 DEF SInv, PlansNext
  <2> QED BY <1>1, <1>2, <2>1, <2>2, QuietSInv DEF StageStep, SameStage
<1>3. CASE \E id \in Id : GiveUp(id)
  BY <1>2, <1>3 DEF GiveUp, Goto, l1Vars
<1>4. CASE \E tx \in network : DropTx(tx)
  BY <1>2, <1>4 DEF DropTx
<1>5. CASE MineOther
  <2>1. Extend(NoTx, TRUE)
    BY <1>5 DEF MineOther
  <2>2. UNCHANGED synced
    BY <2>1 DEF Extend
  <2> QED BY <1>1, <2>1, <2>2, ExtendSInv DEF StageStep
<1>6. CASE \E tx \in network : MineTx(tx, FALSE)
  BY <1>6, MineTxSInv
<1>7. ~Fault("receipt") /\ ~Fault("reorg")
  BY SenderAssumption DEF Fault
<1> QED BY <1>3, <1>4, <1>5, <1>6, <1>7 DEF Faulty

\* Every step keeps the invariant and is a step of BatchStages, or none.
LEMMA NextSInv ==
  ASSUME SInv, [SenderNext]_allVars
  PROVE  SInv' /\ StageStep
<1>1. IInv /\ Shape
  BY DEF SInv, IInv, Always
<1>2. CASE CloseBatch
  <2>1. IInv'
    BY <1>1, <1>2, NextIInv DEF CloseBatch
  <2> QED BY <1>2, <2>1, CloseBatchSInv DEF StageStep
<1>3. CASE Send
  <2>1. CASE \E w \in Owner : getSequencesToSend(w)
    <3>1. IInv'
      BY <1>1, <2>1, NextIInv DEF getSequencesToSend
    <3> QED BY <2>1, <3>1, getSequencesToSendSInv DEF StageStep
  <2>2. CASE \E w \in Owner : tryToSendSequence(w)
    BY <2>2, tryToSendSequenceSInv DEF StageStep
  <2> QED BY <1>3, <2>1, <2>2 DEF Send
<1>4. CASE \E w \in Owner : WaitTick(w)
  BY <1>4, WaitTickSInv DEF StageStep
<1>5. CASE /\ Manager \/ L1 \/ SyncBlock \/ \E w \in Owner : ProcessPendingMonitoredTxs(w)
           /\ Unchanged
  <2>1. UNCHANGED faults /\ UNCHANGED senderVars
    BY <1>5 DEF Unchanged
  <2>2. IInv'
    <3>1. Next
      BY <1>5, <2>1 DEF Next
    <3> QED BY <1>1, <3>1, NextIInv
  <2>3. CASE Manager
    BY <2>1, <2>2, <2>3, ManagerSInv DEF StageStep
  <2>4. CASE L1
    BY <2>1, <2>2, <2>4, MineTxSInv DEF L1
  <2>5. CASE SyncBlock
    BY <2>1, <2>2, <2>5, SyncBlockSInv DEF StageStep
  <2>6. CASE \E w \in Owner : ProcessPendingMonitoredTxs(w)
    BY <2>1, <2>2, <2>6, ProcessSInv DEF StageStep
  <2> QED BY <1>5, <2>3, <2>4, <2>5, <2>6
<1>6. CASE Faulty /\ UNCHANGED senderVars
  BY <1>1, <1>6, FaultyIInv, FaultySInv
<1>7. CASE Fault("crash") /\ Crash /\ plan' = {} /\ UNCHANGED <<closed, ForkUpgradeBatchNumber>>
  <2>1. IInv'
    BY <1>1, <1>7, FaultFacts, CrashIInv
  <2>2. UNCHANGED <<rows, chain, synced>> /\ \A w \in Owner : owners'[w].pc = "list"
    BY <1>7, StartFacts DEF Crash, l1Vars
  <2> QED BY <1>7, <2>1, <2>2, BackToList DEF StageStep
<1>8. CASE UNCHANGED allVars
  <2>1. UNCHANGED vars /\ UNCHANGED <<closed, plan>>
    BY <1>8 DEF allVars, senderVars
  <2>2. UNCHANGED <<rows, owners, chain, synced>>
    BY <2>1 DEF vars, l1Vars
  <2>3. IInv'
    BY <1>1, <2>1, NextIInv
  <2>4. \A id \in Id : Outstanding(id)' => Outstanding(id)
    BY <2>2 DEF Outstanding
  <2>5. plan' # {} => \A w \in Owner : owners'[w].pc = "work"
    BY <2>1, <2>2 DEF SInv, PlansNext
  <2> QED BY <2>1, <2>2, <2>3, <2>4, <2>5, QuietSInv DEF StageStep, SameStage
<1> QED BY <1>2, <1>3, <1>4, <1>5, <1>6, <1>7, <1>8 DEF SenderNext

\* The invariant holds at the start.
LEMMA InitSInv ==
  ASSUME SenderInit
  PROVE  SInv
<1>1. Init /\ closed = 0 /\ plan = {}
  BY DEF SenderInit
<1>2. IInv
  BY <1>1, InitIInv
<1>3. rows = [id \in Id |-> Absent] /\ owners = [w \in Owner |-> AtWork] /\ chain = <<>>
  BY <1>1 DEF Init
<1>4. \A id \in Id : ~Outstanding(id)
  BY <1>3, StartFacts DEF Outstanding
<1>5. AsksForNext /\ PlansNext
  BY <1>1, <1>4 DEF AsksForNext, PlansNext
<1>6. SequencedInOrder
  BY <1>3 DEF SequencedInOrder
<1>7. closed \in 0..MaxBatch
  BY <1>1, SenderAssumption
<1> QED BY <1>2, <1>5, <1>6, <1>7 DEF SInv

-----------------------------------------------------------------------------
(***************************************************************************)
(* The theorems.                                                           *)
(***************************************************************************)
\* The inductive invariant: one request at a time, for what the contract
\* expects next.
THEOREM SenderInvariance == SenderSpec => []SInv
<1>1. SenderInit => SInv
  BY InitSInv
<1>2. SInv /\ [SenderNext]_allVars => SInv'
  BY NextSInv
<1> QED BY <1>1, <1>2, PTL DEF SenderSpec

\* The contract gives every batch the number it has in the trusted state,
\* although sending, failing, sending again, crashing and reading back from L1
\* overlap.
THEOREM BatchesInOrder == SenderSpec => []SequencedInOrder
<1>1. SInv => SequencedInOrder
  BY DEF SInv
<1> QED BY <1>1, SenderInvariance, PTL

\* The sender, the manager, L1 and the synchronizer implement BatchStages: a
\* batch is closed, then sequenced, then virtual, in order and for good.
THEOREM SenderImplementsBatchStages == SenderSpec => ImplementsBatchStages
<1>1. SenderInit => Stages!Init
  <2> SUFFICES ASSUME SenderInit PROVE Stages!Init
    OBVIOUS
  <2>1. closed = 0 /\ chain = <<>> /\ synced = <<>>
    BY DEF SenderInit, Init
  <2> QED BY <2>1, SequencedEmpty DEF Stages!Init
<1>2. SInv /\ [SenderNext]_allVars => [Stages!Next]_(Stages!stages)
  <2> SUFFICES ASSUME SInv, [SenderNext]_allVars PROVE [Stages!Next]_(Stages!stages)
    OBVIOUS
  <2>1. StageStep
    BY NextSInv
  <2>2. CASE SameStage
    BY <2>2 DEF SameStage, Stages!stages
  <2>3. CASE closed' = closed + 1 /\ UNCHANGED <<chain, synced>>
    BY <2>3 DEF Stages!Next, Stages!Trust
  <2>4. CASE /\ \/ Sequenced(chain') = Sequenced(chain)
                \/ Sequenced(chain') \in (Sequenced(chain) + 1)..closed
             /\ UNCHANGED <<closed, synced>>
    BY <2>4 DEF Stages!Next, Stages!Sequence, Stages!stages
  <2>5. CASE /\ \/ Sequenced(synced') = Sequenced(synced)
                \/ Sequenced(synced') \in (Sequenced(synced) + 1)..Sequenced(chain)
             /\ UNCHANGED <<closed, chain>>
    BY <2>5 DEF Stages!Next, Stages!Virtualize, Stages!stages
  <2> QED BY <2>1, <2>2, <2>3, <2>4, <2>5 DEF StageStep
<1> QED BY <1>1, <1>2, SenderInvariance, PTL DEF SenderSpec, ImplementsBatchStages, Stages!Spec
=============================================================================

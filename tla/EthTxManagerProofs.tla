------------------------- MODULE EthTxManagerProofs -------------------------
(***************************************************************************)
(* Proofs about the Ethereum transaction manager, for any owners, ids,     *)
(* prices, number of blocks and faults: it knows what it has sent, a       *)
(* request takes effect at most once, and what an owner is told is         *)
(* confirmed is synchronized.                                              *)
(***************************************************************************)
EXTENDS EthTxManager, FiniteSetTheorems, WellFoundedInduction, TLAPS

-----------------------------------------------------------------------------
(***************************************************************************)
(* The inductive invariant, in parts.                                      *)
(***************************************************************************)
Block == [n : 1..MaxBlocks, tx : EthTx \cup {NoTx}, ok : BOOLEAN]
Places == {"idle", "check", "review", "sign", "send", "mark", "wait", "receipt", "finish", "save"}
Receipt == [ok : BOOLEAN, block : 0..MaxBlocks]
GoState ==
  [pc : Places, row : Row, left : SUBSET EthTx, failed : BOOLEAN, allMined : BOOLEAN,
   receipt : Receipt]
OwnerState ==
  [pc : {"list", "put", "work"}, todo : SUBSET [id : Id, status : Status],
   id : Id \cup {Nil}, row : Row]

\* The variables are records and functions of the shapes TypeOK gives.
Shape ==
  /\ rows \in [Id -> Row] /\ gos \in [Id -> GoState] /\ owners \in [Owner -> OwnerState]
  /\ chain \in Seq(Block) /\ synced \in Seq(Block)
  /\ network \subseteq EthTx /\ mined \in 0..MaxBlocks /\ Len(chain) <= mined
  /\ faults \in [left : 0..MaxFaults, seen : SUBSET Kinds]

Open == {"created", "sent"}
Past == {"failed", "confirmed", "reorged", "done"}

\* A row has a price unless it is absent and no block while it is open, and
\* its history holds transactions of its own.
RowOK(id) ==
  /\ rows[id].status = "absent" => rows[id].history = {} /\ gos[id].pc = "idle"
  /\ rows[id].status # "absent" => rows[id].price # 0
  /\ rows[id].status \in Open \cup {"absent"} => rows[id].block = 0
  /\ \A tx \in rows[id].history : tx.id = id

\* The copy a goroutine works on: nobody else writes an open row, and nobody
\* else adds to a history.
CopyOK(id) ==
  gos[id].pc # "idle" =>
    /\ gos[id].row.history = rows[id].history /\ gos[id].row.price # 0
    /\ gos[id].left \subseteq rows[id].history
    /\ IF gos[id].pc = "save" THEN gos[id].row.status \in {"confirmed", "failed"}
       ELSE gos[id].row.status \in Open \cup {"reorged"}
    /\ gos[id].pc \notin {"check", "finish", "save"} => gos[id].row.status \in Open
    /\ gos[id].row.status \in Open => rows[id].status \in Open /\ gos[id].row.block = 0
    /\ gos[id].pc \in {"send", "mark", "wait", "receipt"} => Signed(id) \in gos[id].row.history

\* What an owner has been told, and the copy it writes back.
OwnerOK(w) ==
  /\ \A r \in owners[w].todo :
       /\ rows[r.id].status # "absent"
       /\ r.status = "confirmed" => rows[r.id].status \in Past
  /\ owners[w].pc = "put" =>
       /\ owners[w].id \in Id /\ rows[owners[w].id].status \in Past
       /\ owners[w].row.history = rows[owners[w].id].history /\ owners[w].row.price # 0

Always ==
  /\ Shape /\ SentIsRecorded
  /\ \A id \in Id : RowOK(id) /\ CopyOK(id)
  /\ \A w \in Owner : OwnerOK(w)

\* The block in which the request id was successful is known to the state.
Settled(id, block) == block \in Successes(id) /\ block <= Len(synced)

\* As long as no block is replaced: the state follows L1 and nonces are used
\* once.
ChainLinear ==
  /\ Agrees(Len(synced)) /\ Len(synced) <= Len(chain)
  /\ \A i, j \in DOMAIN chain :
       chain[i].tx # NoTx /\ chain[j].tx # NoTx /\ chain[i].tx.nonce = chain[j].tx.nonce => i = j
  /\ \A i \in DOMAIN chain : chain[i].tx # NoTx => chain[i].tx.nonce < CurrentNonce

\* The transaction is mined and its receipt says it was successful.
Succeeded(tx) == IsMined(tx) /\ ReceiptOf(tx).ok

\* Then a goroutine works only on an open row, every receipt it goes on with
\* is that of a success, so that no request fails, and confirmed rows are
\* settled.
RowLinear(id) ==
  /\ rows[id].status \notin {"reorged", "failed"}
  /\ rows[id].status \in {"confirmed", "done"} => Settled(id, rows[id].block)
  /\ gos[id].pc # "idle" =>
       /\ rows[id].status \in Open /\ gos[id].row.nonce = rows[id].nonce
       /\ gos[id].row.status # "reorged"
  /\ gos[id].pc = "receipt" => Succeeded(Signed(id))
  /\ gos[id].pc = "finish" => gos[id].receipt.ok /\ gos[id].receipt.block \in Successes(id)
  /\ gos[id].pc = "save" => gos[id].row.status = "confirmed" /\ Settled(id, gos[id].row.block)

\* What an owner was told is confirmed stays so.
OwnerLinear(w) ==
  /\ \A r \in owners[w].todo :
       r.status = "confirmed" => rows[r.id].status \in {"confirmed", "done"}
  /\ owners[w].pc = "put" =>
       /\ rows[owners[w].id].status \in {"confirmed", "done"}
       /\ owners[w].row.nonce = rows[owners[w].id].nonce
       /\ Settled(owners[w].id, owners[w].row.block)

Linear ==
  /\ ChainLinear
  /\ \A id \in Id : RowLinear(id)
  /\ \A w \in Owner : OwnerLinear(w)

\* The transaction is mined and was not successful.
Reverted(tx) == \E i \in DOMAIN chain : chain[i].tx = tx /\ ~chain[i].ok

\* As long as every receipt can be fetched as well: a nonce is only left when
\* everything signed with it has failed.
OneNonce(id) ==
  /\ \A tx \in rows[id].history : tx.nonce = rows[id].nonce \/ Reverted(tx)
  /\ gos[id].pc = "check" /\ gos[id].allMined =>
       \A tx \in gos[id].row.history \ gos[id].left : Reverted(tx)

IInv ==
  /\ Always
  /\ "reorg" \notin faults.seen => Linear
  /\ faults.seen \cap {"receipt", "reorg"} = {} => \A id \in Id : OneNonce(id)

-----------------------------------------------------------------------------
(***************************************************************************)
(* The records: what changes when one field is replaced.                   *)
(***************************************************************************)
\* A goroutine goes to another place.
LEMMA GoPc ==
  ASSUME NEW g \in GoState, NEW x \in Places, NEW s, s = [g EXCEPT !.pc = x]
  PROVE  /\ s \in GoState /\ s.pc = x /\ s.row = g.row /\ s.left = g.left
         /\ s.failed = g.failed /\ s.allMined = g.allMined /\ s.receipt = g.receipt
<1>1. s \in GoState
  BY DEF GoState, Places, Receipt
<1>2. s.pc = x /\ s.row = g.row /\ s.left = g.left /\ s.receipt = g.receipt
  BY DEF GoState
<1>3. s.failed = g.failed /\ s.allMined = g.allMined
  BY Zenon DEF GoState
<1> QED BY <1>1, <1>2, <1>3

\* A goroutine takes another copy.
LEMMA GoRow ==
  ASSUME NEW g \in GoState, NEW x \in Row, NEW s, s = [g EXCEPT !.row = x]
  PROVE  /\ s \in GoState /\ s.row = x /\ s.pc = g.pc /\ s.left = g.left
         /\ s.failed = g.failed /\ s.allMined = g.allMined /\ s.receipt = g.receipt
<1>1. s \in GoState
  BY DEF GoState, Places, Receipt
<1>2. s.row = x /\ s.pc = g.pc /\ s.left = g.left /\ s.receipt = g.receipt
  BY DEF GoState
<1>3. s.failed = g.failed /\ s.allMined = g.allMined
  BY Zenon DEF GoState
<1> QED BY <1>1, <1>2, <1>3

\* A goroutine has fewer receipts to look at.
LEMMA GoLeft ==
  ASSUME NEW g \in GoState, NEW x \in SUBSET EthTx, NEW s, s = [g EXCEPT !.left = x]
  PROVE  /\ s \in GoState /\ s.left = x /\ s.pc = g.pc /\ s.row = g.row
         /\ s.failed = g.failed /\ s.allMined = g.allMined /\ s.receipt = g.receipt
<1>1. s \in GoState
  BY DEF GoState, Places, Receipt
<1>2. s.left = x /\ s.pc = g.pc /\ s.row = g.row /\ s.receipt = g.receipt
  BY DEF GoState
<1>3. s.failed = g.failed /\ s.allMined = g.allMined
  BY Zenon DEF GoState
<1> QED BY <1>1, <1>2, <1>3

\* A goroutine keeps a receipt.
LEMMA GoReceipt ==
  ASSUME NEW g \in GoState, NEW x \in Receipt, NEW s, s = [g EXCEPT !.receipt = x]
  PROVE  /\ s \in GoState /\ s.receipt = x /\ s.pc = g.pc /\ s.row = g.row
         /\ s.left = g.left /\ s.failed = g.failed /\ s.allMined = g.allMined
<1>1. s \in GoState
  BY DEF GoState, Places, Receipt
<1>2. s.receipt = x /\ s.pc = g.pc /\ s.row = g.row /\ s.left = g.left
  BY DEF GoState
<1>3. s.failed = g.failed /\ s.allMined = g.allMined
  BY Zenon DEF GoState
<1> QED BY <1>1, <1>2, <1>3

\* A row gets another status.
LEMMA RowStatus ==
  ASSUME NEW g \in Row, NEW x \in Status, NEW s, s = [g EXCEPT !.status = x]
  PROVE  /\ s \in Row /\ s.status = x /\ s.nonce = g.nonce /\ s.price = g.price
         /\ s.block = g.block /\ s.history = g.history
<1>1. s \in Row
  BY DEF Row
<1>2. s.status = x /\ s.nonce = g.nonce /\ s.price = g.price /\ s.block = g.block /\ s.history = g.history
  BY DEF Row
<1> QED BY <1>1, <1>2

\* A row gets another nonce.
LEMMA RowNonce ==
  ASSUME NEW g \in Row, NEW x \in 0..MaxBlocks, NEW s, s = [g EXCEPT !.nonce = x]
  PROVE  /\ s \in Row /\ s.nonce = x /\ s.status = g.status /\ s.price = g.price
         /\ s.block = g.block /\ s.history = g.history
<1>1. s \in Row
  BY DEF Row
<1>2. s.nonce = x /\ s.status = g.status /\ s.price = g.price /\ s.block = g.block /\ s.history = g.history
  BY DEF Row
<1> QED BY <1>1, <1>2

\* A row gets another price.
LEMMA RowPrice ==
  ASSUME NEW g \in Row, NEW x \in 0..MaxPrice, NEW s, s = [g EXCEPT !.price = x]
  PROVE  /\ s \in Row /\ s.price = x /\ s.status = g.status /\ s.nonce = g.nonce
         /\ s.block = g.block /\ s.history = g.history
<1>1. s \in Row
  BY DEF Row
<1>2. s.price = x /\ s.status = g.status /\ s.nonce = g.nonce /\ s.block = g.block /\ s.history = g.history
  BY DEF Row
<1> QED BY <1>1, <1>2

\* A row gets another block.
LEMMA RowBlock ==
  ASSUME NEW g \in Row, NEW x \in 0..MaxBlocks, NEW s, s = [g EXCEPT !.block = x]
  PROVE  /\ s \in Row /\ s.block = x /\ s.status = g.status /\ s.nonce = g.nonce
         /\ s.price = g.price /\ s.history = g.history
<1>1. s \in Row
  BY DEF Row
<1>2. s.block = x /\ s.status = g.status /\ s.nonce = g.nonce /\ s.price = g.price /\ s.history = g.history
  BY DEF Row
<1> QED BY <1>1, <1>2

\* A row gets another history.
LEMMA RowHistory ==
  ASSUME NEW g \in Row, NEW x \in SUBSET EthTx, NEW s, s = [g EXCEPT !.history = x]
  PROVE  /\ s \in Row /\ s.history = x /\ s.status = g.status /\ s.nonce = g.nonce
         /\ s.price = g.price /\ s.block = g.block
<1>1. s \in Row
  BY DEF Row
<1>2. s.history = x /\ s.status = g.status /\ s.nonce = g.nonce /\ s.price = g.price /\ s.block = g.block
  BY DEF Row
<1> QED BY <1>1, <1>2

-----------------------------------------------------------------------------
(***************************************************************************)
(* L1.                                                                     *)
(***************************************************************************)
\* The fields of a transaction; a block without one is told apart.
LEMMA NoTxFacts ==
  /\ NoTx \notin EthTx
  /\ \A tx \in EthTx : tx.id \in Id /\ tx.nonce \in 0..MaxBlocks /\ tx.price \in 1..MaxPrice
BY EthTxManagerAssumption DEF NoTx, EthTx

\* What the shape says of each element.
LEMMA ShapeFacts ==
  ASSUME Shape
  PROVE  /\ \A id \in Id : rows[id] \in Row /\ gos[id] \in GoState
         /\ \A w \in Owner : owners[w] \in OwnerState
         /\ chain \in Seq(Block) /\ synced \in Seq(Block)
         /\ mined \in Nat /\ MaxBlocks \in Nat /\ mined <= MaxBlocks
         /\ Len(chain) \in Nat /\ Len(chain) <= mined /\ Len(synced) \in Nat
         /\ DOMAIN chain = 1..Len(chain) /\ DOMAIN synced = 1..Len(synced)
BY EthTxManagerAssumption DEF Shape

\* A block of the chain.
LEMMA BlockFacts ==
  ASSUME Shape, NEW i \in DOMAIN chain
  PROVE  /\ chain[i] \in Block /\ chain[i].tx \in EthTx \cup {NoTx} /\ chain[i].ok \in BOOLEAN
         /\ i \in Nat /\ 1 <= i /\ i <= Len(chain) /\ i \in 0..MaxBlocks
         /\ chain[i].tx # NoTx => chain[i].tx \in EthTx /\ chain[i].tx \in MinedTxs(chain)
<1>1. chain[i] \in Block
  BY ShapeFacts
<1>2. i \in Nat /\ 1 <= i /\ i <= Len(chain) /\ i \in 0..MaxBlocks
  BY ShapeFacts
<1>3. chain[i].tx \in EthTx \cup {NoTx} /\ chain[i].ok \in BOOLEAN
  BY <1>1 DEF Block
<1> QED BY <1>1, <1>2, <1>3 DEF MinedTxs

\* The nonce of the account is the number of mined transactions.
LEMMA NonceFacts ==
  ASSUME Shape
  PROVE  IsFiniteSet(MinedTxs(chain)) /\ CurrentNonce \in 0..MaxBlocks
<1> DEFINE D == {i \in DOMAIN chain : chain[i].tx # NoTx}
           f == [i \in D |-> chain[i].tx]
<1>1. f \in Surjection(D, MinedTxs(chain))
  <2>1. f \in [D -> MinedTxs(chain)]
    BY DEF MinedTxs
  <2>2. \A tx \in MinedTxs(chain) : \E i \in D : f[i] = tx
    BY DEF MinedTxs
  <2> QED BY <2>1, <2>2 DEF Surjection
<1>2. D \subseteq 1..Len(chain) /\ Len(chain) \in Nat
  BY ShapeFacts
<1>3. IsFiniteSet(1..Len(chain)) /\ Cardinality(1..Len(chain)) = Len(chain)
  <2>1. \A n \in Nat : IsFiniteSet(1..n) /\ Cardinality(1..n) = n
    BY FS_Interval
  <2> QED BY <1>2, <2>1
<1>4. IsFiniteSet(D) /\ Cardinality(D) <= Len(chain)
  BY <1>2, <1>3, FS_Subset
<1>5. Cardinality(D) \in Nat
  BY <1>4, FS_CardinalityType
<1> HIDE DEF D, f
<1>6. IsFiniteSet(MinedTxs(chain)) /\ Cardinality(MinedTxs(chain)) <= Cardinality(D)
  BY <1>1, <1>4, FS_Surjection
<1>7. Cardinality(MinedTxs(chain)) \in Nat
  BY <1>6, FS_CardinalityType
<1> QED BY <1>2, <1>4, <1>5, <1>6, <1>7, ShapeFacts DEF CurrentNonce

\* The receipt of a mined transaction is about a block that holds it.
LEMMA ReceiptFacts ==
  ASSUME Shape, NEW tx \in EthTx, IsMined(tx)
  PROVE  /\ ReceiptOf(tx) \in Receipt
         /\ \E i \in DOMAIN chain : /\ chain[i].tx = tx /\ ReceiptOf(tx).block = i
                                    /\ ReceiptOf(tx).ok = chain[i].ok
<1> DEFINE i == CHOOSE j \in DOMAIN chain : chain[j].tx = tx
<1>1. i \in DOMAIN chain /\ chain[i].tx = tx
  BY DEF IsMined, MinedTxs
<1>2. ReceiptOf(tx) = [ok |-> chain[i].ok, block |-> i]
  BY DEF ReceiptOf
<1> HIDE DEF i
<1>3. chain[i].ok \in BOOLEAN /\ i \in 0..MaxBlocks
  BY <1>1, BlockFacts
<1>4. ReceiptOf(tx) \in Receipt
  BY <1>2, <1>3 DEF Receipt
<1>5. ReceiptOf(tx).block = i /\ ReceiptOf(tx).ok = chain[i].ok
  BY <1>2
<1> QED BY <1>1, <1>4, <1>5

\* What a receipt says of a request.
LEMMA ReceiptMeans ==
  ASSUME Shape, NEW tx \in EthTx, IsMined(tx)
  PROVE  /\ ReceiptOf(tx).ok => ReceiptOf(tx).block \in Successes(tx.id)
         /\ ~ReceiptOf(tx).ok => Reverted(tx)
<1>1. PICK i \in DOMAIN chain : /\ chain[i].tx = tx /\ ReceiptOf(tx).block = i
                                /\ ReceiptOf(tx).ok = chain[i].ok
  BY ReceiptFacts
<1>2. tx # NoTx
  BY NoTxFacts
<1> QED BY <1>1, <1>2 DEF Successes, Reverted

-----------------------------------------------------------------------------
(***************************************************************************)
(* A goroutine takes a step.                                               *)
(***************************************************************************)
FaultsGrow ==
  /\ faults' \in [left : 0..MaxFaults, seen : SUBSET Kinds]
  /\ faults.seen \subseteq faults'.seen

\* The goroutine of id changes its row and itself, and may have sent a
\* transaction.
LEMMA GoAlways ==
  ASSUME Always, FaultsGrow, NEW id \in Id, UNCHANGED <<owners, chain, mined, synced>>,
         rows' \in [Id -> Row], gos' \in [Id -> GoState],
         \A j \in Id : j # id => rows'[j] = rows[j] /\ gos'[j] = gos[j],
         network' \subseteq EthTx,
         \A tx \in network' : tx \in network \/ (tx.id = id /\ tx \in rows'[id].history),
         RowOK(id)', CopyOK(id)',
         rows[id].status # "absent", rows'[id].status # "absent",
         rows[id].status \in Past => rows'[id].status \in Past,
         rows[id].history \subseteq rows'[id].history,
         rows'[id].history = rows[id].history \/ rows[id].status \in Open
  PROVE  Always'
<1>1. Shape'
  BY DEF Always, Shape, FaultsGrow
<1>2. SentIsRecorded'
  <2> SUFFICES ASSUME NEW tx \in network' \cup MinedTxs(chain)
               PROVE  tx \in rows'[tx.id].history
    BY DEF SentIsRecorded
  <2>1. CASE tx \in network \cup MinedTxs(chain)
    <3>1. tx \in rows[tx.id].history
      BY <2>1 DEF Always, SentIsRecorded
    <3>2. tx.id \in Id
      <4>1. tx \in EthTx
        <5>1. CASE tx \in network
          BY <5>1 DEF Always, Shape
        <5>2. CASE tx \in MinedTxs(chain)
          BY <5>2, BlockFacts DEF Always, MinedTxs
        <5> QED BY <2>1, <5>1, <5>2
      <4> QED BY <4>1, NoTxFacts
    <3> QED BY <3>1, <3>2
  <2>2. CASE tx \in network' \ network
    BY <2>2
  <2> QED BY <2>1, <2>2
<1>3. \A j \in Id : RowOK(j)' /\ CopyOK(j)'
  <2> SUFFICES ASSUME NEW j \in Id, j # id PROVE RowOK(j)' /\ CopyOK(j)'
    OBVIOUS
  <2>1. rows'[j] = rows[j] /\ gos'[j] = gos[j] /\ RowOK(j) /\ CopyOK(j)
    BY DEF Always
  <2> QED BY <2>1 DEF RowOK, CopyOK, Signed
<1>4. \A w \in Owner : OwnerOK(w)'
  <2> SUFFICES ASSUME NEW w \in Owner PROVE OwnerOK(w)'
    OBVIOUS
  <2>1. OwnerOK(w) /\ owners[w] \in OwnerState
    BY ShapeFacts DEF Always
  <2>2. \A r \in owners[w].todo : r.id \in Id
    BY <2>1 DEF OwnerState
  <2>3. \A j \in Id : rows[j].status # "absent" => rows'[j].status # "absent"
    OBVIOUS
  <2>4. \A j \in Id : rows[j].status \in Past =>
          rows'[j].status \in Past /\ rows'[j].history = rows[j].history
    BY DEF Past, Open
  <2> QED BY <2>1, <2>2, <2>3, <2>4 DEF OwnerOK
<1> QED BY <1>1, <1>2, <1>3, <1>4 DEF Always

\* The same as long as no block is replaced.
LEMMA GoLinear ==
  ASSUME Always, Linear, NEW id \in Id, UNCHANGED <<owners, chain, synced>>,
         \A j \in Id : j # id => rows'[j] = rows[j] /\ gos'[j] = gos[j],
         rows[id].status \in Open, RowLinear(id)'
  PROVE  Linear'
<1>1. ChainLinear'
  BY DEF Linear, ChainLinear, Agrees, CurrentNonce, MinedTxs
<1>2. \A j \in Id : RowLinear(j)'
  <2> SUFFICES ASSUME NEW j \in Id, j # id PROVE RowLinear(j)'
    OBVIOUS
  <2>1. rows'[j] = rows[j] /\ gos'[j] = gos[j] /\ RowLinear(j)
    BY DEF Linear
  <2> QED BY <2>1 DEF RowLinear, Settled, Successes, Succeeded, IsMined, MinedTxs, ReceiptOf, Signed
<1>3. \A w \in Owner : OwnerLinear(w)'
  <2> SUFFICES ASSUME NEW w \in Owner PROVE OwnerLinear(w)'
    OBVIOUS
  <2>1. OwnerLinear(w) /\ owners[w] \in OwnerState /\ OwnerOK(w)
    BY ShapeFacts DEF Always, Linear
  <2>2. \A r \in owners[w].todo : r.id \in Id
    BY <2>1 DEF OwnerState
  <2>3. \A j \in Id : rows[j].status \in {"confirmed", "done"} => rows'[j] = rows[j]
    BY DEF Open
  <2>4. owners[w].pc = "put" => owners[w].id \in Id
    BY <2>1 DEF OwnerOK
  <2> QED BY <2>1, <2>2, <2>3, <2>4 DEF OwnerLinear, Settled, Successes
<1> QED BY <1>1, <1>2, <1>3 DEF Linear

\* The same for the nonces.
LEMMA GoOneNonce ==
  ASSUME \A j \in Id : OneNonce(j), NEW id \in Id, UNCHANGED chain,
         \A j \in Id : j # id => rows'[j] = rows[j] /\ gos'[j] = gos[j], OneNonce(id)'
  PROVE  \A j \in Id : OneNonce(j)'
<1> SUFFICES ASSUME NEW j \in Id, j # id PROVE OneNonce(j)'
  OBVIOUS
<1>1. rows'[j] = rows[j] /\ gos'[j] = gos[j] /\ OneNonce(j)
  OBVIOUS
<1> QED BY <1>1 DEF OneNonce, Reverted

\* A step of the goroutine of id, which is at work.
LEMMA GoIInv ==
  ASSUME IInv, FaultsGrow, NEW id \in Id, UNCHANGED <<owners, chain, mined, synced>>,
         rows' \in [Id -> Row], gos' \in [Id -> GoState],
         \A j \in Id : j # id => rows'[j] = rows[j] /\ gos'[j] = gos[j],
         network' \subseteq EthTx,
         \A tx \in network' : tx \in network \/ (tx.id = id /\ tx \in rows'[id].history),
         RowOK(id)', CopyOK(id)', gos[id].pc # "idle",
         rows[id].status # "absent", rows'[id].status # "absent",
         rows[id].status \in Past => rows'[id].status \in Past,
         rows[id].history \subseteq rows'[id].history,
         rows'[id].history = rows[id].history \/ rows[id].status \in Open,
         RowLinear(id) => RowLinear(id)',
         RowLinear(id) /\ OneNonce(id) /\ "receipt" \notin faults'.seen => OneNonce(id)'
  PROVE  IInv'
<1>1. Always'
  BY GoAlways DEF IInv
<1>2. ASSUME Linear PROVE Linear'
  <2>1. rows[id].status \in Open /\ RowLinear(id)'
    BY <1>2 DEF Linear, RowLinear
  <2> QED BY <1>2, <2>1, GoLinear DEF IInv
<1>3. ASSUME faults'.seen \cap {"receipt", "reorg"} = {} PROVE \A j \in Id : OneNonce(j)'
  <2>1. /\ "reorg" \notin faults.seen /\ "receipt" \notin faults'.seen
        /\ faults.seen \cap {"receipt", "reorg"} = {}
    BY <1>3 DEF FaultsGrow
  <2>2. Linear /\ \A j \in Id : OneNonce(j)
    BY <2>1 DEF IInv
  <2>3. OneNonce(id)'
    BY <2>1, <2>2 DEF Linear
  <2> QED BY <2>2, <2>3, GoOneNonce
<1> QED BY <1>1, <1>2, <1>3 DEF IInv, FaultsGrow

\* What is known while the goroutine of id is at work.
LEMMA AtWorkFacts ==
  ASSUME IInv, NEW id \in Id, gos[id].pc # "idle"
  PROVE  /\ Shape /\ RowOK(id) /\ CopyOK(id) /\ rows[id].status # "absent"
         /\ rows[id] \in Row /\ gos[id] \in GoState
         /\ gos[id].row \in Row /\ gos[id].left \subseteq EthTx /\ gos[id].receipt \in Receipt
         /\ gos[id].row.status \in Status /\ gos[id].row.nonce \in 0..MaxBlocks
         /\ gos[id].row.price \in 0..MaxPrice /\ gos[id].row.block \in 0..MaxBlocks
         /\ gos[id].row.history \subseteq EthTx /\ gos[id].row.history = rows[id].history
<1>1. Shape /\ RowOK(id) /\ CopyOK(id)
  BY DEF IInv, Always
<1>2. rows[id] \in Row /\ gos[id] \in GoState
  BY <1>1, ShapeFacts
<1>3. gos[id].row \in Row /\ gos[id].left \subseteq EthTx /\ gos[id].receipt \in Receipt
  BY <1>2 DEF GoState
<1>4. /\ gos[id].row.status \in Status /\ gos[id].row.nonce \in 0..MaxBlocks
      /\ gos[id].row.price \in 0..MaxPrice /\ gos[id].row.block \in 0..MaxBlocks
      /\ gos[id].row.history \subseteq EthTx
  BY <1>3 DEF Row
<1> QED BY <1>1, <1>2, <1>3, <1>4 DEF RowOK, CopyOK

\* The goroutine goes on and writes nothing.
LEMMA GotoIInv ==
  ASSUME IInv, FaultsGrow, NEW id \in Id, NEW r \in GoState, Goto(id, r), gos[id].pc # "idle",
         gos'[id] = r => CopyOK(id)',
         gos'[id] = r /\ RowLinear(id) => RowLinear(id)',
         gos'[id] = r /\ OneNonce(id) /\ "receipt" \notin faults'.seen => OneNonce(id)'
  PROVE  IInv'
<1>1. gos' = [gos EXCEPT ![id] = r] /\ UNCHANGED <<rows, owners, chain, network, mined, synced>>
  BY DEF Goto, l1Vars
<1>2. Shape /\ RowOK(id) /\ CopyOK(id) /\ rows[id].status # "absent"
  BY AtWorkFacts
<1>3. /\ gos' \in [Id -> GoState] /\ gos'[id] = r
      /\ \A j \in Id : j # id => gos'[j] = gos[j]
  BY <1>1, <1>2 DEF Shape
<1>4. RowOK(id)'
  BY <1>1, <1>2 DEF RowOK
<1>5. network' \subseteq EthTx /\ rows' \in [Id -> Row]
  BY <1>1, <1>2 DEF Shape
<1> QED BY <1>1, <1>2, <1>3, <1>4, <1>5, GoIInv

\* The goroutine returns.
LEMMA GotoIdleIInv ==
  ASSUME IInv, FaultsGrow, NEW id \in Id, gos[id].pc # "idle", Goto(id, Idle)
  PROVE  IInv'
<1>1. Idle \in GoState /\ Idle.pc = "idle"
  BY EthTxManagerAssumption
     DEF Idle, GoState, Places, Receipt, NoReceipt, Absent, Row, Status
<1>2. rows' = rows /\ chain' = chain /\ synced' = synced
  BY DEF Goto, l1Vars
<1>3. gos'[id] = Idle => CopyOK(id)'
  BY <1>1 DEF CopyOK
<1>4. gos'[id] = Idle /\ RowLinear(id) => RowLinear(id)'
  BY <1>1, <1>2 DEF RowLinear, Settled, Successes
<1>5. gos'[id] = Idle /\ OneNonce(id) => OneNonce(id)'
  BY <1>1, <1>2 DEF OneNonce, Reverted
<1> QED BY <1>1, <1>3, <1>4, <1>5, GotoIInv

\* A call fails or times out.
LEMMA GiveUpIInv ==
  ASSUME IInv, FaultsGrow, NEW id \in Id, GiveUp(id)
  PROVE  IInv'
BY GotoIdleIInv DEF GiveUp

\* The goroutine writes its row and goes on.
LEMMA UpdateIInv ==
  ASSUME IInv, FaultsGrow, NEW id \in Id, NEW row \in Row, NEW c \in Places,
         Update(id, row, c), gos[id].pc # "idle",
         row.status \in Open => gos[id].row.status \in Open /\ row.block = 0,
         row.status # "absent", row.price # 0,
         row.history = gos[id].row.history
           \/ (gos[id].row.status \in Open /\ gos[id].row.history \subseteq row.history),
         \A tx \in row.history : tx.id = id,
         c = "idle" \/ (c \in {"sign", "review", "send", "wait"} /\ row.status \in Open),
         c \in {"send", "wait"} =>
           [id |-> id, nonce |-> row.nonce, price |-> row.price] \in row.history,
         RowLinear(id) => row.status \notin {"reorged", "failed"},
         RowLinear(id) /\ row.status \in {"confirmed", "done"} => Settled(id, row.block),
         RowLinear(id) /\ OneNonce(id) /\ "receipt" \notin faults'.seen =>
           \A tx \in row.history : tx.nonce = row.nonce \/ Reverted(tx)
  PROVE  IInv'
<1> DEFINE g == gos[id]
           h == [g EXCEPT !.row = row]
           s == [h EXCEPT !.pc = c]
<1>1. /\ rows' = [rows EXCEPT ![id] = row]
      /\ gos' = [gos EXCEPT ![id] = [@ EXCEPT !.row = row, !.pc = c]]
      /\ UNCHANGED <<owners, chain, network, mined, synced>>
  BY DEF Update, l1Vars
<1>2. /\ Shape /\ RowOK(id) /\ CopyOK(id) /\ rows[id].status # "absent"
      /\ gos[id].row.history = rows[id].history /\ g \in GoState
      /\ gos[id].row.status \in Status /\ rows[id] \in Row
  BY AtWorkFacts
<1>3. gos' = [gos EXCEPT ![id] = s]
  BY <1>1, <1>2, Zenon DEF Shape
<1>4. s \in GoState /\ s.pc = c /\ s.row = row /\ s.left = g.left
  <2> HIDE DEF g
  <2>1. h \in GoState /\ h.row = row /\ h.left = g.left
    BY <1>2, GoRow
  <2> HIDE DEF h
  <2> QED BY <2>1, GoPc
<1> HIDE DEF s
<1>5. /\ rows' \in [Id -> Row] /\ gos' \in [Id -> GoState] /\ rows'[id] = row /\ gos'[id] = s
      /\ \A j \in Id : j # id => rows'[j] = rows[j] /\ gos'[j] = gos[j]
  BY <1>1, <1>2, <1>3, <1>4 DEF Shape
<1>6. row.status \in Open => rows[id].status \in Open
  BY <1>2 DEF CopyOK
<1>7. RowOK(id)'
  BY <1>5 DEF RowOK
<1>8. CopyOK(id)'
  <2>1. gos[id].left \subseteq row.history
    BY <1>2 DEF CopyOK
  <2>2. Signed(id)' = [id |-> id, nonce |-> row.nonce, price |-> row.price]
    BY <1>4, <1>5 DEF Signed
  <2>3. gos'[id].pc = c /\ gos'[id].row = row /\ gos'[id].left = gos[id].left /\ rows'[id] = row
    BY <1>4, <1>5
  <2> QED BY <2>1, <2>2, <2>3 DEF CopyOK
<1>9. rows[id].status \in Past => rows'[id].status \in Past
  BY <1>2, <1>5, <1>6 DEF Past, Open, Row, Status
<1>10. rows'[id].history = rows[id].history \/ rows[id].status \in Open
  BY <1>2, <1>5 DEF CopyOK
<1>11. RowLinear(id) => RowLinear(id)'
  BY <1>1, <1>4, <1>5 DEF RowLinear, Settled, Successes
<1>12. RowLinear(id) /\ OneNonce(id) /\ "receipt" \notin faults'.seen => OneNonce(id)'
  BY <1>1, <1>4, <1>5 DEF OneNonce, Reverted
<1>13. network' \subseteq EthTx /\ rows[id].history \subseteq rows'[id].history
  BY <1>1, <1>2, <1>5 DEF Shape
<1> QED BY <1>1, <1>2, <1>5, <1>7, <1>8, <1>9, <1>10, <1>11, <1>12, <1>13, GoIInv

-----------------------------------------------------------------------------
(***************************************************************************)
(* The steps of monitorTx.                                                 *)
(***************************************************************************)

\* A receipt is looked at.
LEMMA CheckTxWasMinedIInv ==
  ASSUME IInv, FaultsGrow, NEW id \in Id, NEW tx \in gos[id].left, CheckTxWasMined(id, tx)
  PROVE  IInv'
<1> DEFINE g == gos[id]
           l == g.left \ {tx}
           seen == [g EXCEPT !.left = l]
<1>1. g.pc = "check"
  BY DEF CheckTxWasMined
<1>2. /\ Shape /\ CopyOK(id) /\ RowOK(id) /\ g \in GoState /\ g.left \subseteq EthTx
      /\ g.row.history = rows[id].history
  BY <1>1, AtWorkFacts
<1>3. tx \in EthTx /\ tx.id = id /\ l \in SUBSET EthTx
  BY <1>1, <1>2 DEF RowOK, CopyOK
<1>4. Goto(id, IF ~IsMined(tx) THEN [seen EXCEPT !.allMined = FALSE]
               ELSE IF ReceiptOf(tx).ok
               THEN [seen EXCEPT !.receipt = ReceiptOf(tx), !.pc = "finish"]
               ELSE [seen EXCEPT !.receipt = ReceiptOf(tx), !.failed = TRUE])
  BY DEF CheckTxWasMined
<1>5. rows' = rows /\ chain' = chain /\ synced' = synced
  BY DEF CheckTxWasMined, Goto, l1Vars
<1> HIDE DEF g, l
<1>6. /\ seen \in GoState /\ seen.left = l /\ seen.pc = g.pc /\ seen.row = g.row
      /\ seen.failed = g.failed /\ seen.allMined = g.allMined /\ seen.receipt = g.receipt
  BY <1>2, <1>3, GoLeft
<1> HIDE DEF seen
<1>7. CASE ~IsMined(tx)
  <2> DEFINE s == [seen EXCEPT !.allMined = FALSE]
  <2>1. ~s.allMined
    BY <1>6, Zenon DEF GoState
  <2>2. s \in GoState /\ s.pc = "check" /\ s.row = g.row /\ s.left = l
    BY <1>1, <1>6 DEF GoState
  <2>3. Goto(id, s)
    BY <1>4, <1>7
  <2> HIDE DEF s
  <2>4. gos'[id] = s => CopyOK(id)'
    BY <1>1, <1>2, <1>5, <2>2 DEF CopyOK, g, l
  <2>5. gos'[id] = s /\ RowLinear(id) => RowLinear(id)'
    BY <1>1, <1>5, <2>2 DEF RowLinear, Settled, Successes, g
  <2>6. gos'[id] = s /\ OneNonce(id) => OneNonce(id)'
    BY <1>5, <2>1, <2>2 DEF OneNonce, Reverted
  <2> QED BY <1>1, <2>2, <2>3, <2>4, <2>5, <2>6, GotoIInv DEF g
<1>8. CASE IsMined(tx) /\ ReceiptOf(tx).ok
  <2> DEFINE t == [seen EXCEPT !.receipt = ReceiptOf(tx)]
             s == [t EXCEPT !.pc = "finish"]
  <2>1. ReceiptOf(tx) \in Receipt /\ ReceiptOf(tx).block \in Successes(id)
    BY <1>2, <1>3, <1>8, ReceiptFacts, ReceiptMeans
  <2>2. t \in GoState /\ t.row = g.row /\ t.left = l /\ t.receipt = ReceiptOf(tx)
    BY <1>6, <2>1, GoReceipt
  <2>3. Goto(id, s)
    BY <1>4, <1>8
  <2> HIDE DEF t
  <2>4. s \in GoState /\ s.pc = "finish" /\ s.row = g.row /\ s.left = l /\ s.receipt = ReceiptOf(tx)
    <3>1. "finish" \in Places
      BY DEF Places
    <3> QED BY <2>2, <3>1, GoPc
  <2> HIDE DEF s
  <2>5. gos'[id] = s => CopyOK(id)'
    BY <1>1, <1>2, <1>5, <2>4 DEF CopyOK, g, l
  <2>6. gos'[id] = s /\ RowLinear(id) => RowLinear(id)'
    <3>1. Successes(id)' = Successes(id)
      BY <1>5 DEF Successes
    <3> QED BY <1>1, <1>5, <1>8, <2>1, <2>4, <3>1 DEF RowLinear, Settled, g
  <2>7. gos'[id] = s /\ OneNonce(id) => OneNonce(id)'
    BY <1>5, <2>4 DEF OneNonce, Reverted
  <2> QED BY <1>1, <2>3, <2>4, <2>5, <2>6, <2>7, GotoIInv DEF g
<1>9. CASE IsMined(tx) /\ ~ReceiptOf(tx).ok
  <2> DEFINE t == [seen EXCEPT !.receipt = ReceiptOf(tx)]
             s == [t EXCEPT !.failed = TRUE]
  <2>1. ReceiptOf(tx) \in Receipt /\ Reverted(tx)
    BY <1>2, <1>3, <1>9, ReceiptFacts, ReceiptMeans
  <2>2. t \in GoState /\ t.row = g.row /\ t.left = l /\ t.pc = "check" /\ t.allMined = g.allMined
    BY <1>1, <1>6, <2>1, GoReceipt
  <2>3. Goto(id, s)
    BY <1>4, <1>9
  <2> HIDE DEF t
  <2>4. s \in GoState /\ s.pc = "check" /\ s.row = g.row /\ s.left = l /\ s.allMined = g.allMined
    <3>1. s.allMined = t.allMined
      BY <2>2, Zenon DEF GoState
    <3>2. s \in GoState /\ s.pc = "check" /\ s.row = g.row /\ s.left = l
      BY <2>2 DEF GoState
    <3> QED BY <2>2, <3>1, <3>2, Zenon
  <2> HIDE DEF s
  <2>5. gos'[id] = s => CopyOK(id)'
    BY <1>1, <1>2, <1>5, <2>4 DEF CopyOK, g, l
  <2>6. gos'[id] = s /\ RowLinear(id) => RowLinear(id)'
    BY <1>1, <1>5, <2>4 DEF RowLinear, Settled, Successes, g
  <2>7. gos'[id] = s /\ OneNonce(id) => OneNonce(id)'
    <3> SUFFICES ASSUME gos'[id] = s, OneNonce(id) PROVE OneNonce(id)'
      OBVIOUS
    <3>1. \A x : Reverted(x)' <=> Reverted(x)
      BY <1>5 DEF Reverted
    <3>2. g.allMined => \A x \in g.row.history \ g.left : Reverted(x)
      BY <1>1 DEF OneNonce, g
    <3>3. g.allMined => \A x \in g.row.history \ l : Reverted(x)
      BY <2>1, <3>2 DEF l
    <3>4. \A x \in rows[id].history : x.nonce = rows[id].nonce \/ Reverted(x)
      BY DEF OneNonce
    <3> QED BY <1>5, <2>4, <3>1, <3>3, <3>4 DEF OneNonce
  <2> QED BY <1>1, <2>3, <2>4, <2>5, <2>6, <2>7, GotoIInv DEF g
<1> QED BY <1>7, <1>8, <1>9

\* A receipt cannot be fetched, and that is remembered.
LEMMA CheckTxWasMinedErrorIInv ==
  ASSUME IInv, FaultsGrow, NEW id \in Id, NEW tx \in gos[id].left, CheckTxWasMinedError(id, tx),
         "receipt" \in faults'.seen
  PROVE  IInv'
<1> DEFINE g == gos[id]
           l == g.left \ {tx}
           s == [g EXCEPT !.left = l]
<1>1. g.pc = "check" /\ Goto(id, s)
  BY DEF CheckTxWasMinedError
<1>2. /\ Shape /\ CopyOK(id) /\ g \in GoState /\ g.left \subseteq EthTx
  BY <1>1, AtWorkFacts
<1>3. l \in SUBSET EthTx
  BY <1>2
<1>4. rows' = rows /\ chain' = chain /\ synced' = synced
  BY <1>1 DEF Goto, l1Vars
<1> HIDE DEF g, l
<1>5. /\ s \in GoState /\ s.left = l /\ s.pc = g.pc /\ s.row = g.row
  BY <1>2, <1>3, GoLeft
<1> HIDE DEF s
<1>6. gos'[id] = s => CopyOK(id)'
  BY <1>1, <1>2, <1>4, <1>5 DEF CopyOK, g, l
<1>7. gos'[id] = s /\ RowLinear(id) => RowLinear(id)'
  BY <1>1, <1>4, <1>5 DEF RowLinear, Settled, Successes, g
<1> QED BY <1>1, <1>5, <1>6, <1>7, GotoIInv DEF g

\* Only the place of the goroutine changes: the steps that write nothing.
LEMMA GotoPcIInv ==
  ASSUME IInv, FaultsGrow, NEW id \in Id, NEW c \in Places, gos[id].pc # "idle",
         Goto(id, [gos[id] EXCEPT !.pc = c]), c \notin {"check", "finish", "save"},
         c # "idle" => gos[id].row.status \in Open,
         c \in {"send", "mark", "wait", "receipt"} => Signed(id) \in gos[id].row.history,
         gos[id].pc # "save", c = "receipt" => Succeeded(Signed(id))
  PROVE  IInv'
<1> DEFINE g == gos[id]
           s == [g EXCEPT !.pc = c]
<1>1. /\ Shape /\ CopyOK(id) /\ g \in GoState
  BY AtWorkFacts
<1>2. rows' = rows /\ chain' = chain /\ synced' = synced
  BY DEF Goto, l1Vars
<1> HIDE DEF g
<1>3. s \in GoState /\ s.left = g.left /\ s.pc = c /\ s.row = g.row
  BY <1>1, GoPc
<1> HIDE DEF s
<1>4. gos'[id] = s => CopyOK(id)'
  <2>1. gos'[id] = s => Signed(id)' = Signed(id)
    BY <1>3 DEF Signed, g
  <2> QED BY <1>1, <1>2, <1>3, <2>1 DEF CopyOK, g
<1>5. gos'[id] = s /\ RowLinear(id) => RowLinear(id)'
  <2>1. gos'[id] = s => (Succeeded(Signed(id))' <=> Succeeded(Signed(id)))
    BY <1>2, <1>3 DEF Succeeded, IsMined, MinedTxs, ReceiptOf, Signed, g
  <2> QED BY <1>2, <1>3, <2>1 DEF RowLinear, Settled, Successes, g
<1>6. gos'[id] = s /\ OneNonce(id) => OneNonce(id)'
  BY <1>2, <1>3 DEF OneNonce, Reverted
<1>7. Goto(id, s)
  BY DEF s, g
<1> QED BY <1>3, <1>4, <1>5, <1>6, <1>7, GotoIInv DEF g

\* The nonce is reviewed when everything that was signed has failed.
LEMMA reviewMonitoredTxNonceIInv ==
  ASSUME IInv, FaultsGrow, NEW id \in Id, reviewMonitoredTxNonce(id)
  PROVE  IInv'
<1> DEFINE g == gos[id]
           next == IF g.row.status = "reorged" THEN "idle"
                   ELSE IF g.row.status = "sent" THEN "review" ELSE "sign"
           n == IF CurrentNonce > g.row.nonce THEN CurrentNonce ELSE g.row.nonce
           row == [g.row EXCEPT !.nonce = n]
<1>1. g.pc = "check" /\ g.left = {}
  BY DEF reviewMonitoredTxNonce
<1>2. /\ Shape /\ RowOK(id) /\ CopyOK(id) /\ g.row \in Row /\ g.row.history = rows[id].history
      /\ g.row.nonce \in 0..MaxBlocks /\ rows[id].status # "absent"
  BY <1>1, AtWorkFacts
<1>3. next \in Places /\ next \in {"idle", "review", "sign"}
      /\ (next # "idle" => g.row.status \in Open) /\ g.row.status \in Open \cup {"reorged"}
  BY <1>1, <1>2 DEF Places, CopyOK, Open
<1>4. CASE NonceNeeded(g) /\ Update(id, row, next)
  <2>1. n \in 0..MaxBlocks
    BY <1>2, NonceFacts
  <2> HIDE DEF n
  <2>2. /\ row \in Row /\ row.status = g.row.status /\ row.price = g.row.price
        /\ row.block = g.row.block /\ row.history = g.row.history
    <3> DEFINE q == g.row
    <3>1. q \in Row
      BY <1>2
    <3> HIDE DEF q, g
    <3>2. row = [q EXCEPT !.nonce = n]
      BY DEF q
    <3> QED BY <2>1, <3>1, <3>2, RowNonce DEF q
  <2> HIDE DEF row
  <2>3. row.status \in Open => gos[id].row.status \in Open /\ row.block = 0
    BY <1>1, <1>2, <2>2 DEF CopyOK
  <2>4. row.status # "absent" /\ row.price # 0
    BY <1>1, <1>2, <1>3, <2>2 DEF CopyOK, Open
  <2>5. \A tx \in row.history : tx.id = id
    BY <1>2, <2>2 DEF RowOK
  <2>6. RowLinear(id) => row.status \notin {"reorged", "failed"}
    BY <1>1, <1>3, <2>2 DEF RowLinear, Open
  <2>7. row.status \notin {"confirmed", "done"}
    BY <1>3, <2>2 DEF Open
  <2>8. OneNonce(id) => \A tx \in row.history : tx.nonce = row.nonce \/ Reverted(tx)
    BY <1>1, <1>4, <2>2 DEF OneNonce, NonceNeeded
  <2>9. next = "idle" \/ (next \in {"sign", "review", "send", "wait"} /\ row.status \in Open)
    BY <1>3, <2>2
  <2>10. next \notin {"send", "wait"}
    BY <1>3
  <2> HIDE DEF next
  <2> QED BY <1>1, <1>3, <1>4, <2>2, <2>3, <2>4, <2>5, <2>6, <2>7, <2>8, <2>9, <2>10, UpdateIInv
<1>5. CASE Goto(id, [g EXCEPT !.pc = next])
  <2> HIDE DEF next
  <2> QED BY <1>1, <1>3, <1>5, GotoPcIInv
<1> QED BY <1>4, <1>5 DEF reviewMonitoredTxNonce

\* The price is raised.
LEMMA reviewMonitoredTxIInv ==
  ASSUME IInv, FaultsGrow, NEW id \in Id, reviewMonitoredTx(id)
  PROVE  IInv'
<1> DEFINE q == gos[id].row
           Raised(p) == [q EXCEPT !.price = IF p > @ THEN p ELSE @]
<1>1. gos[id].pc = "review"
  BY DEF reviewMonitoredTx
<1>2. PICK p \in 1..MaxPrice : Update(id, Raised(p), "sign")
  BY DEF reviewMonitoredTx, suggestedGasPrice
<1>3. /\ Shape /\ RowOK(id) /\ CopyOK(id) /\ q \in Row /\ q.history = rows[id].history
      /\ q.price \in 0..MaxPrice
  BY <1>1, AtWorkFacts
<1> DEFINE m == IF p > q.price THEN p ELSE q.price
           row == [q EXCEPT !.price = m]
<1>4. m \in 0..MaxPrice /\ m # 0
  BY <1>1, <1>3, EthTxManagerAssumption DEF CopyOK
<1>5. Update(id, row, "sign")
  BY <1>2
<1>6. q.status \in Open /\ q.block = 0
  BY <1>1, <1>3 DEF CopyOK
<1>7. RowLinear(id) => q.nonce = rows[id].nonce
  BY <1>1 DEF RowLinear
<1> HIDE DEF q, m
<1>8. /\ row \in Row /\ row.status = q.status /\ row.price = m /\ row.nonce = q.nonce
      /\ row.block = q.block /\ row.history = q.history
  BY <1>3, <1>4, RowPrice
<1> HIDE DEF row
<1>9. \A tx \in row.history : tx.id = id
  BY <1>3, <1>8 DEF RowOK
<1>10. row.status \in Open /\ row.status \notin {"absent", "reorged", "failed", "confirmed", "done"}
  BY <1>6, <1>8 DEF Open
<1>11. RowLinear(id) /\ OneNonce(id) =>
         \A tx \in row.history : tx.nonce = row.nonce \/ Reverted(tx)
  BY <1>3, <1>7, <1>8 DEF OneNonce
<1>12. "sign" \in Places
  BY DEF Places
<1> QED BY <1>1, <1>4, <1>5, <1>6, <1>8, <1>9, <1>10, <1>11, <1>12, UpdateIInv DEF q

\* The transaction is recorded before it is sent.
LEMMA AddHistoryIInv ==
  ASSUME IInv, FaultsGrow, NEW id \in Id, AddHistory(id)
  PROVE  IInv'
<1> DEFINE q == gos[id].row
           tx == Signed(id)
           hist == q.history \cup {tx}
           row == [q EXCEPT !.history = hist]
<1>1. gos[id].pc = "sign"
  BY DEF AddHistory
<1>2. /\ Shape /\ RowOK(id) /\ CopyOK(id) /\ q \in Row /\ q.history = rows[id].history
      /\ q.price \in 0..MaxPrice /\ q.nonce \in 0..MaxBlocks /\ q.history \subseteq EthTx
  BY <1>1, AtWorkFacts
<1>3. q.status \in Open /\ q.block = 0 /\ q.price # 0
  BY <1>1, <1>2 DEF CopyOK
<1>4. tx = [id |-> id, nonce |-> q.nonce, price |-> q.price] /\ tx \in EthTx
  <2>1. q.price \in 1..MaxPrice
    BY <1>2, <1>3, EthTxManagerAssumption
  <2> QED BY <1>2, <2>1 DEF Signed, EthTx
<1>5. "send" \in Places
  BY DEF Places
<1>6. CASE tx \in q.history /\ Goto(id, [gos[id] EXCEPT !.pc = "send"])
  BY <1>1, <1>3, <1>5, <1>6, GotoPcIInv
<1>7. CASE Update(id, row, "send")
  <2>1. RowLinear(id) => q.nonce = rows[id].nonce
    BY <1>1 DEF RowLinear
  <2>2. tx.id = id /\ tx.nonce = q.nonce
    BY <1>4
  <2> HIDE DEF tx
  <2>3. hist \in SUBSET EthTx /\ tx \in hist /\ q.history \subseteq hist
    BY <1>2, <1>4
  <2>4. \A t \in hist : t.id = id
    BY <1>2, <2>2 DEF RowOK
  <2>5. RowLinear(id) /\ OneNonce(id) => \A t \in hist : t.nonce = q.nonce \/ Reverted(t)
    BY <1>2, <2>1, <2>2 DEF OneNonce
  <2> HIDE DEF q, hist
  <2>6. /\ row \in Row /\ row.status = q.status /\ row.price = q.price /\ row.nonce = q.nonce
        /\ row.block = q.block /\ row.history = hist
    BY <1>2, <2>3, RowHistory
  <2> HIDE DEF row
  <2>7. row.status \in Open /\ row.status \notin {"absent", "reorged", "failed", "confirmed", "done"}
    BY <1>3, <2>6 DEF Open
  <2>8. [id |-> id, nonce |-> row.nonce, price |-> row.price] \in row.history
    BY <1>4, <2>3, <2>6
  <2>9. gos[id].row.status \in Open /\ gos[id].row.history \subseteq row.history
    BY <1>3, <2>3, <2>6 DEF q
  <2>10. row.block = 0 /\ row.price # 0 /\ \A t \in row.history : t.id = id
    BY <1>3, <2>4, <2>6
  <2>11. RowLinear(id) /\ OneNonce(id) =>
           \A t \in row.history : t.nonce = row.nonce \/ Reverted(t)
    BY <2>5, <2>6
  <2> QED BY <1>1, <1>5, <1>7, <2>6, <2>7, <2>8, <2>9, <2>10, <2>11, UpdateIInv
<1> QED BY <1>6, <1>7 DEF AddHistory

\* The row is marked as sent.
LEMMA MarkSentIInv ==
  ASSUME IInv, FaultsGrow, NEW id \in Id, MarkSent(id)
  PROVE  IInv'
<1> DEFINE q == gos[id].row
           row == [q EXCEPT !.status = "sent"]
<1>1. gos[id].pc = "mark" /\ Update(id, row, "wait")
  BY DEF MarkSent
<1>2. /\ Shape /\ RowOK(id) /\ CopyOK(id) /\ q \in Row /\ q.history = rows[id].history
  BY <1>1, AtWorkFacts
<1>3. /\ q.status \in Open /\ q.block = 0 /\ q.price # 0
      /\ [id |-> id, nonce |-> q.nonce, price |-> q.price] \in q.history
  BY <1>1, <1>2 DEF CopyOK, Signed
<1>4. RowLinear(id) => q.nonce = rows[id].nonce
  BY <1>1 DEF RowLinear
<1>5. "wait" \in Places /\ "sent" \in Status
  BY DEF Places, Status
<1> HIDE DEF q
<1>6. /\ row \in Row /\ row.status = "sent" /\ row.price = q.price /\ row.nonce = q.nonce
      /\ row.block = q.block /\ row.history = q.history
  BY <1>2, <1>5, RowStatus
<1> HIDE DEF row
<1>7. row.status \in Open /\ row.status \notin {"absent", "reorged", "failed", "confirmed", "done"}
  BY <1>6 DEF Open
<1>8. \A tx \in row.history : tx.id = id
  BY <1>2, <1>6 DEF RowOK
<1>9. RowLinear(id) /\ OneNonce(id) =>
        \A tx \in row.history : tx.nonce = row.nonce \/ Reverted(tx)
  BY <1>2, <1>4, <1>6 DEF OneNonce
<1>10. [id |-> id, nonce |-> row.nonce, price |-> row.price] \in row.history
  BY <1>3, <1>6
<1> QED BY <1>1, <1>3, <1>5, <1>6, <1>7, <1>8, <1>9, <1>10, UpdateIInv DEF q

\* The result is saved.
LEMMA SaveIInv ==
  ASSUME IInv, FaultsGrow, NEW id \in Id, Save(id)
  PROVE  IInv'
<1> DEFINE row == gos[id].row
<1>1. gos[id].pc = "save" /\ Update(id, row, "idle")
  BY DEF Save
<1>2. /\ Shape /\ RowOK(id) /\ CopyOK(id) /\ row \in Row /\ row.history = rows[id].history
  BY <1>1, AtWorkFacts
<1>3. row.status \in {"confirmed", "failed"} /\ row.price # 0
  BY <1>1, <1>2 DEF CopyOK
<1>4. row.status \notin Open /\ row.status # "absent"
  BY <1>3 DEF Open
<1>5. RowLinear(id) => row.status \notin {"reorged", "failed"} /\ Settled(id, row.block)
  BY <1>1 DEF RowLinear
<1>6. RowLinear(id) /\ OneNonce(id) =>
        \A tx \in row.history : tx.nonce = row.nonce \/ Reverted(tx)
  BY <1>1, <1>2 DEF RowLinear, OneNonce
<1>7. \A tx \in row.history : tx.id = id
  BY <1>2 DEF RowOK
<1>8. "idle" \in Places
  BY DEF Places
<1>9. row.history = gos[id].row.history
  OBVIOUS
<1> HIDE DEF row
<1> QED BY <1>1, <1>2, <1>3, <1>4, <1>5, <1>6, <1>7, <1>8, <1>9, UpdateIInv

\* The transaction is sent; it is in the history.
LEMMA SendTxIInv ==
  ASSUME IInv, FaultsGrow, NEW id \in Id, SendTx(id)
  PROVE  IInv'
<1> DEFINE g == gos[id]
           tx == Signed(id)
           c == IF g.row.status = "created" THEN "mark" ELSE "wait"
<1>1. g.pc = "send"
  BY DEF SendTx
<1>2. /\ Shape /\ RowOK(id) /\ CopyOK(id) /\ g \in GoState /\ rows[id].status # "absent"
      /\ g.row.history = rows[id].history /\ g.row.history \subseteq EthTx
  BY <1>1, AtWorkFacts
<1>3. g.row.status \in Open /\ tx \in g.row.history
  BY <1>1, <1>2 DEF CopyOK
<1>4. tx \in EthTx /\ tx.id = id
  BY <1>2, <1>3 DEF Signed
<1>5. c \in Places /\ c \in {"mark", "wait"} /\ "wait" \in Places
  BY DEF Places
<1> HIDE DEF tx, c
<1>6. CASE Goto(id, Idle)
  BY <1>1, <1>6, GotoIdleIInv
<1>7. CASE Goto(id, [g EXCEPT !.pc = "wait"])
  BY <1>1, <1>3, <1>5, <1>7, GotoPcIInv DEF tx
<1>8. CASE /\ network' = network \cup {tx} /\ gos' = [gos EXCEPT ![id].pc = c]
           /\ UNCHANGED <<rows, owners, chain, mined, synced>>
  <2> DEFINE s == [g EXCEPT !.pc = c]
  <2>1. gos' = [gos EXCEPT ![id] = s]
    BY <1>2, <1>8, Zenon DEF Shape
  <2> HIDE DEF g
  <2>2. s \in GoState /\ s.left = g.left /\ s.pc = c /\ s.row = g.row
    BY <1>2, <1>5, GoPc
  <2> HIDE DEF s
  <2>3. /\ gos' \in [Id -> GoState] /\ gos'[id] = s /\ \A j \in Id : j # id => gos'[j] = gos[j]
    BY <1>2, <2>1, <2>2 DEF Shape
  <2>4. CopyOK(id)'
    <3>1. Signed(id)' = Signed(id)
      BY <2>2, <2>3 DEF Signed, g
    <3> QED BY <1>1, <1>2, <1>3, <1>5, <1>8, <2>2, <2>3, <3>1 DEF CopyOK, g, tx
  <2>5. RowOK(id)'
    BY <1>2, <1>8 DEF RowOK
  <2>6. RowLinear(id) => RowLinear(id)'
    BY <1>1, <1>5, <1>8, <2>2, <2>3 DEF RowLinear, Settled, Successes, g
  <2>7. OneNonce(id) => OneNonce(id)'
    BY <1>5, <1>8, <2>2, <2>3 DEF OneNonce, Reverted
  <2>8. rows' \in [Id -> Row] /\ network' \subseteq EthTx
    BY <1>2, <1>4, <1>8 DEF Shape
  <2>9. \A t \in network' : t \in network \/ (t.id = id /\ t \in rows'[id].history)
    BY <1>2, <1>3, <1>4, <1>8 DEF g
  <2> QED BY <1>1, <1>2, <1>8, <2>3, <2>4, <2>5, <2>6, <2>7, <2>8, <2>9, GoIInv DEF g
<1> QED BY <1>6, <1>7, <1>8 DEF SendTx, tx, c

\* The transaction is mined and successful.
LEMMA WaitTxToBeMinedIInv ==
  ASSUME IInv, FaultsGrow, NEW id \in Id, WaitTxToBeMined(id)
  PROVE  IInv'
<1>1. gos[id].pc = "wait" /\ Goto(id, [gos[id] EXCEPT !.pc = "receipt"])
  BY DEF WaitTxToBeMined
<1>2. gos[id].row.status \in Open /\ Signed(id) \in gos[id].row.history
  BY <1>1, AtWorkFacts DEF CopyOK
<1>3. "receipt" \in Places
  BY DEF Places
<1>4. Succeeded(Signed(id))
  BY DEF WaitTxToBeMined, Succeeded
<1> QED BY <1>1, <1>2, <1>3, <1>4, GotoPcIInv

\* The receipt of the transaction in hand is fetched.
LEMMA GetTxReceiptIInv ==
  ASSUME IInv, FaultsGrow, NEW id \in Id, GetTxReceipt(id)
  PROVE  IInv'
<1> DEFINE g == gos[id]
           tx == Signed(id)
           t == [g EXCEPT !.receipt = ReceiptOf(tx)]
           s == [t EXCEPT !.pc = "finish"]
<1>1. g.pc = "receipt" /\ IsMined(tx) /\ Goto(id, s)
  BY DEF GetTxReceipt
<1>2. /\ Shape /\ RowOK(id) /\ CopyOK(id) /\ g \in GoState
      /\ g.row.history \subseteq EthTx
  BY <1>1, AtWorkFacts
<1>3. tx \in EthTx /\ tx.id = id
  BY <1>1, <1>2 DEF CopyOK, Signed
<1>4. ReceiptOf(tx) \in Receipt /\ (ReceiptOf(tx).ok => ReceiptOf(tx).block \in Successes(id))
  BY <1>1, <1>2, <1>3, ReceiptFacts, ReceiptMeans
<1>5. rows' = rows /\ chain' = chain /\ synced' = synced
  BY <1>1 DEF Goto, l1Vars
<1> HIDE DEF g, tx
<1>6. t \in GoState /\ t.row = g.row /\ t.left = g.left /\ t.receipt = ReceiptOf(tx)
  BY <1>2, <1>4, GoReceipt
<1> HIDE DEF t
<1>7. s \in GoState /\ s.pc = "finish" /\ s.row = g.row /\ s.left = g.left
      /\ s.receipt = ReceiptOf(tx)
  <2>1. "finish" \in Places
    BY DEF Places
  <2> QED BY <1>6, <2>1, GoPc
<1> HIDE DEF s
<1>8. gos'[id] = s => CopyOK(id)'
  BY <1>1, <1>2, <1>5, <1>7 DEF CopyOK, g
<1>9. gos'[id] = s /\ RowLinear(id) => RowLinear(id)'
  <2>1. Successes(id)' = Successes(id)
    BY <1>5 DEF Successes
  <2>2. RowLinear(id) => ReceiptOf(tx).ok
    BY <1>1 DEF RowLinear, Succeeded, g, tx
  <2> QED BY <1>1, <1>4, <1>5, <1>7, <2>1, <2>2 DEF RowLinear, Settled, g
<1>10. gos'[id] = s /\ OneNonce(id) => OneNonce(id)'
  BY <1>5, <1>7 DEF OneNonce, Reverted
<1> QED BY <1>1, <1>7, <1>8, <1>9, <1>10, GotoIInv DEF g

\* The receipt decides.
LEMMA EndedIInv ==
  ASSUME IInv, FaultsGrow, NEW id \in Id, NEW st \in {"confirmed", "failed"},
         gos[id].pc = "finish",
         st = "confirmed" => gos[id].receipt.ok /\ IsSynced(gos[id].receipt.block),
         st = "failed" => ~gos[id].receipt.ok,
         Goto(id, [gos[id] EXCEPT
                     !.row = [gos[id].row EXCEPT !.status = st, !.block = gos[id].receipt.block],
                     !.pc = "save"])
  PROVE  IInv'
<1> DEFINE g == gos[id]
           b == g.receipt.block
           q == g.row
           q1 == [q EXCEPT !.status = st]
           row == [q1 EXCEPT !.block = b]
           t == [g EXCEPT !.row = row]
           s == [t EXCEPT !.pc = "save"]
<1>1. Goto(id, s)
  OBVIOUS
<1>2. /\ Shape /\ RowOK(id) /\ CopyOK(id) /\ g \in GoState /\ q \in Row
      /\ g.receipt \in Receipt
  BY AtWorkFacts
<1>3. b \in 0..MaxBlocks /\ st \in Status /\ "save" \in Places
  BY <1>2 DEF Receipt, Status, Places
<1>4. rows' = rows /\ chain' = chain /\ synced' = synced
  BY <1>1 DEF Goto, l1Vars
<1>5. RowLinear(id) => st = "confirmed" /\ Settled(id, b)
  <2>1. st = "confirmed" => b <= Len(synced)
    BY <1>2, <1>3, ShapeFacts, EthTxManagerAssumption DEF IsSynced
  <2>2. RowLinear(id) => st = "confirmed" /\ b \in Successes(id)
    BY DEF RowLinear
  <2> QED BY <2>1, <2>2 DEF Settled
<1> HIDE DEF q, b
<1>6. q1 \in Row /\ q1.status = st /\ q1.nonce = q.nonce /\ q1.price = q.price
      /\ q1.history = q.history
  BY <1>2, <1>3, RowStatus
<1> HIDE DEF q1
<1>7. row \in Row /\ row.status = st /\ row.nonce = q.nonce /\ row.price = q.price
      /\ row.history = q.history /\ row.block = b
  BY <1>3, <1>6, RowBlock
<1> HIDE DEF row, g
<1>8. t \in GoState /\ t.row = row /\ t.left = g.left
  BY <1>2, <1>7, GoRow
<1> HIDE DEF t
<1>9. s \in GoState /\ s.pc = "save" /\ s.row = row /\ s.left = g.left
  BY <1>3, <1>8, GoPc
<1> HIDE DEF s
<1>10. gos'[id] = s => CopyOK(id)'
  <2>1. row.status \in {"confirmed", "failed"} /\ row.status \notin Open
    BY <1>7 DEF Open
  <2> QED BY <1>2, <1>4, <1>7, <1>9, <2>1 DEF CopyOK, g, q
<1>11. gos'[id] = s /\ RowLinear(id) => RowLinear(id)'
  <2>1. Successes(id)' = Successes(id)
    BY <1>4 DEF Successes
  <2> SUFFICES ASSUME gos'[id] = s, RowLinear(id) PROVE RowLinear(id)'
    OBVIOUS
  <2>2. /\ rows[id].status \in Open /\ rows[id].status \notin {"reorged", "failed"}
        /\ rows[id].nonce = q.nonce
    BY DEF RowLinear, q, g
  <2>3. row.status = "confirmed" /\ row.block \in Successes(id)' /\ row.block <= Len(synced')
    BY <1>4, <1>5, <1>7, <2>1 DEF Settled
  <2>4. rows[id].status \notin {"confirmed", "done"} /\ row.status # "reorged"
    BY <1>7, <2>2 DEF Open
  <2> QED BY <1>4, <1>7, <1>9, <2>2, <2>3, <2>4 DEF RowLinear, Settled
<1>12. gos'[id] = s /\ OneNonce(id) => OneNonce(id)'
  BY <1>4, <1>9 DEF OneNonce, Reverted
<1> QED BY <1>1, <1>9, <1>10, <1>11, <1>12, GotoIInv

\* The receipt decides.
LEMMA FinishIInv ==
  ASSUME IInv, FaultsGrow, NEW id \in Id, Finish(id)
  PROVE  IInv'
<1> DEFINE Ended(st) ==
      [gos[id] EXCEPT
         !.row = [gos[id].row EXCEPT !.status = st, !.block = gos[id].receipt.block],
         !.pc = "save"]
<1>1. gos[id].pc = "finish"
  BY DEF Finish
<1>2. CASE Goto(id, Idle)
  BY <1>1, <1>2, GotoIdleIInv
<1>3. CASE gos[id].receipt.ok /\ IsSynced(gos[id].receipt.block) /\ Goto(id, Ended("confirmed"))
  BY <1>1, <1>3, EndedIInv
<1>4. CASE ~gos[id].receipt.ok /\ Goto(id, Ended("failed"))
  BY <1>1, <1>4, EndedIInv
<1> HIDE DEF Ended
<1> QED BY <1>2, <1>3, <1>4 DEF Finish, Ended

-----------------------------------------------------------------------------
(***************************************************************************)
(* Steps that write no row: a new cycle, a crash, what an owner reads.     *)
(***************************************************************************)
\* No row and no block changes; goroutines and owners take up something else.
LEMMA QuietIInv ==
  ASSUME IInv, FaultsGrow, UNCHANGED <<rows, chain, mined, synced>>,
         network' \subseteq network,
         gos' \in [Id -> GoState], owners' \in [Owner -> OwnerState],
         \A id \in Id : rows[id].status = "absent" => gos'[id].pc = "idle",
         \A id \in Id : CopyOK(id)', \A w \in Owner : OwnerOK(w)',
         Linear => (\A id \in Id : RowLinear(id)') /\ \A w \in Owner : OwnerLinear(w)',
         \A id \in Id : OneNonce(id) => OneNonce(id)'
  PROVE  IInv'
<1>1. Shape /\ SentIsRecorded /\ \A id \in Id : RowOK(id)
  BY DEF IInv, Always
<1>2. Shape'
  BY <1>1 DEF Shape, FaultsGrow
<1>3. SentIsRecorded'
  BY <1>1 DEF SentIsRecorded
<1>4. \A id \in Id : RowOK(id)'
  BY <1>1 DEF RowOK
<1>5. Linear => Linear'
  BY DEF Linear, ChainLinear, Agrees, CurrentNonce, MinedTxs
<1> QED BY <1>2, <1>3, <1>4, <1>5 DEF IInv, Always, FaultsGrow

\* What the monitor and an owner start from.
LEMMA StartFacts ==
  /\ Absent \in Row /\ Absent.history = {} /\ Absent.status = "absent"
  /\ NoReceipt \in Receipt
  /\ Idle \in GoState /\ Idle.pc = "idle"
  /\ AtWork \in OwnerState /\ AtWork.pc = "list" /\ AtWork.todo = {}
<1>1. Absent \in Row /\ Absent.history = {} /\ Absent.status = "absent"
  BY EthTxManagerAssumption DEF Absent, Row, Status
<1>2. NoReceipt \in Receipt
  BY EthTxManagerAssumption DEF NoReceipt, Receipt
<1>3. Idle \in GoState /\ Idle.pc = "idle"
  BY <1>1, <1>2 DEF Idle, GoState, Places
<1>4. AtWork \in OwnerState /\ AtWork.pc = "list" /\ AtWork.todo = {}
  BY <1>1 DEF AtWork, OwnerState
<1> QED BY <1>1, <1>2, <1>3, <1>4

\* A cycle begins: every goroutine gets a copy of its row.
LEMMA monitorTxsIInv ==
  ASSUME IInv, FaultsGrow, monitorTxs
  PROVE  IInv'
<1> DEFINE due == {id \in Id : rows[id].status \in {"created", "sent", "reorged"}}
           s(id) == [Idle EXCEPT !.pc = "check", !.row = rows[id], !.left = rows[id].history]
<1>1. /\ gos' = [id \in Id |-> IF id \in due THEN s(id) ELSE Idle]
      /\ UNCHANGED <<rows, owners, chain, network, mined, synced>>
  BY DEF monitorTxs, l1Vars
<1>2. /\ Shape /\ \A id \in Id : RowOK(id) /\ CopyOK(id)
      /\ \A w \in Owner : OwnerOK(w)
  BY DEF IInv, Always
<1>3. \A id \in Id : rows[id] \in Row /\ rows[id].history \in SUBSET EthTx
  BY <1>2, ShapeFacts DEF Row
<1>5. \A id \in Id : s(id) \in GoState /\ s(id).pc = "check" /\ s(id).row = rows[id]
                     /\ s(id).left = rows[id].history
  <2> TAKE id \in Id
  <2> DEFINE a == [Idle EXCEPT !.pc = "check"]
             b == [a EXCEPT !.row = rows[id]]
             past == rows[id].history
             d == [b EXCEPT !.left = past]
  <2>1. s(id) = d
    BY Zenon
  <2> HIDE DEF s
  <2>2. "check" \in Places
    BY DEF Places
  <2>3. a \in GoState /\ a.pc = "check"
    BY <2>2, StartFacts, GoPc
  <2> HIDE DEF a
  <2>4. b \in GoState /\ b.pc = "check" /\ b.row = rows[id]
    BY <1>3, <2>3, GoRow
  <2> HIDE DEF b
  <2>5. past \in SUBSET EthTx
    BY <1>3
  <2> HIDE DEF past
  <2>6. d \in GoState /\ d.pc = "check" /\ d.row = rows[id] /\ d.left = past
    BY <2>4, <2>5, GoLeft
  <2> QED BY <2>1, <2>6 DEF past
<1> HIDE DEF s
<1>6. gos' \in [Id -> GoState]
  BY <1>1, <1>5, StartFacts
<1>7. \A id \in Id : rows[id].status = "absent" => gos'[id].pc = "idle"
  BY <1>1, StartFacts
<1>8. \A id \in Id : CopyOK(id)'
  <2> SUFFICES ASSUME NEW id \in Id, gos'[id].pc # "idle" PROVE CopyOK(id)'
    BY DEF CopyOK
  <2>1. id \in due /\ gos'[id] = s(id)
    BY <1>1, StartFacts
  <2>2. RowOK(id) /\ rows' = rows
    BY <1>1, <1>2
  <2>3. gos'[id].pc = "check" /\ gos'[id].row = rows[id] /\ gos'[id].left = rows[id].history
    BY <1>5, <2>1
  <2> QED BY <2>1, <2>2, <2>3 DEF CopyOK, RowOK, Open
<1>9. \A w \in Owner : OwnerOK(w)'
  BY <1>1, <1>2 DEF OwnerOK
<1>10. ASSUME Linear
       PROVE  (\A id \in Id : RowLinear(id)') /\ \A w \in Owner : OwnerLinear(w)'
  <2>1. \A w \in Owner : OwnerLinear(w)'
    BY <1>1, <1>10 DEF Linear, OwnerLinear, Settled, Successes
  <2>2. ASSUME NEW id \in Id PROVE RowLinear(id)'
    <3>1. RowLinear(id)
      BY <1>10 DEF Linear
    <3>2. CASE id \in due
      <4>1. gos'[id].pc = "check" /\ gos'[id].row = rows[id]
        BY <1>1, <1>5, <3>2
      <4> QED BY <1>1, <3>1, <3>2, <4>1 DEF RowLinear, Settled, Successes, Open
    <3>3. CASE id \notin due
      <4>1. gos'[id].pc = "idle"
        BY <1>1, <3>3, StartFacts
      <4> QED BY <1>1, <3>1, <4>1 DEF RowLinear, Settled, Successes
    <3> QED BY <3>2, <3>3
  <2> QED BY <2>1, <2>2
<1>11. ASSUME NEW id \in Id, OneNonce(id) PROVE OneNonce(id)'
  <2>1. \A tx \in rows'[id].history : tx.nonce = rows'[id].nonce \/ Reverted(tx)'
    BY <1>1, <1>11 DEF OneNonce, Reverted
  <2>2. gos'[id].pc = "check" => gos'[id].left = gos'[id].row.history
    BY <1>1, <1>5, StartFacts
  <2> QED BY <2>1, <2>2 DEF OneNonce
<1> QED BY <1>1, <1>2, <1>6, <1>7, <1>8, <1>9, <1>10, <1>11, QuietIInv DEF Shape

\* The process dies: all that is in memory is gone.
LEMMA CrashIInv ==
  ASSUME IInv, FaultsGrow, Crash
  PROVE  IInv'
<1>1. /\ gos' = [id \in Id |-> Idle] /\ owners' = [w \in Owner |-> AtWork]
      /\ UNCHANGED <<rows, chain, network, mined, synced>>
  BY DEF Crash, l1Vars
<1>2. \A id \in Id : gos'[id] = Idle /\ gos'[id].pc = "idle"
  BY <1>1, StartFacts
<1>3. \A w \in Owner : owners'[w].pc = "list" /\ owners'[w].todo = {}
  BY <1>1, StartFacts
<1>4. gos' \in [Id -> GoState] /\ owners' \in [Owner -> OwnerState]
  BY <1>1, StartFacts
<1>5. \A id \in Id : CopyOK(id)'
  BY <1>2 DEF CopyOK
<1>6. \A w \in Owner : OwnerOK(w)' /\ OwnerLinear(w)'
  BY <1>3 DEF OwnerOK, OwnerLinear
<1>7. Linear => \A id \in Id : RowLinear(id)'
  BY <1>1, <1>2 DEF Linear, RowLinear, Settled, Successes
<1>8. \A id \in Id : OneNonce(id) => OneNonce(id)'
  BY <1>1, <1>2 DEF OneNonce, Reverted
<1> QED BY <1>1, <1>2, <1>4, <1>5, <1>6, <1>7, <1>8, QuietIInv

\* An owner goes on; the goroutines do not notice.
LEMMA OwnerGotoIInv ==
  ASSUME IInv, FaultsGrow, NEW w \in Owner, NEW r \in OwnerState, OwnerGoto(w, r),
         owners'[w] = r => OwnerOK(w)',
         Linear /\ owners'[w] = r => OwnerLinear(w)'
  PROVE  IInv'
<1>1. /\ owners' = [owners EXCEPT ![w] = r]
      /\ UNCHANGED <<rows, gos, chain, network, mined, synced>>
  BY DEF OwnerGoto, l1Vars
<1>2. /\ Shape /\ \A id \in Id : RowOK(id) /\ CopyOK(id)
      /\ \A v \in Owner : OwnerOK(v)
  BY DEF IInv, Always
<1>3. /\ owners' \in [Owner -> OwnerState] /\ owners'[w] = r
      /\ \A v \in Owner : v # w => owners'[v] = owners[v]
  BY <1>1, <1>2 DEF Shape
<1>4. \A v \in Owner : OwnerOK(v)'
  <2> SUFFICES ASSUME NEW v \in Owner, v # w PROVE OwnerOK(v)'
    BY <1>3
  <2>1. OwnerOK(v) /\ owners'[v] = owners[v]
    BY <1>2, <1>3
  <2> QED BY <1>1, <2>1 DEF OwnerOK
<1>5. ASSUME Linear PROVE (\A id \in Id : RowLinear(id)') /\ \A v \in Owner : OwnerLinear(v)'
  <2>1. \A id \in Id : RowLinear(id)'
    BY <1>1, <1>5 DEF Linear, RowLinear, Settled, Successes, Succeeded, IsMined, MinedTxs, ReceiptOf, Signed
  <2>2. ASSUME NEW v \in Owner, v # w PROVE OwnerLinear(v)'
    <3>1. OwnerLinear(v) /\ owners'[v] = owners[v]
      BY <1>3, <1>5, <2>2 DEF Linear
    <3> QED BY <1>1, <3>1 DEF OwnerLinear, Settled, Successes
  <2> QED BY <1>3, <1>5, <2>1, <2>2
<1>6. \A id \in Id : CopyOK(id)'
  BY <1>1, <1>2 DEF CopyOK, Signed
<1>7. \A id \in Id : OneNonce(id) => OneNonce(id)'
  BY <1>1 DEF OneNonce, Reverted
<1>8. \A id \in Id : rows[id].status = "absent" => gos'[id].pc = "idle"
  BY <1>1, <1>2 DEF RowOK
<1> QED BY <1>1, <1>2, <1>3, <1>4, <1>5, <1>6, <1>7, <1>8, QuietIInv DEF Shape

\* ResultsByStatus.
LEMMA ListResultsIInv ==
  ASSUME IInv, FaultsGrow, NEW w \in Owner, ListResults(w)
  PROVE  IInv'
<1> DEFINE mine == {i \in Id : OwnerOf[i] = w /\ rows[i].status \notin {"absent", "done"}}
           results == {[id |-> id, status |-> rows[id].status] : id \in mine}
           c == IF results = {} THEN "work" ELSE "list"
           a == [AtWork EXCEPT !.pc = c]
           r == [a EXCEPT !.todo = results]
<1>1. OwnerGoto(w, [AtWork EXCEPT !.pc = c, !.todo = results])
  BY DEF ListResults
<1>2. \A id \in Id : rows[id].status \in Status
  BY ShapeFacts DEF IInv, Always, Row
<1>3. \A x \in results : /\ x.id \in Id /\ x.status = rows[x.id].status
                         /\ x.status \notin {"absent", "done"} /\ x \in [id : Id, status : Status]
  BY <1>2
<1>4. c \in {"work", "list"}
  OBVIOUS
<1> HIDE DEF results, c
<1>5. [AtWork EXCEPT !.pc = c, !.todo = results] = r
  BY Zenon
<1>6. r \in OwnerState /\ r.pc # "put" /\ r.todo = results
  <2>1. AtWork \in OwnerState /\ c \in {"list", "put", "work"}
    BY <1>4, StartFacts
  <2>2. a \in OwnerState /\ a.pc = c
    BY <2>1 DEF OwnerState
  <2> HIDE DEF a
  <2>3. results \in SUBSET [id : Id, status : Status]
    BY <1>3
  <2> QED BY <1>4, <2>2, <2>3 DEF OwnerState
<1> HIDE DEF r
<1>7. OwnerGoto(w, r)
  BY <1>1, <1>5
<1>8. rows' = rows
  BY <1>1 DEF OwnerGoto
<1>9. owners'[w] = r => OwnerOK(w)'
  BY <1>3, <1>6, <1>8 DEF OwnerOK, Past
<1>10. owners'[w] = r => OwnerLinear(w)'
  BY <1>3, <1>6, <1>8 DEF OwnerLinear
<1> QED BY <1>6, <1>7, <1>9, <1>10, OwnerGotoIInv

\* The owner takes up a result.
LEMMA HandleResultIInv ==
  ASSUME IInv, FaultsGrow, NEW w \in Owner, NEW x \in owners[w].todo, HandleResult(w, x)
  PROVE  IInv'
<1> DEFINE c == IF x.status = "confirmed" THEN "put" ELSE "list"
           left == owners[w].todo \ {x}
           r == [pc |-> c, todo |-> left, id |-> x.id, row |-> rows[x.id]]
<1>1. OwnerGoto(w, r)
  BY DEF HandleResult
<1>2. /\ Shape /\ OwnerOK(w) /\ owners[w] \in OwnerState
      /\ \A id \in Id : RowOK(id) /\ rows[id] \in Row
  BY ShapeFacts DEF IInv, Always
<1>3. x.id \in Id /\ left \subseteq owners[w].todo /\ owners[w].todo \subseteq [id : Id, status : Status]
  BY <1>2 DEF OwnerState
<1>4. r \in OwnerState /\ r.pc = c /\ r.todo = left /\ r.id = x.id /\ r.row = rows[x.id]
  BY <1>2, <1>3 DEF OwnerState
<1> HIDE DEF r, left
<1>5. rows' = rows /\ chain' = chain /\ synced' = synced
  BY <1>1 DEF OwnerGoto, l1Vars
<1>6. /\ rows[x.id].status # "absent" /\ rows[x.id].price # 0
      /\ x.status = "confirmed" => rows[x.id].status \in Past
  BY <1>2, <1>3 DEF OwnerOK, RowOK
<1>7. owners'[w] = r => OwnerOK(w)'
  <2> HAVE owners'[w] = r
  <2>1. \A y \in owners'[w].todo :
          rows'[y.id].status # "absent" /\ (y.status = "confirmed" => rows'[y.id].status \in Past)
    BY <1>2, <1>3, <1>4, <1>5 DEF OwnerOK
  <2>2. owners'[w].pc = "put" => x.status = "confirmed"
    BY <1>4
  <2>3. /\ owners'[w].id = x.id /\ owners'[w].row = rows'[x.id]
    BY <1>4, <1>5
  <2> QED BY <1>3, <1>5, <1>6, <2>1, <2>2, <2>3 DEF OwnerOK
<1>8. ASSUME Linear, owners'[w] = r PROVE OwnerLinear(w)'
  <2>1. OwnerLinear(w) /\ RowLinear(x.id)
    BY <1>3, <1>8 DEF Linear
  <2>2. \A y \in owners'[w].todo : y.status = "confirmed" => rows'[y.id].status \in {"confirmed", "done"}
    BY <1>3, <1>4, <1>5, <1>8, <2>1 DEF OwnerLinear
  <2>3. owners'[w].pc = "put" => rows[x.id].status \in {"confirmed", "done"}
    BY <1>4, <1>8, <2>1 DEF OwnerLinear
  <2>4. owners'[w].id = x.id /\ owners'[w].row = rows[x.id]
    BY <1>4, <1>8
  <2> QED BY <1>5, <2>1, <2>2, <2>3, <2>4 DEF OwnerLinear, RowLinear, Settled, Successes
<1> QED BY <1>1, <1>4, <1>7, <1>8, OwnerGotoIInv

-----------------------------------------------------------------------------
(***************************************************************************)
(* Steps of L1 and of the synchronizer.                                    *)
(***************************************************************************)
\* L1 forgets a transaction.
LEMMA DropTxIInv ==
  ASSUME IInv, FaultsGrow, NEW tx, DropTx(tx)
  PROVE  IInv'
<1>1. UNCHANGED <<rows, gos, owners, chain, mined, synced>> /\ network' \subseteq network
  BY DEF DropTx
<1>2. /\ Shape /\ \A id \in Id : RowOK(id) /\ CopyOK(id)
      /\ \A w \in Owner : OwnerOK(w)
  BY DEF IInv, Always
<1>3. \A id \in Id : CopyOK(id)'
  BY <1>1, <1>2 DEF CopyOK, Signed
<1>4. \A w \in Owner : OwnerOK(w)'
  BY <1>1, <1>2 DEF OwnerOK
<1>5. Linear => (\A id \in Id : RowLinear(id)') /\ \A w \in Owner : OwnerLinear(w)'
  BY <1>1 DEF Linear, RowLinear, OwnerLinear, Settled, Successes,
              Succeeded, IsMined, MinedTxs, ReceiptOf, Signed
<1>6. \A id \in Id : OneNonce(id) => OneNonce(id)'
  BY <1>1 DEF OneNonce, Reverted
<1>7. \A id \in Id : rows[id].status = "absent" => gos'[id].pc = "idle"
  BY <1>1, <1>2 DEF RowOK
<1> QED BY <1>1, <1>2, <1>3, <1>4, <1>5, <1>6, <1>7, QuietIInv DEF Shape

\* What was sent is a transaction.
LEMMA SentFacts ==
  ASSUME Shape, NEW tx \in network \cup MinedTxs(chain)
  PROVE  tx \in EthTx /\ tx.id \in Id
<1>1. tx \in network => tx \in EthTx
  BY DEF Shape
<1>2. tx \in MinedTxs(chain) => tx \in EthTx
  BY BlockFacts DEF MinedTxs
<1> QED BY <1>1, <1>2, NoTxFacts

\* Only L1 or the synchronizer takes a step: rows keep what counts.
LEMMA L1Always ==
  ASSUME Always, FaultsGrow, UNCHANGED <<rows, gos, owners>>,
         chain' \in Seq(Block), synced' \in Seq(Block), mined' \in 0..MaxBlocks,
         Len(chain') <= mined',
         network' \cup MinedTxs(chain') \subseteq network \cup MinedTxs(chain)
  PROVE  Always'
<1>1. Shape'
  <2>1. network' \subseteq EthTx
    BY SentFacts DEF Always
  <2> QED BY <2>1 DEF Always, Shape, FaultsGrow
<1>2. SentIsRecorded'
  BY DEF Always, SentIsRecorded
<1>3. \A id \in Id : RowOK(id)' /\ CopyOK(id)'
  BY DEF Always, RowOK, CopyOK, Signed
<1>4. \A w \in Owner : OwnerOK(w)'
  BY DEF Always, OwnerOK
<1> QED BY <1>1, <1>2, <1>3, <1>4 DEF Always

\* What was successful, and known, stays so.
LEMMA L1Linear ==
  ASSUME Linear, UNCHANGED <<rows, gos, owners>>, ChainLinear',
         Len(synced) \in Nat, Len(synced') \in Nat, Len(synced) <= Len(synced'),
         \A id : Successes(id) \subseteq Nat /\ Successes(id) \subseteq Successes(id)',
         \A tx : Succeeded(tx) => Succeeded(tx)'
  PROVE  Linear'
<1>1. \A id, b : Settled(id, b) => Settled(id, b)'
  BY DEF Settled
<1>2. \A id \in Id : RowLinear(id)'
  <2>1. \A id : Succeeded(Signed(id)) => Succeeded(Signed(id))'
    BY DEF Signed
  <2> QED BY <1>1, <2>1 DEF Linear, RowLinear
<1>3. \A w \in Owner : OwnerLinear(w)'
  BY <1>1 DEF Linear, OwnerLinear
<1> QED BY <1>2, <1>3 DEF Linear

\* Heights of blocks are numbers.
LEMMA SuccessesFacts ==
  ASSUME Shape
  PROVE  \A id : Successes(id) \subseteq Nat
BY BlockFacts DEF Successes

\* A block is appended to the chain, perhaps with a transaction that was sent.
LEMMA ExtendIInv ==
  ASSUME IInv, FaultsGrow, NEW tx \in EthTx \cup {NoTx}, NEW ok \in BOOLEAN, Extend(tx, ok),
         network' \subseteq network, tx = NoTx \/ (tx \in network /\ tx.nonce = CurrentNonce)
  PROVE  IInv'
<1> DEFINE b == [n |-> mined + 1, tx |-> tx, ok |-> ok]
           L == Len(chain)
<1>1. /\ mined < MaxBlocks /\ mined' = mined + 1 /\ chain' = Append(chain, b)
      /\ UNCHANGED <<rows, gos, owners, synced>>
  BY DEF Extend
<1>2. /\ Always /\ Shape /\ chain \in Seq(Block) /\ L \in Nat /\ L <= mined /\ Len(synced) \in Nat
      /\ mined \in Nat /\ MaxBlocks \in Nat /\ DOMAIN chain = 1..L
  BY ShapeFacts DEF IInv, Always
<1>3. b \in Block
  BY <1>1, <1>2 DEF Block
<1>4. b.tx = tx /\ b.ok = ok
  OBVIOUS
<1> HIDE DEF b
<1>5. /\ chain' \in Seq(Block) /\ Len(chain') = L + 1 /\ DOMAIN chain' = 1..(L + 1)
      /\ chain'[L + 1] = b /\ \A i \in 1..L : chain'[i] = chain[i]
  BY <1>1, <1>2, <1>3
<1>6. MinedTxs(chain') = MinedTxs(chain) \cup ({tx} \ {NoTx})
  <2>1. \A i \in DOMAIN chain' : i \in DOMAIN chain \/ i = L + 1
    BY <1>2, <1>5
  <2>2. L + 1 \in DOMAIN chain' /\ DOMAIN chain \subseteq DOMAIN chain'
    BY <1>2, <1>5
  <2> QED BY <1>2, <1>4, <1>5, <2>1, <2>2 DEF MinedTxs
<1>7. Always'
  BY <1>1, <1>2, <1>5, <1>6, L1Always DEF Shape
<1>8. \A id : Successes(id) \subseteq Successes(id)'
  BY <1>2, <1>5 DEF Successes
<1>9. \A t : Reverted(t) => Reverted(t)'
  BY <1>2, <1>5 DEF Reverted
<1>10. ASSUME Linear PROVE Linear'
  <2>1. ChainLinear /\ CurrentNonce \in Nat
    BY <1>2, <1>10, NonceFacts DEF Linear
  <2>2. CurrentNonce' = IF tx = NoTx THEN CurrentNonce ELSE CurrentNonce + 1
    <3>1. CASE tx = NoTx
      BY <1>6, <3>1 DEF CurrentNonce
    <3>2. CASE tx # NoTx
      <4>1. tx \notin MinedTxs(chain)
        <5>1. \A i \in DOMAIN chain : chain[i].tx # tx
          BY <2>1, <3>2 DEF ChainLinear
        <5> QED BY <5>1 DEF MinedTxs
      <4>2. IsFiniteSet(MinedTxs(chain))
        BY <1>2, NonceFacts
      <4>3. Cardinality(MinedTxs(chain) \cup {tx}) = Cardinality(MinedTxs(chain)) + 1
        BY <4>1, <4>2, FS_AddElement
      <4>4. MinedTxs(chain') = MinedTxs(chain) \cup {tx}
        BY <1>6, <3>2
      <4> QED BY <3>2, <4>3, <4>4 DEF CurrentNonce
    <3> QED BY <3>1, <3>2
  <2>3. Agrees(Len(synced))' /\ Len(synced') <= Len(chain')
    BY <1>1, <1>2, <1>5, <2>1 DEF ChainLinear, Agrees
  <2>4. ASSUME NEW i \in DOMAIN chain' , chain'[i].tx # NoTx
        PROVE  /\ i \in DOMAIN chain => chain'[i].tx.nonce \in Nat /\ chain'[i].tx.nonce < CurrentNonce
               /\ i \notin DOMAIN chain => i = L + 1 /\ chain'[i].tx.nonce = CurrentNonce /\ tx # NoTx
    <3>1. CASE i \in DOMAIN chain
      <4>1. chain'[i] = chain[i] /\ chain[i].tx \in EthTx
        BY <1>2, <1>5, <2>4, <3>1, BlockFacts
      <4>2. chain[i].tx.nonce \in Nat
        BY <4>1, NoTxFacts, <1>2
      <4> QED BY <2>1, <2>4, <3>1, <4>1, <4>2 DEF ChainLinear
    <3>2. CASE i \notin DOMAIN chain
      <4>1. i = L + 1
        BY <1>2, <1>5, <3>2
      <4> QED BY <1>4, <1>5, <2>4, <3>2, <4>1
    <3> QED BY <3>1, <3>2
  <2>5. \A i, j \in DOMAIN chain' :
          chain'[i].tx # NoTx /\ chain'[j].tx # NoTx /\ chain'[i].tx.nonce = chain'[j].tx.nonce => i = j
    <3> SUFFICES ASSUME NEW i \in DOMAIN chain', NEW j \in DOMAIN chain', chain'[i].tx # NoTx,
                        chain'[j].tx # NoTx, chain'[i].tx.nonce = chain'[j].tx.nonce
                 PROVE  i = j
      OBVIOUS
    <3>1. CASE i \in DOMAIN chain /\ j \in DOMAIN chain
      <4>1. chain'[i] = chain[i] /\ chain'[j] = chain[j]
        BY <1>2, <1>5, <3>1
      <4> QED BY <2>1, <3>1, <4>1 DEF ChainLinear
    <3>2. CASE ~(i \in DOMAIN chain /\ j \in DOMAIN chain)
      BY <2>1, <2>4, <3>2
    <3> QED BY <3>1, <3>2
  <2>6. \A i \in DOMAIN chain' : chain'[i].tx # NoTx => chain'[i].tx.nonce < CurrentNonce'
    BY <2>1, <2>2, <2>4
  <2>7. ChainLinear'
    BY <2>3, <2>5, <2>6 DEF ChainLinear
  <2>8. ASSUME NEW t, Succeeded(t) PROVE Succeeded(t)'
    <3> DEFINE i == CHOOSE k \in DOMAIN chain : chain[k].tx = t
               j == CHOOSE k \in DOMAIN chain' : chain'[k].tx = t
    <3>1. i \in DOMAIN chain /\ chain[i].tx = t /\ t # NoTx /\ chain[i].ok
      BY <2>8 DEF Succeeded, IsMined, MinedTxs, ReceiptOf
    <3>2. i \in DOMAIN chain' /\ chain'[i] = chain[i]
      BY <1>2, <1>5, <3>1
    <3>3. j \in DOMAIN chain' /\ chain'[j].tx = t
      BY <3>1, <3>2
    <3>4. i = j
      BY <2>5, <3>1, <3>2, <3>3
    <3>5. ReceiptOf(t)' = [ok |-> chain'[j].ok, block |-> j]
      BY DEF ReceiptOf
    <3>6. IsMined(t)'
      BY <3>1, <3>2 DEF IsMined, MinedTxs
    <3> HIDE DEF i, j
    <3> QED BY <3>1, <3>2, <3>4, <3>5, <3>6 DEF Succeeded
  <2> QED BY <1>1, <1>2, <1>8, <1>10, <2>7, <2>8, L1Linear, SuccessesFacts
<1>11. \A id \in Id : OneNonce(id) => OneNonce(id)'
  BY <1>1, <1>9 DEF OneNonce
<1> QED BY <1>7, <1>10, <1>11 DEF IInv, FaultsGrow

\* L1 mines the transaction with the next nonce.
LEMMA MineTxIInv ==
  ASSUME IInv, FaultsGrow, NEW tx \in network, NEW ok \in BOOLEAN, MineTx(tx, ok)
  PROVE  IInv'
<1>1. tx \in EthTx
  BY DEF IInv, Always, Shape
<1> QED BY <1>1, ExtendIInv DEF MineTx

\* L1 mines a block without one.
LEMMA MineOtherIInv ==
  ASSUME IInv, FaultsGrow, MineOther
  PROVE  IInv'
BY ExtendIInv DEF MineOther

\* Blocks are replaced: the histories still hold all that was sent.
LEMMA L1ReorgIInv ==
  ASSUME IInv, FaultsGrow, "reorg" \in faults'.seen, NEW h \in 0..(Len(chain) - 1), L1Reorg(h)
  PROVE  IInv'
<1> DEFINE cut == SubSeq(chain, 1, h)
           rest == SubSeq(chain, h + 1, Len(chain))
<1>1. /\ chain' = cut /\ UNCHANGED <<rows, gos, owners, mined, synced>>
      /\ network' \subseteq network \cup MinedTxs(rest)
  BY DEF L1Reorg
<1>2. /\ Always /\ Shape /\ chain \in Seq(Block) /\ Len(chain) \in Nat /\ Len(chain) <= mined
      /\ mined \in Nat /\ DOMAIN chain = 1..Len(chain)
  BY ShapeFacts DEF IInv, Always
<1>3. h \in Nat /\ h <= Len(chain)
  BY <1>2
<1>4. cut \in Seq(Block) /\ Len(cut) = h /\ \A i \in 1..h : cut[i] = chain[i]
  BY <1>2, <1>3
<1>5. /\ DOMAIN rest = 1..(Len(chain) - h)
      /\ \A i \in 1..(Len(chain) - h) : rest[i] = chain[h + i]
  BY <1>2, <1>3
<1>6. MinedTxs(cut) \subseteq MinedTxs(chain)
  <2>1. \A i \in DOMAIN cut : i \in DOMAIN chain /\ cut[i] = chain[i]
    BY <1>2, <1>3, <1>4
  <2> QED BY <2>1 DEF MinedTxs
<1>7. MinedTxs(rest) \subseteq MinedTxs(chain)
  <2>1. \A i \in DOMAIN rest : h + i \in DOMAIN chain /\ rest[i] = chain[h + i]
    BY <1>2, <1>3, <1>5
  <2> QED BY <2>1 DEF MinedTxs
<1> HIDE DEF cut, rest
<1>8. Len(chain') <= mined'
  BY <1>1, <1>2, <1>3, <1>4
<1>9. Always'
  BY <1>1, <1>2, <1>4, <1>6, <1>7, <1>8, L1Always DEF Shape
<1> QED BY <1>9 DEF IInv

\* The state learns of the next block.
LEMMA SyncBlockIInv ==
  ASSUME IInv, FaultsGrow, SyncBlock
  PROVE  IInv'
<1> DEFINE S == Len(synced)
<1>1. /\ Agrees(S) /\ S < Len(chain) /\ synced' = Append(synced, chain[S + 1])
      /\ UNCHANGED <<rows, gos, owners, chain, network, mined>>
  BY DEF SyncBlock, l1Vars
<1>2. /\ Always /\ Shape /\ chain \in Seq(Block) /\ Len(chain) \in Nat /\ S \in Nat
      /\ synced \in Seq(Block) /\ DOMAIN chain = 1..Len(chain)
  BY ShapeFacts DEF IInv, Always
<1>3. chain[S + 1] \in Block
  BY <1>1, <1>2
<1>4. /\ synced' \in Seq(Block) /\ Len(synced') = S + 1 /\ synced'[S + 1] = chain[S + 1]
      /\ \A i \in 1..S : synced'[i] = synced[i]
  BY <1>1, <1>2, <1>3
<1>5. Always'
  BY <1>1, <1>2, <1>4, L1Always DEF Shape
<1>6. ASSUME Linear PROVE Linear'
  <2>1. Agrees(Len(synced))' /\ Len(synced') <= Len(chain')
    BY <1>1, <1>2, <1>4 DEF Agrees
  <2>2. ChainLinear'
    BY <1>1, <1>6, <2>1 DEF Linear, ChainLinear, CurrentNonce
  <2>3. \A id : Successes(id)' = Successes(id)
    BY <1>1 DEF Successes
  <2>4. \A tx : Succeeded(tx)' <=> Succeeded(tx)
    BY <1>1 DEF Succeeded, IsMined, MinedTxs, ReceiptOf
  <2> QED BY <1>1, <1>2, <1>4, <1>6, <2>2, <2>3, <2>4, L1Linear, SuccessesFacts
<1>7. \A id \in Id : OneNonce(id) => OneNonce(id)'
  BY <1>1 DEF OneNonce, Reverted
<1> QED BY <1>5, <1>6, <1>7 DEF IInv, FaultsGrow

-----------------------------------------------------------------------------
(***************************************************************************)
(* Steps in which somebody else writes rows: the synchronizer and owners.  *)
(***************************************************************************)
\* The owners keep what they do, or drop results.
OwnersLetGo ==
  /\ owners' \in [Owner -> OwnerState]
  /\ \A w \in Owner :
       \/ owners'[w] = owners[w]
       \/ owners'[w].pc # "put" /\ owners'[w].todo \subseteq owners[w].todo

\* A row that somebody else writes keeps its history, and stays open or past.
RowKept(id) ==
  /\ rows'[id].history = rows[id].history
  /\ rows'[id].status = "absent" => rows[id].status = "absent"
  /\ rows'[id].status # "absent" => rows'[id].price # 0
  /\ rows'[id].status \in Open \cup {"absent"} => rows'[id].block = 0
  /\ rows[id].status \in Past => rows'[id].status \in Past
  /\ rows[id].status \in Open => rows'[id].status \in Open

\* What holds whatever happens is not disturbed.
LEMMA RowsAlways ==
  ASSUME Always, FaultsGrow, UNCHANGED <<gos, chain, network, mined>>,
         synced' \in Seq(Block), rows' \in [Id -> Row], OwnersLetGo,
         \A id \in Id : RowKept(id)
  PROVE  Always'
<1>1. Shape'
  BY DEF Always, Shape, FaultsGrow, OwnersLetGo
<1>2. SentIsRecorded'
  BY SentFacts DEF Always, SentIsRecorded, RowKept
<1>3. \A id \in Id : RowOK(id)'
  <2> SUFFICES ASSUME NEW id \in Id PROVE RowOK(id)'
    OBVIOUS
  <2>1. RowOK(id) /\ RowKept(id) /\ gos'[id] = gos[id]
    BY DEF Always
  <2> QED BY <2>1 DEF RowOK, RowKept
<1>4. \A id \in Id : CopyOK(id)'
  <2> SUFFICES ASSUME NEW id \in Id PROVE CopyOK(id)'
    OBVIOUS
  <2>1. CopyOK(id) /\ RowKept(id) /\ gos'[id] = gos[id]
    BY DEF Always
  <2>2. Signed(id)' = Signed(id)
    BY <2>1 DEF Signed
  <2> QED BY <2>1, <2>2 DEF CopyOK, RowKept
<1>5. \A w \in Owner : OwnerOK(w)'
  <2> SUFFICES ASSUME NEW w \in Owner PROVE OwnerOK(w)'
    OBVIOUS
  <2>1. OwnerOK(w) /\ owners[w] \in OwnerState
    BY ShapeFacts DEF Always
  <2>2. \A r \in owners[w].todo : r.id \in Id /\ RowKept(r.id)
    BY <2>1 DEF OwnerState
  <2>3. owners[w].pc = "put" => owners[w].id \in Id /\ RowKept(owners[w].id)
    BY <2>1 DEF OwnerOK
  <2>4. \/ owners'[w] = owners[w]
        \/ owners'[w].pc # "put" /\ owners'[w].todo \subseteq owners[w].todo
    BY DEF OwnersLetGo
  <2> QED BY <2>1, <2>2, <2>3, <2>4 DEF OwnerOK, RowKept
<1> QED BY <1>1, <1>2, <1>3, <1>4, <1>5 DEF Always

\* As long as no block is replaced, it does not matter to anybody else.
RowHarmless(id) ==
  \/ rows'[id] = rows[id]
  \/ /\ gos[id].pc = "idle" /\ rows'[id].status \notin {"reorged", "failed"}
     /\ rows'[id].status \in {"confirmed", "done"} => Settled(id, rows'[id].block)
     /\ rows[id].status \in {"confirmed", "done"} =>
          rows'[id].status \in {"confirmed", "done"} /\ rows'[id].nonce = rows[id].nonce

\* Nor is what holds as long as no block is replaced.
LEMMA RowsLinear ==
  ASSUME Always, Linear, UNCHANGED <<gos, chain, synced>>, OwnersLetGo,
         \A id \in Id : RowHarmless(id)
  PROVE  Linear'
<1>1. ChainLinear'
  BY DEF Linear, ChainLinear, Agrees, CurrentNonce, MinedTxs
<1>2. \A id, b : Settled(id, b)' <=> Settled(id, b)
  BY DEF Settled, Successes
<1>3. \A id : Successes(id)' = Successes(id)
  BY DEF Successes
<1>4. \A id \in Id : RowLinear(id)'
  <2> SUFFICES ASSUME NEW id \in Id PROVE RowLinear(id)'
    OBVIOUS
  <2>1. RowLinear(id) /\ RowHarmless(id) /\ gos'[id] = gos[id]
    BY DEF Linear
  <2>2. CASE rows'[id] = rows[id]
    BY <1>2, <1>3, <2>1, <2>2 DEF RowLinear, Succeeded, IsMined, MinedTxs, ReceiptOf, Signed
  <2>3. CASE rows'[id] # rows[id]
    BY <1>2, <2>1, <2>3 DEF RowLinear, RowHarmless
  <2> QED BY <2>2, <2>3
<1>5. \A w \in Owner : OwnerLinear(w)'
  <2> SUFFICES ASSUME NEW w \in Owner PROVE OwnerLinear(w)'
    OBVIOUS
  <2>1. OwnerLinear(w) /\ OwnerOK(w) /\ owners[w] \in OwnerState
    BY ShapeFacts DEF Always, Linear
  <2>2. \A r \in owners[w].todo : r.id \in Id /\ RowHarmless(r.id)
    BY <2>1 DEF OwnerState
  <2>3. owners[w].pc = "put" => owners[w].id \in Id /\ RowHarmless(owners[w].id)
    BY <2>1 DEF OwnerOK
  <2>4. \/ owners'[w] = owners[w]
        \/ owners'[w].pc # "put" /\ owners'[w].todo \subseteq owners[w].todo
    BY DEF OwnersLetGo
  <2> QED BY <1>2, <2>1, <2>2, <2>3, <2>4 DEF OwnerLinear, RowHarmless
<1> QED BY <1>1, <1>4, <1>5 DEF Linear

\* A row changes under the hands of an owner.
LEMMA RowsIInv ==
  ASSUME IInv, FaultsGrow, UNCHANGED <<gos, chain, network, mined, synced>>,
         rows' \in [Id -> Row], OwnersLetGo, \A id \in Id : RowKept(id),
         Linear => \A id \in Id :
           /\ RowHarmless(id)
           /\ rows[id].history = {} \/ rows'[id].nonce = rows[id].nonce
  PROVE  IInv'
<1>1. Always'
  BY RowsAlways DEF IInv, Always, Shape
<1>2. Linear => Linear'
  BY RowsLinear DEF IInv
<1>3. ASSUME Linear, \A id \in Id : OneNonce(id) PROVE \A id \in Id : OneNonce(id)'
  <2> SUFFICES ASSUME NEW id \in Id PROVE OneNonce(id)'
    OBVIOUS
  <2>1. OneNonce(id) /\ RowKept(id) /\ gos'[id] = gos[id] /\ chain' = chain
    BY <1>3
  <2>2. rows[id].history = {} \/ rows'[id].nonce = rows[id].nonce
    BY <1>3
  <2> QED BY <2>1, <2>2 DEF OneNonce, RowKept, Reverted
<1> QED BY <1>1, <1>2, <1>3 DEF IInv, FaultsGrow

\* The owner marks the row as done.
LEMMA setStatusDoneIInv ==
  ASSUME IInv, FaultsGrow, NEW w \in Owner, setStatusDone(w)
  PROVE  IInv'
<1> DEFINE o == owners[w]
           new == [o.row EXCEPT !.status = "done"]
           back == [AtWork EXCEPT !.todo = o.todo]
<1>1. /\ o.pc = "put" /\ rows' = [rows EXCEPT ![o.id] = new]
      /\ owners' = [owners EXCEPT ![w] = back]
      /\ UNCHANGED <<gos, chain, network, mined, synced>>
  BY DEF setStatusDone, l1Vars
<1>2. Always /\ Shape /\ OwnerOK(w) /\ o \in OwnerState /\ \A id \in Id : RowOK(id)
  BY ShapeFacts DEF IInv, Always
<1>3. /\ o.id \in Id /\ rows[o.id].status \in Past /\ o.row.history = rows[o.id].history
      /\ o.row.price # 0
  BY <1>1, <1>2 DEF OwnerOK
<1>4. o.row \in Row /\ o.todo \in SUBSET [id : Id, status : Status]
  BY <1>2 DEF OwnerState
<1>5. /\ new \in Row /\ new.status = "done" /\ new.nonce = o.row.nonce /\ new.price = o.row.price
      /\ new.block = o.row.block /\ new.history = o.row.history
  <2>1. "done" \in Status
    BY DEF Status
  <2> HIDE DEF o
  <2> QED BY <1>4, <2>1, RowStatus
<1>6. back \in OwnerState /\ back.pc = "list" /\ back.todo = o.todo
  BY <1>4, StartFacts DEF OwnerState
<1> HIDE DEF new, back
<1>7. /\ rows' \in [Id -> Row] /\ rows'[o.id] = new
      /\ \A id \in Id : id # o.id => rows'[id] = rows[id]
  BY <1>1, <1>2, <1>3, <1>5 DEF Shape
<1>8. OwnersLetGo
  BY <1>1, <1>2, <1>6 DEF Shape, OwnersLetGo
<1>9. \A id \in Id : RowKept(id)
  <2>1. \A id \in Id : id # o.id => RowKept(id)
    BY <1>2, <1>7 DEF RowKept, RowOK
  <2>2. RowKept(o.id)
    BY <1>3, <1>5, <1>7 DEF RowKept, Open, Past
  <2> QED BY <2>1, <2>2
<1>10. ASSUME Linear
       PROVE  \A id \in Id : RowHarmless(id) /\ rows'[id].nonce = rows[id].nonce
  <2>1. OwnerLinear(w) /\ RowLinear(o.id)
    BY <1>3, <1>10 DEF Linear
  <2>2. RowHarmless(o.id) /\ rows'[o.id].nonce = rows[o.id].nonce
    BY <1>1, <1>5, <1>7, <2>1 DEF OwnerLinear, RowLinear, RowHarmless, Open
  <2> QED BY <1>7, <2>2 DEF RowHarmless
<1> QED BY <1>1, <1>7, <1>8, <1>9, <1>10, RowsIInv

\* A request is inserted.
LEMMA InsertIInv ==
  ASSUME IInv, FaultsGrow, NEW id \in Id, Insert(id), OwnersLetGo,
         UNCHANGED <<gos, chain, network, mined, synced>>
  PROVE  IInv'
<1>1. PICK p \in suggestedGasPrice :
        rows' = [rows EXCEPT ![id] = [Absent EXCEPT !.status = "created",
                                        !.nonce = CurrentNonce, !.price = p]]
  BY DEF Insert
<1> DEFINE a == [Absent EXCEPT !.status = "created"]
           b == [a EXCEPT !.nonce = CurrentNonce]
           new == [b EXCEPT !.price = p]
<1>2. [Absent EXCEPT !.status = "created", !.nonce = CurrentNonce, !.price = p] = new
  BY Zenon
<1>3. Always /\ Shape /\ \A j \in Id : RowOK(j)
  BY DEF IInv, Always
<1>4. rows[id].status = "absent" /\ rows[id].history = {} /\ gos[id].pc = "idle"
  BY <1>3 DEF Insert, RowOK
<1>5. /\ new \in Row /\ new.status = "created" /\ new.price # 0 /\ new.block = 0
      /\ new.history = {}
  <2>1. /\ "created" \in Status /\ CurrentNonce \in 0..MaxBlocks /\ p \in 0..MaxPrice /\ p # 0
        /\ Absent \in Row /\ Absent.block = 0 /\ Absent.history = {}
    BY <1>3, NonceFacts, StartFacts, EthTxManagerAssumption DEF Status, suggestedGasPrice, Absent
  <2>2. a \in Row /\ a.status = "created" /\ a.block = 0 /\ a.history = {}
    BY <2>1, RowStatus
  <2> HIDE DEF a
  <2>3. b \in Row /\ b.status = "created" /\ b.block = 0 /\ b.history = {}
    BY <2>1, <2>2, RowNonce
  <2> HIDE DEF b
  <2> QED BY <2>1, <2>3, RowPrice
<1> HIDE DEF new
<1>6. rows' \in [Id -> Row] /\ rows'[id] = new /\ \A j \in Id : j # id => rows'[j] = rows[j]
  BY <1>1, <1>2, <1>3, <1>5 DEF Shape
<1>7. \A j \in Id : RowKept(j)
  <2>1. \A j \in Id : j # id => RowKept(j)
    BY <1>3, <1>6 DEF RowKept, RowOK
  <2>2. RowKept(id)
    BY <1>4, <1>5, <1>6 DEF RowKept, Open, Past
  <2> QED BY <2>1, <2>2
<1>8. \A j \in Id : RowHarmless(j)
  BY <1>4, <1>5, <1>6 DEF RowHarmless
<1>9. \A j \in Id : rows[j].history = {} \/ rows'[j].nonce = rows[j].nonce
  BY <1>4, <1>6
<1> QED BY <1>6, <1>7, <1>8, <1>9, RowsIInv

\* The owner adds a request.
LEMMA AddIInv ==
  ASSUME IInv, FaultsGrow, NEW id \in Id, Add(id)
  PROVE  IInv'
<1>1. /\ Insert(id) /\ owners' = [owners EXCEPT ![OwnerOf[id]] = AtWork]
      /\ UNCHANGED <<gos, chain, network, mined, synced>>
  BY DEF Add, l1Vars
<1>2. owners \in [Owner -> OwnerState] /\ OwnerOf[id] \in Owner
  BY EthTxManagerAssumption DEF IInv, Always, Shape
<1>3. OwnersLetGo
  BY <1>1, <1>2, StartFacts DEF OwnersLetGo
<1> QED BY <1>1, <1>3, InsertIInv

\* After a reorganisation there is a highest block on which the state agrees.
LEMMA LastAgreed ==
  ASSUME Shape, ~Agrees(Len(synced))
  PROVE  \E k \in 0..Len(synced) : Agrees(k) /\ (k = Len(synced) \/ ~Agrees(k + 1))
<1> DEFINE T == {k \in Nat : k <= Len(synced) /\ ~Agrees(k)}
<1>1. Len(synced) \in Nat
  BY ShapeFacts
<1>2. Len(synced) \in T
  BY <1>1
<1>3. PICK k \in T : \A y \in T : <<y, k>> \notin OpToRel(<, Nat)
  BY <1>2, NatLessThanWellFounded, WFMin, Zenon
<1>4. \A y \in T : ~(y < k)
  BY <1>3, Zenon DEF OpToRel
<1>5. Agrees(0)
  BY DEF Agrees
<1>6. k \in Nat /\ k # 0 /\ k <= Len(synced) /\ ~Agrees(k)
  BY <1>5
<1>7. k - 1 \in Nat /\ k - 1 \notin T /\ k - 1 <= Len(synced)
  BY <1>1, <1>4, <1>6
<1>8. Agrees(k - 1) /\ ~Agrees((k - 1) + 1)
  BY <1>6, <1>7
<1> QED BY <1>1, <1>7, <1>8

\* The synchronizer resets the state and the rows: a block was replaced.
LEMMA resetStateIInv ==
  ASSUME IInv, FaultsGrow, resetState
  PROVE  IInv'
<1> DEFINE h == CHOOSE k \in 0..Len(synced) :
                  Agrees(k) /\ (k = Len(synced) \/ ~Agrees(k + 1))
<1>1. /\ ~Agrees(Len(synced)) /\ synced' = SubSeq(synced, 1, h) /\ Reorg(h + 1)
      /\ UNCHANGED <<gos, owners, chain, network, mined>>
  BY DEF resetState, l1Vars
<1>2. /\ Always /\ Shape /\ synced \in Seq(Block) /\ Len(synced) \in Nat
      /\ \A id \in Id : RowOK(id) /\ rows[id] \in Row
  BY ShapeFacts DEF IInv, Always
<1>3. h \in 0..Len(synced)
  BY <1>1, <1>2, LastAgreed
<1> HIDE DEF h
<1>4. synced' \in Seq(Block)
  BY <1>1, <1>2, <1>3
<1>5. ASSUME NEW id \in Id PROVE rows'[id] \in Row /\ RowKept(id)
  <2>1. RowOK(id) /\ rows[id] \in Row /\ rows[id].block \in 0..MaxBlocks /\ rows[id].status \in Status
    BY <1>2 DEF Row
  <2>2. CASE rows[id].block >= h + 1
    <3> DEFINE a == [rows[id] EXCEPT !.block = 0]
               b == [a EXCEPT !.status = "reorged"]
    <3>1. rows'[id] = b
      BY <1>1, <2>2, Zenon DEF Reorg
    <3>2. /\ a \in Row /\ a.status = rows[id].status /\ a.price = rows[id].price
          /\ a.history = rows[id].history
      <4>1. 0 \in 0..MaxBlocks
        BY EthTxManagerAssumption
      <4> QED BY <2>1, <4>1, RowBlock
    <3> HIDE DEF a
    <3>3. /\ b \in Row /\ b.status = "reorged" /\ b.price = rows[id].price
          /\ b.history = rows[id].history
      <4>1. "reorged" \in Status
        BY DEF Status
      <4> QED BY <3>2, <4>1, RowStatus
    <3> HIDE DEF b
    <3>4. rows[id].block # 0
      BY <1>2, <1>3, <2>1, <2>2
    <3>5. rows[id].status \notin Open \cup {"absent"} /\ rows[id].price # 0
      BY <2>1, <3>4 DEF RowOK
    <3> QED BY <3>1, <3>3, <3>5 DEF RowKept, Open, Past
  <2>3. CASE ~(rows[id].block >= h + 1)
    <3>1. rows'[id] = rows[id]
      BY <1>1, <2>3 DEF Reorg
    <3> QED BY <2>1, <3>1 DEF RowKept, RowOK
  <2> QED BY <2>2, <2>3
<1>6. rows' \in [Id -> Row]
  <2>1. rows' = [id \in Id |-> rows'[id]]
    BY <1>1 DEF Reorg
  <2> QED BY <1>5, <2>1
<1>7. OwnersLetGo
  BY <1>1, <1>2 DEF OwnersLetGo, Shape
<1>8. Always'
  BY <1>1, <1>2, <1>4, <1>5, <1>6, <1>7, RowsAlways
<1>9. "reorg" \in faults'.seen
  BY <1>1 DEF IInv, Linear, ChainLinear, FaultsGrow
<1> QED BY <1>8, <1>9 DEF IInv

-----------------------------------------------------------------------------
(***************************************************************************)
(* All steps together.                                                     *)
(***************************************************************************)
\* The invariant holds at the start.
LEMMA InitIInv ==
  ASSUME Init
  PROVE  IInv
<1>1. /\ rows = [id \in Id |-> Absent] /\ gos = [id \in Id |-> Idle]
      /\ owners = [w \in Owner |-> AtWork] /\ chain = <<>> /\ network = {} /\ mined = 0
      /\ synced = <<>> /\ faults = [left |-> MaxFaults, seen |-> {}]
  BY DEF Init
<1>2. Shape
  BY <1>1, StartFacts, EthTxManagerAssumption DEF Shape
<1>3. \A id \in Id : rows[id] = Absent /\ gos[id].pc = "idle"
  BY <1>1, StartFacts
<1>4. \A w \in Owner : owners[w].pc = "list" /\ owners[w].todo = {}
  BY <1>1, StartFacts
<1>5. DOMAIN chain = {} /\ Len(synced) = 0 /\ Len(chain) = 0
  BY <1>1
<1>6. MinedTxs(chain) = {}
  BY <1>5 DEF MinedTxs
<1>7. SentIsRecorded
  BY <1>1, <1>6 DEF SentIsRecorded
<1>8. \A id \in Id : RowOK(id) /\ CopyOK(id) /\ RowLinear(id) /\ OneNonce(id)
  <2>1. Absent.block = 0
    BY DEF Absent
  <2> QED BY <1>3, <2>1, StartFacts DEF RowOK, CopyOK, RowLinear, OneNonce
<1>9. \A w \in Owner : OwnerOK(w) /\ OwnerLinear(w)
  BY <1>4 DEF OwnerOK, OwnerLinear
<1>10. ChainLinear
  BY <1>5 DEF ChainLinear, Agrees
<1> QED BY <1>2, <1>7, <1>8, <1>9, <1>10 DEF IInv, Always, Linear

\* A fault is counted.
LEMMA FaultFacts ==
  ASSUME Shape, NEW kind, Fault(kind)
  PROVE  FaultsGrow /\ kind \in faults'.seen
BY EthTxManagerAssumption DEF Shape, Fault, FaultsGrow

\* A step of a goroutine.
LEMMA monitorTxIInv ==
  ASSUME IInv, FaultsGrow, NEW id \in Id, monitorTx(id)
  PROVE  IInv'
BY CheckTxWasMinedIInv, reviewMonitoredTxNonceIInv, reviewMonitoredTxIInv, AddHistoryIInv,
   SendTxIInv, MarkSentIInv, WaitTxToBeMinedIInv, GetTxReceiptIInv, FinishIInv, SaveIInv
   DEF monitorTx

\* A step in which something goes wrong.
LEMMA FaultyIInv ==
  ASSUME IInv, Faulty
  PROVE  IInv'
<1>1. Shape
  BY DEF IInv, Always
<1>2. CASE Fault("error") /\ \E id \in Id : GiveUp(id)
  BY <1>1, <1>2, FaultFacts, GiveUpIInv
<1>3. CASE Fault("drop") /\ \E tx \in network : DropTx(tx)
  BY <1>1, <1>3, FaultFacts, DropTxIInv
<1>4. CASE Fault("other") /\ MineOther
  BY <1>1, <1>4, FaultFacts, MineOtherIInv
<1>5. CASE Fault("revert") /\ \E tx \in network : MineTx(tx, FALSE)
  BY <1>1, <1>5, FaultFacts, MineTxIInv
<1>6. CASE Fault("receipt") /\ \E id \in Id : \E tx \in gos[id].left : CheckTxWasMinedError(id, tx)
  BY <1>1, <1>6, FaultFacts, CheckTxWasMinedErrorIInv
<1>7. CASE Fault("reorg") /\ \E h \in 0..(Len(chain) - 1) : L1Reorg(h)
  BY <1>1, <1>7, FaultFacts, L1ReorgIInv
<1> QED BY <1>2, <1>3, <1>4, <1>5, <1>6, <1>7 DEF Faulty

\* Every step keeps the invariant.
LEMMA NextIInv ==
  ASSUME IInv, [Next]_vars
  PROVE  IInv'
<1>1. Shape
  BY DEF IInv, Always
<1>2. CASE UNCHANGED faults /\ Next
  <2>1. FaultsGrow
    BY <1>1, <1>2 DEF FaultsGrow, Shape
  <2>2. CASE Manager
    BY <2>1, <2>2, monitorTxsIInv, monitorTxIInv, GiveUpIInv DEF Manager, Timeout
  <2>3. CASE L1
    BY <2>1, <2>3, MineTxIInv DEF L1
  <2>4. CASE SyncBlock \/ resetState
    BY <2>1, <2>4, SyncBlockIInv, resetStateIInv
  <2>5. CASE \E w \in Owner : ProcessPendingMonitoredTxs(w)
    BY <2>1, <2>5, ListResultsIInv, HandleResultIInv, setStatusDoneIInv
       DEF ProcessPendingMonitoredTxs
  <2>6. CASE \E id \in Id : Add(id)
    BY <2>1, <2>6, AddIInv
  <2>7. CASE Faulty
    BY <2>7, FaultyIInv
  <2>8. CASE Fault("crash") /\ Crash
    BY <1>1, <2>8, FaultFacts, CrashIInv
  <2> QED BY <1>2, <2>2, <2>3, <2>4, <2>5, <2>6, <2>7, <2>8 DEF Next
<1>3. CASE ~UNCHANGED faults /\ Next
  <2>1. CASE Faulty
    BY <2>1, FaultyIInv
  <2>2. CASE Fault("crash") /\ Crash
    BY <1>1, <2>2, FaultFacts, CrashIInv
  <2> QED BY <1>3, <2>1, <2>2 DEF Next
<1>4. CASE UNCHANGED vars
  <2>1. UNCHANGED <<rows, gos, owners, chain, network, mined, synced, faults>>
    BY <1>4 DEF vars, l1Vars
  <2>2. FaultsGrow
    BY <1>1, <2>1 DEF FaultsGrow, Shape
  <2>3. DropTx(NoTx)
    <3>1. NoTx \notin network
      BY <1>1, NoTxFacts DEF Shape
    <3> QED BY <2>1, <3>1 DEF DropTx
  <2> QED BY <2>2, <2>3, DropTxIInv
<1> QED BY <1>2, <1>3, <1>4

-----------------------------------------------------------------------------
(***************************************************************************)
(* The theorems.                                                           *)
(***************************************************************************)
\* The inductive invariant: the manager alone adds to a row's history, and,
\* as long as no block is replaced, it leaves a nonce only for another that
\* nothing else can use.
THEOREM Invariance == Spec => []IInv
<1>1. Init => IInv
  BY InitIInv
<1>2. IInv /\ [Next]_vars => IInv'
  BY NextIInv
<1> QED BY <1>1, <1>2, PTL DEF Spec

\* Rows, copies, blocks and results keep their types.
THEOREM TypeCorrect == Spec => []TypeOK
<1>1. IInv => TypeOK
  <2> SUFFICES ASSUME Shape PROVE TypeOK
    BY DEF IInv, Always
  <2>1. ASSUME NEW id \in Id
        PROVE  /\ gos[id].pc \in {"idle", "check", "review", "sign", "send", "mark", "wait",
                                  "receipt", "finish", "save"}
               /\ gos[id].row \in Row /\ gos[id].left \subseteq EthTx
               /\ gos[id].failed \in BOOLEAN /\ gos[id].allMined \in BOOLEAN
               /\ gos[id].receipt \in [ok : BOOLEAN, block : 0..MaxBlocks]
    <3>1. gos[id] \in GoState
      BY ShapeFacts
    <3>2. gos[id].failed \in BOOLEAN /\ gos[id].allMined \in BOOLEAN
      BY <3>1, Zenon DEF GoState
    <3>3. gos[id].pc \in Places /\ gos[id].row \in Row /\ gos[id].left \subseteq EthTx /\ gos[id].receipt \in Receipt
      BY <3>1 DEF GoState
    <3> QED BY <3>2, <3>3 DEF Places, Receipt
  <2>2. ASSUME NEW w \in Owner
        PROVE  /\ owners[w].pc \in {"list", "put", "work"}
               /\ owners[w].todo \subseteq [id : Id, status : Status]
               /\ owners[w].row \in Row
    BY ShapeFacts DEF OwnerState
  <2> QED BY <2>1, <2>2 DEF Shape, TypeOK, Block
<1> QED BY <1>1, Invariance, PTL

\* Whatever crashes, fails or is overwritten: every transaction the manager
\* has sent is in the history of its row.
THEOREM ManagerKnowsSent == Spec => []SentIsRecorded
<1>1. IInv => SentIsRecorded
  BY DEF IInv, Always
<1> QED BY <1>1, Invariance, PTL

\* What was successful has the nonce of its row.
LEMMA SuccessNonce ==
  ASSUME Always, Linear, NEW id \in Id, OneNonce(id), NEW k \in Successes(id)
  PROVE  k \in DOMAIN chain /\ chain[k].tx # NoTx /\ chain[k].tx.nonce = rows[id].nonce
<1>1. k \in DOMAIN chain /\ chain[k].tx # NoTx /\ chain[k].tx.id = id /\ chain[k].ok
  BY DEF Successes
<1>2. chain[k].tx \in MinedTxs(chain)
  BY <1>1, BlockFacts DEF Always
<1>3. chain[k].tx \in rows[id].history
  BY <1>1, <1>2 DEF Always, SentIsRecorded
<1>4. ~Reverted(chain[k].tx)
  <2> SUFFICES ASSUME NEW l \in DOMAIN chain, chain[l].tx = chain[k].tx, ~chain[l].ok
               PROVE  FALSE
    BY DEF Reverted
  <2>1. l = k
    BY <1>1 DEF Linear, ChainLinear
  <2> QED BY <1>1, <2>1
<1> QED BY <1>1, <1>3, <1>4 DEF OneNonce

\* Two successful blocks of one request are the same block.
LEMMA OneSuccess ==
  ASSUME Always, Linear, NEW id \in Id, OneNonce(id), NEW i \in Successes(id),
         NEW j \in Successes(id)
  PROVE  i = j
BY SuccessNonce DEF Linear, ChainLinear

\* The data of a request takes effect on L1 at most once, as long as every
\* receipt can be fetched and no block is replaced.
THEOREM RequestMinedOnce == Spec => []MinedOnce
<1>1. ASSUME IInv PROVE MinedOnce
  <2> SUFFICES ASSUME faults.seen \cap {"receipt", "reorg"} = {}, NEW id \in Id
               PROVE  Cardinality(Successes(id)) <= 1
    BY DEF MinedOnce
  <2>1. Always /\ Linear /\ OneNonce(id)
    BY <1>1 DEF IInv
  <2>2. CASE Successes(id) = {}
    BY <2>2, FS_EmptySet
  <2>3. CASE Successes(id) # {}
    <3>1. PICK i : i \in Successes(id)
      BY <2>3
    <3>2. Successes(id) = {i}
      BY <2>1, <3>1, OneSuccess
    <3>3. Cardinality({i}) = 1
      BY FS_Singleton
    <3> QED BY <3>2, <3>3
  <2> QED BY <2>2, <2>3
<1> QED BY <1>1, Invariance, PTL

\* A request is confirmed only when the synchronizer has the block it was
\* successful in, as long as no block is replaced.
THEOREM ManagerConfirmsSynced == Spec => []ConfirmedIsSynced
<1>1. IInv => ConfirmedIsSynced
  BY DEF IInv, Linear, RowLinear, Settled, ConfirmedIsSynced
<1> QED BY <1>1, Invariance, PTL
=============================================================================

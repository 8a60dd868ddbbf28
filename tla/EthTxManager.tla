---------------------------- MODULE EthTxManager ----------------------------
(***************************************************************************)
(* The Ethereum transaction manager (ethtxmanager).  An owner (sequence    *)
(* sender, aggregator) adds a request under an id; the manager keeps a row *)
(* for it in the database, signs and sends Ethereum transactions for it,   *)
(* raises their price, and watches L1 until one of them is mined and the   *)
(* block that holds it is synchronized.                                    *)
(*                                                                         *)
(* A monitoring cycle reads the rows once and then runs a goroutine per    *)
(* row on its own copy, while owners read and write the same rows and the  *)
(* synchronizer resets them after an L1 reorganisation.  Every write is of *)
(* the whole row.                                                          *)
(*                                                                         *)
(* L1 and the part of the synchronizer that follows it are environment:    *)
(* one account, whose transactions are mined in nonce order.  Gas and gas  *)
(* price are one number, which both grow the same way.                     *)
(***************************************************************************)
EXTENDS Integers, FiniteSets, Sequences

CONSTANTS
  Owner,       \* who adds requests
  Id,          \* ids of requests
  OwnerOf,     \* OwnerOf[id]: the owner that adds it
  Nil,         \* no id
  MaxPrice,    \* bound: prices are 1..MaxPrice
  MaxBlocks,   \* bound: L1 blocks ever mined, in all forks
  Kinds,       \* what may go wrong
  MaxFaults    \* bound: how often something goes wrong

ASSUME EthTxManagerAssumption ==
  /\ OwnerOf \in [Id -> Owner] /\ Nil \notin Id
  /\ MaxPrice \in Nat \ {0} /\ MaxBlocks \in Nat /\ MaxFaults \in Nat
  /\ Kinds \subseteq {"error", "drop", "other", "revert", "crash", "receipt", "reorg"}

VARIABLES
  rows,        \* state.monitored_txs
  gos,         \* gos[id]: the goroutine of the cycle that works on the row
  owners,      \* owners[w]: progress of w in ProcessPendingMonitoredTxs
  chain,       \* L1: canonical chain
  network,     \* L1: transactions sent and not mined
  mined,       \* L1: number of blocks mined so far
  synced,      \* the synchronizer's copy of the chain
  faults       \* [left, seen]: faults still to come, and the kinds there were

l1Vars == <<chain, network, mined>>
vars == <<rows, gos, owners, l1Vars, synced, faults>>

\* A signed Ethereum transaction; its fields determine its hash.
EthTx == [id : Id, nonce : 0..MaxBlocks, price : 1..MaxPrice]
NoTx == [id |-> Nil]

Status == {"absent", "created", "sent", "failed", "confirmed", "reorged", "done"}
Row == [status : Status, nonce : 0..MaxBlocks, price : 0..MaxPrice,
        block : 0..MaxBlocks,        \* 0: no block number
        history : SUBSET EthTx]
Absent == [status |-> "absent", nonce |-> 0, price |-> 0, block |-> 0, history |-> {}]

\* A receipt: how the transaction ended, and in which block.
NoReceipt == [ok |-> FALSE, block |-> 0]
Idle == [pc |-> "idle", row |-> Absent, left |-> {}, failed |-> FALSE,
         allMined |-> TRUE, receipt |-> NoReceipt]
AtWork == [pc |-> "list", todo |-> {}, id |-> Nil, row |-> Absent]

Init ==
  /\ rows = [id \in Id |-> Absent]
  /\ gos = [id \in Id |-> Idle]
  /\ owners = [w \in Owner |-> AtWork]
  /\ chain = <<>> /\ network = {} /\ mined = 0 /\ synced = <<>>
  /\ faults = [left |-> MaxFaults, seen |-> {}]

-----------------------------------------------------------------------------
(***************************************************************************)
(* L1 (external).                                                          *)
(***************************************************************************)
MinedTxs(c) == {c[i].tx : i \in DOMAIN c} \ {NoTx}
CurrentNonce == Cardinality(MinedTxs(chain))
IsMined(tx) == tx \in MinedTxs(chain)
ReceiptOf(tx) ==
  LET i == CHOOSE j \in DOMAIN chain : chain[j].tx = tx
  IN  [ok |-> chain[i].ok, block |-> i]

Extend(tx, ok) ==
  /\ mined < MaxBlocks
  /\ mined' = mined + 1
  /\ chain' = Append(chain, [n |-> mined + 1, tx |-> tx, ok |-> ok])
  /\ UNCHANGED <<rows, gos, owners, synced>>

MineTx(tx, ok) ==
  /\ tx.nonce = CurrentNonce
  /\ Extend(tx, ok)
  /\ network' = {t \in network : t.nonce # tx.nonce}

MineOther == Extend(NoTx, TRUE) /\ UNCHANGED network

DropTx(tx) ==
  /\ network' = network \ {tx}
  /\ UNCHANGED <<rows, gos, owners, chain, mined, synced>>

\* The blocks above height h are replaced; what was in them is pending again,
\* or forgotten.
L1Reorg(h) ==
  /\ \E back \in SUBSET MinedTxs(SubSeq(chain, h + 1, Len(chain))) :
       network' = network \cup back
  /\ chain' = SubSeq(chain, 1, h)
  /\ UNCHANGED <<rows, gos, owners, mined, synced>>

-----------------------------------------------------------------------------
(***************************************************************************)
(* The synchronizer: a block at a time; after a reorganisation one         *)
(* database transaction resets the state and the rows.                     *)
(***************************************************************************)
Agrees(h) == \A i \in 1..h : i <= Len(chain) /\ synced[i] = chain[i]

SyncBlock ==
  /\ Agrees(Len(synced)) /\ Len(synced) < Len(chain)
  /\ synced' = Append(synced, chain[Len(synced) + 1])
  /\ UNCHANGED <<rows, gos, owners, l1Vars>>

Reorg(from) ==
  rows' = [id \in Id |->
             IF rows[id].block >= from
             THEN [rows[id] EXCEPT !.block = 0, !.status = "reorged"]
             ELSE rows[id]]

resetState ==
  /\ ~Agrees(Len(synced)) /\ Len(synced) <= Len(chain)
  /\ LET h == CHOOSE k \in 0..Len(synced) :
                Agrees(k) /\ (k = Len(synced) \/ ~Agrees(k + 1))
     IN  /\ synced' = SubSeq(synced, 1, h)
         /\ Reorg(h + 1)
  /\ UNCHANGED <<gos, owners, l1Vars>>

-----------------------------------------------------------------------------
(***************************************************************************)
(* monitorTxs: one goroutine per row; the next cycle starts when all have  *)
(* ended.                                                                  *)
(***************************************************************************)
\* Faulty variant: a row that was sent is not looked at again.
monitorTxs_SkipsSent ==
  LET due == {id \in Id : rows[id].status \in {"created", "reorged"}}
  IN  /\ due # {} /\ \A id \in Id : gos[id].pc = "idle"
      /\ gos' = [id \in Id |->
                   IF id \in due
                   THEN [Idle EXCEPT !.pc = "check", !.row = rows[id],
                                     !.left = rows[id].history]
                   ELSE Idle]
      /\ UNCHANGED <<rows, owners, l1Vars, synced>>

monitorTxs ==
  LET due == {id \in Id : rows[id].status \in {"created", "sent", "reorged"}}
  IN  /\ due # {} /\ \A id \in Id : gos[id].pc = "idle"
      /\ gos' = [id \in Id |->
                   IF id \in due
                   THEN [Idle EXCEPT !.pc = "check", !.row = rows[id],
                                     !.left = rows[id].history]
                   ELSE Idle]
      /\ UNCHANGED <<rows, owners, l1Vars, synced>>

\* The goroutine of id goes on as r, without writing its row.
Goto(id, r) ==
  /\ gos' = [gos EXCEPT ![id] = r]
  /\ UNCHANGED <<rows, owners, l1Vars, synced>>

\* The goroutine writes row and goes on at pc.
Update(id, row, pc) ==
  /\ rows' = [rows EXCEPT ![id] = row]
  /\ gos' = [gos EXCEPT ![id] = [@ EXCEPT !.row = row, !.pc = pc]]
  /\ UNCHANGED <<owners, l1Vars, synced>>

\* A receipt per transaction of the history, in the order of Go's map.
CheckTxWasMined(id, tx) ==
  LET g == gos[id]
      seen == [g EXCEPT !.left = @ \ {tx}]
  IN  /\ g.pc = "check" /\ tx \in g.left
      /\ Goto(id, IF ~IsMined(tx) THEN [seen EXCEPT !.allMined = FALSE]
                  ELSE IF ReceiptOf(tx).ok
                  THEN [seen EXCEPT !.receipt = ReceiptOf(tx), !.pc = "finish"]
                  ELSE [seen EXCEPT !.receipt = ReceiptOf(tx), !.failed = TRUE])

\* The receipt cannot be fetched: logged, and on to the next one.
CheckTxWasMinedError(id, tx) ==
  /\ gos[id].pc = "check" /\ tx \in gos[id].left
  /\ Goto(id, [gos[id] EXCEPT !.left = @ \ {tx}])

\* Faulty variant: the nonce is reviewed although some are not mined.
NonceNeeded_Eager(g) == g.failed

NonceNeeded(g) == g.failed /\ g.allMined

\* None was successful: review the nonce if all are mined, leave a reorged row
\* alone, and review the price of one that was sent.
reviewMonitoredTxNonce(id) ==
  LET g == gos[id]
      next == IF g.row.status = "reorged" THEN "idle"
              ELSE IF g.row.status = "sent" THEN "review" ELSE "sign"
  IN  /\ g.pc = "check" /\ g.left = {}
      /\ IF NonceNeeded(g)
         THEN Update(id, [g.row EXCEPT !.nonce = IF CurrentNonce > @ THEN CurrentNonce ELSE @],
                     next)
         ELSE Goto(id, [g EXCEPT !.pc = next])

suggestedGasPrice == 1..MaxPrice

reviewMonitoredTx(id) ==
  LET g == gos[id]
  IN  /\ g.pc = "review"
      /\ \E p \in suggestedGasPrice :
           Update(id, [g.row EXCEPT !.price = IF p > @ THEN p ELSE @], "sign")

Signed(id) ==
  [id |-> id, nonce |-> gos[id].row.nonce, price |-> gos[id].row.price]

\* Faulty variant: the history is saved with the status, after sending.
AddHistory_Later(id) ==
  LET g == gos[id]
  IN  /\ g.pc = "sign"
      /\ Goto(id, [g EXCEPT !.row.history = @ \cup {Signed(id)}, !.pc = "send"])

\* The history is saved before the transaction is sent.
AddHistory(id) ==
  LET g == gos[id]
  IN  /\ g.pc = "sign"
      /\ IF Signed(id) \in g.row.history
         THEN Goto(id, [g EXCEPT !.pc = "send"])
         ELSE Update(id, [g.row EXCEPT !.history = @ \cup {Signed(id)}], "send")

\* L1 refuses a nonce that is used, and a rival that does not pay more.
Accepted(tx) ==
  /\ tx.nonce >= CurrentNonce
  /\ \A t \in network : t.nonce = tx.nonce => t.price < tx.price

SendTx(id) ==
  LET g == gos[id]
      tx == Signed(id)
  IN  /\ g.pc = "send"
      /\ IF tx \in network \/ IsMined(tx)
         THEN Goto(id, [g EXCEPT !.pc = "wait"])
         ELSE IF Accepted(tx)
         THEN /\ network' = network \cup {tx}
              /\ gos' = [gos EXCEPT ![id].pc =
                           IF g.row.status = "created" THEN "mark" ELSE "wait"]
              /\ UNCHANGED <<rows, owners, chain, mined, synced>>
         ELSE Goto(id, Idle)

MarkSent(id) ==
  /\ gos[id].pc = "mark"
  /\ Update(id, [gos[id].row EXCEPT !.status = "sent"], "wait")

\* Mined and successful; a failed receipt is an error, and so is the timeout:
\* both are GiveUp.
WaitTxToBeMined(id) ==
  LET tx == Signed(id)
  IN  /\ gos[id].pc = "wait" /\ IsMined(tx) /\ ReceiptOf(tx).ok
      /\ Goto(id, [gos[id] EXCEPT !.pc = "receipt"])

GetTxReceipt(id) ==
  LET tx == Signed(id)
  IN  /\ gos[id].pc = "receipt" /\ IsMined(tx)
      /\ Goto(id, [gos[id] EXCEPT !.receipt = ReceiptOf(tx), !.pc = "finish"])

\* Faulty variant: does not wait for the synchronizer.
IsSynced_Always(block) == TRUE

IsSynced(block) == Len(synced) >= block

\* The receipt decides, once its block is synchronized.  Whether a failed one
\* is monitored further depends on the message it was reverted with.
Finish(id) ==
  LET g == gos[id]
      Result(s) == [g.row EXCEPT !.status = s, !.block = g.receipt.block]
      Ended(s) == [g EXCEPT !.row = Result(s), !.pc = "save"]
  IN  /\ g.pc = "finish"
      /\ IF g.receipt.ok
         THEN Goto(id, IF IsSynced(g.receipt.block) THEN Ended("confirmed") ELSE Idle)
         ELSE Goto(id, Ended("failed")) \/ Goto(id, Idle)

Save(id) == gos[id].pc = "save" /\ Update(id, gos[id].row, "idle")

\* A call fails or times out; the goroutine returns.
GiveUp(id) ==
  /\ gos[id].pc \notin {"idle"}
  /\ Goto(id, Idle)

monitorTx(id) ==
  \/ \E tx \in gos[id].left : CheckTxWasMined(id, tx)
  \/ reviewMonitoredTxNonce(id) \/ reviewMonitoredTx(id) \/ AddHistory(id)
  \/ SendTx(id) \/ MarkSent(id) \/ WaitTxToBeMined(id) \/ GetTxReceipt(id)
  \/ Finish(id) \/ Save(id)

-----------------------------------------------------------------------------
(***************************************************************************)
(* The owners.                                                             *)
(***************************************************************************)
OwnerGoto(w, r) ==
  /\ owners' = [owners EXCEPT ![w] = r]
  /\ UNCHANGED <<rows, gos, l1Vars, synced>>

\* ResultsByStatus: every row of the owner that is not done; none: return.
ListResults(w) ==
  LET results == {[id |-> id, status |-> rows[id].status] :
                    id \in {i \in Id : OwnerOf[i] = w
                                       /\ rows[i].status \notin {"absent", "done"}}}
  IN  /\ owners[w].pc = "list" /\ owners[w].todo = {}
      /\ OwnerGoto(w, [AtWork EXCEPT !.pc = IF results = {} THEN "work" ELSE "list",
                                     !.todo = results])

\* A confirmed result is marked as done, by reading the row and, a step later,
\* writing it back.  A failed one is only reported.  For any other the owner
\* waits.
HandleResult(w, r) ==
  /\ owners[w].pc = "list" /\ r \in owners[w].todo
  /\ r.status \notin {"confirmed", "failed"} =>
       rows[r.id].status \in {"confirmed", "failed"}
  /\ OwnerGoto(w, [pc |-> IF r.status = "confirmed" THEN "put" ELSE "list",
                   todo |-> owners[w].todo \ {r},
                   id |-> r.id, row |-> rows[r.id]])

setStatusDone(w) ==
  LET o == owners[w]
  IN  /\ o.pc = "put"
      /\ rows' = [rows EXCEPT ![o.id] = [o.row EXCEPT !.status = "done"]]
      /\ owners' = [owners EXCEPT ![w] = [AtWork EXCEPT !.todo = o.todo]]
      /\ UNCHANGED <<gos, l1Vars, synced>>

\* A call of Add inserts a row; an id that has one is refused.
Insert(id) ==
  /\ rows[id].status = "absent"
  /\ \E p \in suggestedGasPrice :
       rows' = [rows EXCEPT ![id] = [Absent EXCEPT !.status = "created",
                                       !.nonce = CurrentNonce, !.price = p]]

Add(id) ==
  /\ owners[OwnerOf[id]].pc = "work"
  /\ Insert(id)
  /\ owners' = [owners EXCEPT ![OwnerOf[id]] = AtWork]
  /\ UNCHANGED <<gos, l1Vars, synced>>

ProcessPendingMonitoredTxs(w) ==
  ListResults(w) \/ (\E r \in owners[w].todo : HandleResult(w, r)) \/ setStatusDone(w)

\* The process dies and starts again from the database; every owner begins
\* with ProcessPendingMonitoredTxs.
Crash ==
  /\ gos' = [id \in Id |-> Idle]
  /\ owners' = [w \in Owner |-> AtWork]
  /\ UNCHANGED <<rows, l1Vars, synced>>

-----------------------------------------------------------------------------
Timeout(id) == gos[id].pc = "wait" /\ GiveUp(id)

Manager == monitorTxs \/ \E id \in Id : monitorTx(id) \/ Timeout(id)

L1 == \E tx \in network : MineTx(tx, TRUE)

Fault(kind) ==
  /\ kind \in Kinds /\ faults.left > 0
  /\ faults' = [left |-> faults.left - 1, seen |-> faults.seen \cup {kind}]

\* A call fails, L1 forgets a transaction, mines another block, or reverts the
\* transaction, a receipt cannot be fetched, or blocks are replaced.
Faulty ==
  \/ Fault("error") /\ \E id \in Id : GiveUp(id)
  \/ Fault("drop") /\ \E tx \in network : DropTx(tx)
  \/ Fault("other") /\ MineOther
  \/ Fault("revert") /\ \E tx \in network : MineTx(tx, FALSE)
  \/ Fault("receipt") /\ \E id \in Id : \E tx \in gos[id].left : CheckTxWasMinedError(id, tx)
  \/ Fault("reorg") /\ \E h \in 0..(Len(chain) - 1) : L1Reorg(h)

Next ==
  \/ /\ \/ Manager \/ L1 \/ SyncBlock \/ resetState
        \/ \E w \in Owner : ProcessPendingMonitoredTxs(w)
        \/ \E id \in Id : Add(id)
     /\ UNCHANGED faults
  \/ Faulty
  \/ Fault("crash") /\ Crash

\* Every goroutine runs, L1 mines what it was sent, the synchronizer follows.
Fairness ==
  /\ WF_vars(Manager /\ UNCHANGED faults)
  /\ WF_vars(SyncBlock /\ UNCHANGED faults) /\ WF_vars(resetState /\ UNCHANGED faults)
  /\ \A w \in Owner : WF_vars(ProcessPendingMonitoredTxs(w) /\ UNCHANGED faults)
  /\ WF_vars(L1 /\ UNCHANGED faults)

Spec == Init /\ [][Next]_vars /\ Fairness

-----------------------------------------------------------------------------
(***************************************************************************)
(* Properties.                                                             *)
(***************************************************************************)
\* The rows and the goroutines' copies have the columns of the table, every
\* transaction that was signed has a price, and histories hold only such.
TypeOK ==
  /\ rows \in [Id -> Row]
  /\ \A id \in Id :
       /\ gos[id].pc \in {"idle", "check", "review", "sign", "send", "mark", "wait",
                          "receipt", "finish", "save"}
       /\ gos[id].row \in Row /\ gos[id].left \subseteq EthTx
       /\ gos[id].failed \in BOOLEAN /\ gos[id].allMined \in BOOLEAN
       /\ gos[id].receipt \in [ok : BOOLEAN, block : 0..MaxBlocks]
  /\ \A w \in Owner :
       /\ owners[w].pc \in {"list", "put", "work"}
       /\ owners[w].todo \subseteq [id : Id, status : Status]
       /\ owners[w].row \in Row
  /\ chain \in Seq([n : 1..MaxBlocks, tx : EthTx \cup {NoTx}, ok : BOOLEAN])
  /\ synced \in Seq([n : 1..MaxBlocks, tx : EthTx \cup {NoTx}, ok : BOOLEAN])
  /\ network \subseteq EthTx /\ mined \in 0..MaxBlocks
  /\ faults \in [left : 0..MaxFaults, seen : SUBSET Kinds]

\* Whatever crashes or is overwritten, the manager knows every transaction it
\* has sent: it is in the history of its row in the database, so that its
\* receipt will be looked for.
SentIsRecorded ==
  \A tx \in network \cup MinedTxs(chain) : tx \in rows[tx.id].history

Successes(id) == {i \in DOMAIN chain : chain[i].tx # NoTx /\ chain[i].tx.id = id /\ chain[i].ok}

\* The data of a request takes effect on L1 at most once, however often it is
\* signed again with another price or nonce, as long as every receipt can be
\* fetched and no block is replaced.
MinedOnce ==
  faults.seen \cap {"receipt", "reorg"} = {} =>
    \A id \in Id : Cardinality(Successes(id)) <= 1

\* An owner is told that a request is confirmed only when the synchronizer
\* has the block it was successful in, so that what the owner reads from the
\* state next takes it into account.
ConfirmedIsSynced ==
  "reorg" \notin faults.seen =>
    \A id \in Id : rows[id].status \in {"confirmed", "done"} =>
      rows[id].block \in Successes(id) /\ rows[id].block <= Len(synced)

\* A request is done in the end, so that its owner can go on, although calls
\* fail, L1 forgets transactions and the process dies, each finitely often.
\* Only a reverted transaction or a replaced block may prevent it.
EventuallyDone ==
  \A id \in Id :
    rows[id].status = "created"
      ~> rows[id].status = "done" \/ faults.seen \cap {"revert", "reorg"} # {}
=============================================================================

---------------------------- MODULE PendingStore ----------------------------
(***************************************************************************)
(* How an executed transaction reaches the state database (finalizer.go).  *)
(*                                                                         *)
(* The finalizer executes a transaction, announces the flush id under      *)
(* which the executor will store its state changes, and passes it on       *)
(* through a channel.  The goroutine storePendingTransactions takes it     *)
(* from there, waits until the executor has stored that flush id, and      *)
(* writes the transaction to the state database.  The goroutine            *)
(* updateProverIdAndFlushId polls the executor for the flush id it has     *)
(* stored, but sleeps while nothing is pending.  A wait group counts the   *)
(* transactions on their way; a batch is closed when it is zero.           *)
(*                                                                         *)
(* Each goroutine has a program counter, fpc, upc and spc.  The process    *)
(* may crash at any time and loses everything but the database; so may the *)
(* executor, which then comes back with a new prover id and without what   *)
(* it had not flushed.                                                     *)
(***************************************************************************)
EXTENDS Integers, SequencesExt

CONSTANTS
  Tx,             \* transactions of the pool
  ForcedBatches,  \* the transactions of each forced batch, in L1 order
  Cap,            \* capacity of the channel pendingTransactionsToStore
  MaxFlush,       \* bound: flush ids the executor hands out
  MaxBatch,       \* bound: batches
  MaxProvers,     \* bound: prover ids, one more than executor restarts
  Kinds,          \* what may go wrong
  MaxFaults       \* bound: how often something goes wrong

ForcedTx == UNION {ToSet(ForcedBatches[n]) : n \in DOMAIN ForcedBatches}
AllTx == Tx \cup ForcedTx

\* A transaction takes effect once: a second copy of it has a nonce that is
\* used, and the executor has no response to store for it.
ASSUME PendingStoreAssumption ==
  /\ ForcedBatches \in Seq(Seq(ForcedTx)) /\ ForcedTx \cap Tx = {}
  /\ \A m, n \in DOMAIN ForcedBatches :
       \A i \in DOMAIN ForcedBatches[m], j \in DOMAIN ForcedBatches[n] :
         ForcedBatches[m][i] = ForcedBatches[n][j] => m = n /\ i = j
  /\ Cap \in Nat \ {0}
  /\ MaxFlush \in Nat /\ MaxBatch \in Nat /\ MaxProvers \in Nat \ {0}
  /\ Kinds \subseteq {"restart", "store", "cancel", "crash"} /\ MaxFaults \in Nat

VARIABLES
  \* finalizer
  fpc, cur,            \* program counter; responses of the last execution
                       \* that are not handed over yet, as transactionToStore
  batch,               \* number of the work-in-progress batch
  lastPendingFlushID,
  executed,            \* the transactions executed on top of the database
                       \* this process started from, that included
  cancelled,           \* the context is done
  \* updateProverIdAndFlushId
  upc, got,            \* program counter; flush id and prover id read last
  storedFlushID,
  \* storePendingTransactions
  spc, hand,           \* program counter; the transaction it works on
  \* shared
  channel,             \* pendingTransactionsToStore
  wg,                  \* pendingTransactionsToStoreWG
  inWorker,            \* pendingTxsToStore of the worker's queues
  \* state database
  stored,              \* the transactions, in the order of their L2 blocks
  closed,              \* closed batches
  forcedDone,          \* number of forced batches in the trusted state
  \* executor
  prover,              \* prover id
  sent,                \* last flush id handed out by this prover
  flushed,             \* flushed[p]: last flush id that prover p stored
  faults               \* [left, seen]: faults still to come, kinds there were

finalizerVars == <<fpc, cur, batch, lastPendingFlushID, executed>>
updaterVars == <<upc, got, storedFlushID>>
storerVars == <<spc, hand>>
sharedVars == <<channel, wg, inWorker>>
dbVars == <<stored, closed, forcedDone>>
executorVars == <<prover, sent, flushed>>
vars == <<finalizerVars, updaterVars, storerVars, sharedVars, dbVars,
          executorVars, cancelled, faults>>

\* A transactionToStore, with the prover that executed it.
ToStore(tx, b, forced) ==
  [tx |-> tx, batch |-> b, forced |-> forced, flush |-> sent + 1, prover |-> prover]

Txs(s) == {s[i].tx : i \in DOMAIN s}

Init ==
  /\ fpc = "loop" /\ cur = <<>> /\ batch = 1
  /\ lastPendingFlushID = 0 /\ executed = <<>> /\ cancelled = FALSE
  /\ upc = "check" /\ got = [flush |-> 0, prover |-> 0]
  /\ storedFlushID = 0
  /\ spc = "recv" /\ hand = <<>>
  /\ channel = <<>> /\ wg = 0 /\ inWorker = {}
  /\ stored = <<>> /\ closed = {} /\ forcedDone = 0
  /\ prover = 1 /\ sent = 0
  /\ flushed = [p \in 1..MaxProvers |-> 0]
  /\ faults = [left |-> MaxFaults, seen |-> {}]

-----------------------------------------------------------------------------
(***************************************************************************)
(* The executor (external).  It stores flush ids in order; other clients   *)
(* use it too.                                                             *)
(***************************************************************************)
Flush ==
  /\ flushed[prover] < sent
  /\ flushed' = [flushed EXCEPT ![prover] = @ + 1]
  /\ UNCHANGED <<finalizerVars, updaterVars, storerVars, sharedVars, dbVars,
                 prover, sent, cancelled>>

OtherClient ==
  /\ sent < MaxFlush
  /\ sent' = sent + 1
  /\ UNCHANGED <<finalizerVars, updaterVars, storerVars, sharedVars, dbVars,
                 prover, flushed, cancelled>>

\* Another executor takes over; where its flush ids start is not known.
ProverRestart ==
  /\ prover < MaxProvers
  /\ prover' = prover + 1
  /\ \E n \in 0..MaxFlush :
       sent' = n /\ flushed' = [flushed EXCEPT ![prover + 1] = n]
  /\ UNCHANGED <<finalizerVars, updaterVars, storerVars, sharedVars, dbVars,
                 cancelled>>

\* The executor has the state changes of r.
Durable(r) == r.flush <= flushed[r.prover]

\* The executor can start from the state root the finalizer asks for.
HasStateRoot ==
  \A i \in DOMAIN executed : executed[i].prover = prover \/ Durable(executed[i])

-----------------------------------------------------------------------------
(***************************************************************************)
(* The finalizer.                                                          *)
(***************************************************************************)
Execute(recs, b) ==
  /\ ~cancelled /\ HasStateRoot /\ sent < MaxFlush
  /\ sent' = sent + 1
  /\ cur' = recs
  /\ executed' = executed \o recs
  /\ batch' = b
  /\ UNCHANGED <<lastPendingFlushID, updaterVars, storerVars, sharedVars,
                 prover, flushed, cancelled>>

\* A transaction of the pool that changes the state root.
processTransaction(tx) ==
  /\ fpc = "loop"
  /\ tx \notin Txs(executed)
  /\ Execute(<<ToStore(tx, batch, FALSE)>>, batch)
  /\ fpc' = "flush"
  /\ UNCHANGED dbVars

\* updateLastPendingFlushID: the comparison and the assignment, and, one step
\* later and without the mutex of pendingFlushIDCond, the broadcast.
updateLastPendingFlushID ==
  /\ fpc = "flush"
  /\ IF Head(cur).flush > lastPendingFlushID
     THEN lastPendingFlushID' = Head(cur).flush /\ fpc' = "notify"
     ELSE fpc' = "add" /\ UNCHANGED lastPendingFlushID
  /\ UNCHANGED <<cur, batch, executed, updaterVars, storerVars, sharedVars,
                 dbVars, executorVars, cancelled>>

BroadcastPending ==
  /\ fpc = "notify"
  /\ fpc' = "add"
  /\ upc' = IF upc = "waiting" THEN "check" ELSE upc
  /\ UNCHANGED <<cur, batch, lastPendingFlushID, executed, got, storedFlushID,
                 storerVars, sharedVars, dbVars, executorVars, cancelled>>

addPendingTxToStore ==
  /\ fpc = "add"
  /\ wg' = wg + 1
  /\ inWorker' = inWorker \cup {Head(cur).tx}
  /\ fpc' = "send"
  /\ UNCHANGED <<cur, batch, lastPendingFlushID, executed, channel, updaterVars,
                 storerVars, dbVars, executorVars, cancelled>>

\* On to the next response; the forced ones are handled inside newWIPBatch.
NextResponse ==
  /\ cur' = Tail(cur)
  /\ fpc' = IF Len(cur) > 1 THEN "flush"
            ELSE IF Head(cur).forced THEN "open" ELSE "loop"
  /\ UNCHANGED <<batch, lastPendingFlushID, executed, updaterVars, storerVars,
                 dbVars, executorVars, cancelled>>

Send ==
  /\ fpc = "send"
  /\ Len(channel) < Cap
  /\ channel' = Append(channel, Head(cur))
  /\ NextResponse
  /\ UNCHANGED <<wg, inWorker>>

SendCancelled ==
  /\ fpc = "send" /\ cancelled
  /\ wg' = wg - 1
  /\ inWorker' = inWorker \ {Head(cur).tx}
  /\ NextResponse
  /\ UNCHANGED channel

\* A deadline or a full batch: newWIPBatch waits for the wait group.
finalizeBatch ==
  /\ fpc = "loop" /\ batch < MaxBatch
  /\ fpc' = "close"
  /\ UNCHANGED <<cur, batch, lastPendingFlushID, executed, updaterVars,
                 storerVars, sharedVars, dbVars, executorVars, cancelled>>

\* Faulty variant: the batch is closed without waiting.
closeBatch_NoWait ==
  /\ fpc = "close" /\ ~cancelled
  /\ closed' = closed \cup {batch}
  /\ fpc' = "open"
  /\ UNCHANGED <<cur, batch, lastPendingFlushID, executed, updaterVars, storerVars,
                 sharedVars, stored, forcedDone, executorVars, cancelled>>

\* The database refuses to work for a context that is done.
closeBatch ==
  /\ fpc = "close" /\ wg = 0 /\ ~cancelled
  /\ closed' = closed \cup {batch}
  /\ fpc' = "open"
  /\ UNCHANGED <<cur, batch, lastPendingFlushID, executed, updaterVars, storerVars,
                 sharedVars, stored, forcedDone, executorVars, cancelled>>

\* A forced batch is opened, executed and closed in one database transaction;
\* its transactions are stored later.
processForcedBatch ==
  /\ fpc = "open" /\ batch < MaxBatch - 1
  /\ forcedDone < Len(ForcedBatches)
  /\ LET txs  == ForcedBatches[forcedDone + 1]
         recs == [i \in DOMAIN txs |-> ToStore(txs[i], batch + 1, TRUE)]
     IN  /\ Execute(recs, batch + 1)
         /\ fpc' = IF txs = <<>> THEN "open" ELSE "flush"
  /\ forcedDone' = forcedDone + 1
  /\ closed' = closed \cup {batch + 1}
  /\ UNCHANGED stored

openWIPBatch ==
  /\ fpc = "open" /\ ~cancelled
  /\ batch' = batch + 1
  /\ fpc' = "loop"
  /\ UNCHANGED <<cur, lastPendingFlushID, executed, updaterVars, storerVars,
                 sharedVars, dbVars, executorVars, cancelled>>

Stop ==
  /\ fpc = "loop" /\ cancelled
  /\ fpc' = "stopped"
  /\ UNCHANGED <<cur, batch, lastPendingFlushID, executed, updaterVars, storerVars,
                 sharedVars, dbVars, executorVars, cancelled>>

-----------------------------------------------------------------------------
(***************************************************************************)
(* updateProverIdAndFlushId.  Between the test of its loop and the moment  *)
(* Wait has registered it, a broadcast does not reach it.                  *)
(***************************************************************************)
CheckPending ==
  /\ upc = "check"
  /\ upc' = IF storedFlushID >= lastPendingFlushID THEN "sleep" ELSE "poll"
  /\ UNCHANGED <<finalizerVars, got, storedFlushID, storerVars, sharedVars,
                 dbVars, executorVars, cancelled>>

WaitPending ==
  /\ upc = "sleep"
  /\ upc' = "waiting"
  /\ UNCHANGED <<finalizerVars, got, storedFlushID, storerVars, sharedVars,
                 dbVars, executorVars, cancelled>>

GetStoredFlushID ==
  /\ upc = "poll"
  /\ IF storedFlushID < lastPendingFlushID
     THEN /\ got' = [flush |-> flushed[prover], prover |-> prover]
          /\ upc' = IF got'.flush # storedFlushID THEN "update" ELSE "poll"
     ELSE upc' = "check" /\ UNCHANGED got
  /\ UNCHANGED <<finalizerVars, storedFlushID, storerVars, sharedVars,
                 dbVars, executorVars, cancelled>>

\* checkIfProverRestarted compares with f.proverID, which nothing assigns: it
\* stays empty, written 0 here, and the check lets every prover id pass.
proverID == 0
checkIfProverRestarted == proverID # 0 /\ proverID # got.prover

\* Faulty variant: no broadcast of storedFlushIDCond.
UpdateStored_Silent ==
  /\ upc = "update"
  /\ storedFlushID' = got.flush
  /\ upc' = "poll"
  /\ UNCHANGED <<finalizerVars, got, storerVars, sharedVars, dbVars, executorVars,
                 cancelled>>

UpdateStored ==
  /\ upc = "update"
  /\ ~checkIfProverRestarted
  /\ storedFlushID' = got.flush
  /\ upc' = "poll"
  /\ spc' = IF spc = "asleep" THEN "woken" ELSE spc
  /\ UNCHANGED <<finalizerVars, got, hand, sharedVars, dbVars, executorVars, cancelled>>

-----------------------------------------------------------------------------
(***************************************************************************)
(* storePendingTransactions.                                               *)
(***************************************************************************)
storerOnly == <<finalizerVars, updaterVars, executorVars, cancelled>>

\* Faulty variant: the worker is told before the transaction is stored.
Receive_DropsPending ==
  /\ spc = "recv" /\ channel # <<>>
  /\ hand' = <<Head(channel)>>
  /\ channel' = Tail(channel)
  /\ spc' = "wait"
  /\ inWorker' = inWorker \ {Head(channel).tx}
  /\ UNCHANGED <<storerOnly, wg, dbVars>>

Receive ==
  /\ spc = "recv" /\ channel # <<>>
  /\ hand' = <<Head(channel)>>
  /\ channel' = Tail(channel)
  /\ spc' = "wait"
  /\ UNCHANGED <<storerOnly, wg, inWorker, dbVars>>

\* Faulty variant: off by one.
WaitStored_OneEarly ==
  /\ spc = "wait"
  /\ spc' = IF storedFlushID + 1 < hand[1].flush THEN "asleep" ELSE "store"
  /\ UNCHANGED <<storerOnly, hand, sharedVars, dbVars>>

\* The test and the registration in Wait are under the mutex that the
\* broadcast of storedFlushIDCond takes as well.
WaitStored ==
  /\ spc = "wait"
  /\ spc' = IF storedFlushID < hand[1].flush THEN "asleep" ELSE "store"
  /\ UNCHANGED <<storerOnly, hand, sharedVars, dbVars>>

Woken ==
  /\ spc = "woken"
  /\ spc' = IF cancelled THEN "exit" ELSE "wait"
  /\ UNCHANGED <<storerOnly, hand, sharedVars, dbVars>>

storeProcessedTx ==
  /\ spc = "store" /\ ~cancelled
  /\ stored' = stored \o hand
  /\ spc' = "drop"
  /\ UNCHANGED <<storerOnly, hand, sharedVars, closed, forcedDone>>

\* Faulty variant: the error is logged and the transaction skipped.
StoreFails_Skips ==
  /\ spc = "store"
  /\ spc' = "drop"
  /\ UNCHANGED <<storerOnly, hand, sharedVars, dbVars>>

\* An error before the commit or after it halts the goroutine; a context that
\* is done is an error before it.
StoreFails ==
  /\ spc = "store"
  /\ \/ UNCHANGED stored
     \/ ~cancelled /\ stored' = stored \o hand
  /\ spc' = "halted"
  /\ UNCHANGED <<storerOnly, hand, sharedVars, closed, forcedDone>>

DeletePendingTxToStore ==
  /\ spc = "drop"
  /\ inWorker' = inWorker \ {hand[1].tx}
  /\ spc' = "done"
  /\ UNCHANGED <<storerOnly, hand, channel, wg, dbVars>>

\* Faulty variant: the next round starts with the transaction of this one.
Done_KeepsHand ==
  /\ spc = "done"
  /\ wg' = wg - 1
  /\ spc' = "recv"
  /\ UNCHANGED <<storerOnly, hand, channel, inWorker, dbVars>>

Done ==
  /\ spc = "done"
  /\ wg' = wg - 1
  /\ hand' = <<>>
  /\ spc' = "recv"
  /\ UNCHANGED <<storerOnly, channel, inWorker, dbVars>>

\* Context done: wait for the wait group, then return.
Drain ==
  /\ \/ spc = "recv" /\ cancelled /\ spc' = "drain"
     \/ spc = "drain" /\ wg = 0 /\ spc' = "exit"
  /\ UNCHANGED <<storerOnly, hand, sharedVars, dbVars>>

-----------------------------------------------------------------------------
Cancel ==
  /\ ~cancelled
  /\ cancelled' = TRUE
  /\ UNCHANGED <<finalizerVars, updaterVars, storerVars, sharedVars, dbVars,
                 executorVars>>

\* The process dies and starts again from the database: Sequencer.Start marks
\* the transactions it worked on as pending, syncWithState takes up the last
\* batch, or opens the next one if that is closed.
Crash ==
  /\ batch' = IF batch \in closed THEN batch + 1 ELSE batch
  /\ fpc' = "loop" /\ cur' = <<>> /\ lastPendingFlushID' = 0
  /\ executed' = stored /\ cancelled' = FALSE
  /\ upc' = "check" /\ got' = [flush |-> 0, prover |-> 0]
  /\ storedFlushID' = 0
  /\ spc' = "recv" /\ hand' = <<>>
  /\ channel' = <<>> /\ wg' = 0 /\ inWorker' = {}
  /\ UNCHANGED <<dbVars, executorVars>>

Finalizer ==
  \/ updateLastPendingFlushID \/ BroadcastPending \/ addPendingTxToStore
  \/ Send \/ SendCancelled \/ closeBatch \/ openWIPBatch \/ Stop

Updater == CheckPending \/ WaitPending \/ GetStoredFlushID \/ UpdateStored

Storer ==
  \/ Receive \/ WaitStored \/ Woken \/ storeProcessedTx
  \/ DeletePendingTxToStore \/ Done \/ Drain

Fault(kind) ==
  /\ kind \in Kinds /\ faults.left > 0
  /\ faults' = [left |-> faults.left - 1, seen |-> faults.seen \cup {kind}]

Next ==
  \/ /\ \/ \E tx \in Tx : processTransaction(tx)
        \/ finalizeBatch \/ processForcedBatch
        \/ Finalizer \/ Updater \/ Storer \/ Flush \/ OtherClient
     /\ UNCHANGED faults
  \/ Fault("restart") /\ ProverRestart
  \/ Fault("store") /\ StoreFails
  \/ Fault("cancel") /\ Cancel
  \/ Fault("crash") /\ Crash

\* Every goroutine that can run runs, and the executor stores what it was sent.
Spec ==
  /\ Init /\ [][Next]_vars
  /\ WF_vars(Finalizer /\ UNCHANGED faults) /\ WF_vars(Updater /\ UNCHANGED faults)
  /\ WF_vars(Storer /\ UNCHANGED faults) /\ WF_vars(Flush /\ UNCHANGED faults)

-----------------------------------------------------------------------------
(***************************************************************************)
(* Properties.                                                             *)
(***************************************************************************)
Rec == [tx : AllTx, batch : Nat, forced : BOOLEAN, flush : Nat, prover : 1..MaxProvers]

\* Every variable has its type; a goroutine holds a transaction exactly in
\* the states in which it works on one.
TypeOK ==
  /\ fpc \in {"loop", "flush", "notify", "add", "send", "close", "open", "stopped"}
  /\ cur \in Seq(Rec) /\ (cur # <<>> <=> fpc \in {"flush", "notify", "add", "send"})
  /\ batch \in Nat /\ lastPendingFlushID \in Nat
  /\ executed \in Seq(Rec) /\ cancelled \in BOOLEAN
  /\ upc \in {"check", "sleep", "waiting", "poll", "update"}
  /\ got \in [flush : Nat, prover : 0..MaxProvers]
  /\ storedFlushID \in Nat
  /\ spc \in {"recv", "wait", "asleep", "woken", "store", "drop", "done",
              "drain", "exit", "halted"}
  /\ hand \in Seq(Rec) /\ Len(hand) <= 1
  /\ spc \in {"wait", "asleep", "woken", "store", "drop", "done"} => hand # <<>>
  /\ spc \in {"recv", "drain"} => hand = <<>>
  /\ channel \in Seq(Rec) /\ wg \in Int /\ inWorker \in SUBSET AllTx
  /\ stored \in Seq(Rec) /\ closed \in SUBSET Nat /\ forcedDone \in Nat
  /\ prover \in 1..MaxProvers /\ sent \in Nat
  /\ flushed \in [1..MaxProvers -> Nat]
  /\ faults \in [left : 0..MaxFaults, seen : SUBSET Kinds]

\* The database holds the executed transactions in the order of execution,
\* without a gap and none twice: block numbers follow the order of storing.
StoredInOrder ==
  /\ IsPrefix(stored, executed)
  /\ \A i, j \in DOMAIN stored : stored[i].tx = stored[j].tx => i = j

\* A closed batch is complete: every transaction of the pool that was executed
\* in it is in the database, which closeBatch reads the batch from.  It waits
\* for the wait group, which counts the transactions that are handed over and
\* not yet done, also when a send is given up: never negative, which would
\* panic, and zero only when none is on its way.
ClosedIsStored ==
  /\ wg = Len(hand) + Len(channel) + (IF fpc = "send" THEN 1 ELSE 0)
  /\ \A i \in DOMAIN executed :
       executed[i].batch \in closed /\ ~executed[i].forced
         => executed[i] \in ToSet(stored)

\* From the moment a transaction is counted until it is in the database the
\* worker knows it as pending, so its sender's queue is not expired and built
\* anew from the older nonce in the database.
WorkerKnowsPending ==
  ~cancelled => \A i \in DOMAIN executed :
    \/ executed[i] \in ToSet(stored) \cup ToSet(cur)
    \/ executed[i].tx \in inWorker

\* As long as the executor does not restart, no transaction is in the
\* database before the executor has stored its state changes.
StoredIsFlushed == prover = 1 => \A i \in DOMAIN stored : Durable(stored[i])

\* The transaction in hand is stored and done with once its flush id is known
\* to be stored, unless the process dies or is stopped, the database fails, or
\* another executor takes over: the wake-up of storePendingTransactions is
\* never lost, and so the channel moves on.
StoredOnceFlushed ==
  hand # <<>> /\ hand[1].flush <= storedFlushID ~> hand = <<>> \/ faults.seen # {}

\* What the comments of updateLastPendingFlushID and addPendingTxToStore say:
\* the goroutine that waits for pending flush ids is notified of each, so that
\* an executed transaction is stored once the executor has stored its flush
\* id.
ExecutedIsStored == \A tx \in AllTx : tx \in Txs(executed) ~> tx \in Txs(stored)
=============================================================================

------------------------------ MODULE Finalizer ------------------------------
(***************************************************************************)
(* The life cycle of a batch in the sequencer (sequencer/finalizer.go,     *)
(* closingsignalsmanager.go, dbmanager.go and the start in sequencer.go).  *)
(*                                                                         *)
(*  - The finalizer executes transactions into the open batch, closes the  *)
(*    batch on a deadline or when it is full, executes the forced batches  *)
(*    of L1 that wait, each as a closed batch of its own, and opens the    *)
(*    next batch with the newest global exit root (GER).                   *)
(*  - The closing signals manager looks for forced batches and GERs of L1  *)
(*    and hands them to the finalizer.                                     *)
(*  - A goroutine stores the executed transactions, another one executes   *)
(*    a closed batch again as a sanity check.                              *)
(*                                                                         *)
(* How a transaction waits for the flush of the executor is the subject of *)
(* PendingStore; here it is a queue.  A state root is what it commits to:  *)
(* the GERs the chain knows and the transactions executed so far.          *)
(***************************************************************************)
EXTENDS Integers, Sequences, FiniteSets, SequencesExt, FiniteSetsExt

CONSTANTS
  NumTxs,          \* transactions of the pool: 1..NumTxs
  Cost,            \* the resources each of them uses
  MaxResources,    \* resources of a batch
  Threshold,       \* remaining resources at which a batch is almost full
  MaxTxsPerBatch,
  EarlyGer,        \* the GER of the first blocks of L1, 0 if there is none
  MaxGer,          \* bound: GERs of L1 are 1..MaxGer, in the order they come
  MaxForced,       \* bound: number of forced batches
  MaxChecks,       \* bound: sanity checks that run at the same time
  Modes,           \* values of the setting SequentialReprocessFullBatch
  ForcedBound,     \* bound: number of forced batches in each of them
  Kinds,           \* the faults a behaviour may have
  MaxFaults        \* bound: number of faults

Txs == 1..NumTxs

ASSUME FinalizerAssumption ==
  /\ {NumTxs, MaxResources, MaxTxsPerBatch, MaxGer, MaxChecks} \subseteq Nat \ {0}
  /\ {Threshold, EarlyGer, MaxForced, MaxFaults} \subseteq Nat
  /\ Cost \in [Txs -> 1..MaxResources]
  /\ Threshold < MaxResources /\ EarlyGer <= MaxGer
  /\ Modes \subseteq BOOLEAN /\ ForcedBound \in [Modes -> 0..MaxForced]
  /\ Kinds \subseteq {"crash", "db", "commit", "executor"}

VARIABLES
  ger,         \* L1: the newest GER
  forced,      \* L1: the GERs of its forced batches, in order
  db,          \* table state.batch; batch number n is db[n + 1]
  lastBlock,   \* the state root of the last L2 block in the database
  pool,        \* transactions that wait to be executed
  final,       \* transactions whose price is settled (IsLastExecution)
  queue,       \* pendingTransactionsToStore
  fin,         \* what the finalizer is doing, and its batch
  signals,     \* nextForcedBatches, nextGER and their deadlines
  sent,        \* what the closing signals manager has handed over
  sanity,      \* the goroutines of the parallel sanity check
  sequential,  \* the setting SequentialReprocessFullBatch
  faults       \* faults left and what they led to

l1Vars == <<ger, forced>>
dbVars == <<db, lastBlock>>
vars == <<l1Vars, dbVars, pool, final, queue, fin, signals, sent, sanity, sequential, faults>>

-----------------------------------------------------------------------------
(* The executor: what it computes depends on nothing but its input.  The   *)
(* GER 0 updates nothing, and a GER that is known changes nothing.         *)

NoRoot == [gers |-> {}, txs |-> <<>>]
Exec(root, g, txs) == [gers |-> root.gers \cup ({g} \ {0}), txs |-> root.txs \o txs]

\* The transaction of forced batch k.
ForcedTx(k) == NumTxs + k
ForcedGer(k) == forced[k]

-----------------------------------------------------------------------------
(* Batches.  forced is the number of the forced batch, 0 for the others.   *)

OpenedBatch(g) == [ger |-> g, forced |-> 0, closed |-> FALSE, root |-> NoRoot, l2data |-> <<>>]

\* OpenBatch of the state.
Openable == Last(db).closed

\* The resources that the transactions use, unit by unit.
Units(txs) == {u \in (DOMAIN txs) \X (1..MaxResources) : u[2] <= Cost[txs[u[1]]]}
SumCost(txs) == Cardinality(Units(txs))

\* openWIPBatch
WipBatch(n, g, root) ==
  [n |-> n, ger |-> g, initial |-> root, root |-> root, count |-> 0, remaining |-> MaxResources]

\* Faulty: the resources its transactions have used are forgotten.
GetWIPBatch_Fresh ==
  LET b == Last(db)
      prev == db[Len(db) - 1]
  IN  [n |-> Len(db) - 1, ger |-> b.ger, initial |-> prev.root,
       root |-> IF b.l2data = <<>> THEN prev.root ELSE lastBlock,
       count |-> Len(b.l2data), remaining |-> MaxResources]

\* GetWIPBatch for a last batch that is open.
GetWIPBatch ==
  LET b == Last(db)
      prev == db[Len(db) - 1]
  IN  [n |-> Len(db) - 1, ger |-> b.ger, initial |-> prev.root,
       root |-> IF b.l2data = <<>> THEN prev.root ELSE lastBlock,
       count |-> Len(b.l2data), remaining |-> MaxResources - SumCost(b.l2data)]

newSignals == [forced |-> {}, forcedDeadline |-> FALSE, ger |-> 0, gerDeadline |-> FALSE]
newFin(b) == [pc |-> "pick", batch |-> b, ger |-> 0]

Init ==
  /\ ger = EarlyGer /\ forced = <<>>
  /\ db = <<[OpenedBatch(0) EXCEPT !.closed = TRUE], OpenedBatch(0)>>
  /\ lastBlock = NoRoot
  /\ pool = Txs /\ final = {}
  /\ queue = <<>>
  /\ fin = newFin(WipBatch(1, 0, NoRoot))
  /\ signals = newSignals
  /\ sent = [forced |-> 0, ger |-> 0]
  /\ sanity = [unread |-> 0, read |-> {}, failed |-> FALSE]
  /\ sequential \in Modes
  /\ faults = [left |-> MaxFaults, seen |-> {}]

\* The process ends and starts again.  Transactions that were not stored are
\* back in the pool.  syncWithState opens the batch after a closed one; it
\* asks for the GER of the blocks up to GERFinalityNumberOfBlocks.
Restart ==
  /\ db' = IF Openable THEN Append(db, OpenedBatch(EarlyGer)) ELSE db
  /\ fin' = newFin(IF Openable THEN WipBatch(Len(db), EarlyGer, Last(db).root) ELSE GetWIPBatch)
  /\ pool' = pool \cup {queue[i].tx : i \in {j \in DOMAIN queue : queue[j].tx \in Txs}}
  /\ final' = {}
  /\ queue' = <<>>
  /\ signals' = newSignals
  /\ sent' = [forced |-> 0, ger |-> Last(db').ger]
  /\ sanity' = [unread |-> 0, read |-> {}, failed |-> FALSE]
  /\ UNCHANGED <<l1Vars, lastBlock, sequential>>

Fault(kind, effect) ==
  /\ kind \in Kinds
  /\ faults.left > 0
  /\ faults' = [left |-> faults.left - 1, seen |-> faults.seen \cup {effect}]

-----------------------------------------------------------------------------
(* L1, as the synchronizer has it in the database                          *)

NewGer ==
  /\ ger < MaxGer
  /\ ger' = ger + 1
  /\ UNCHANGED <<forced, dbVars, pool, final, queue, fin, signals, sent, sanity, sequential, faults>>

NewForcedBatch ==
  /\ Len(forced) < ForcedBound[sequential]
  /\ forced' = Append(forced, ger)
  /\ UNCHANGED <<ger, dbVars, pool, final, queue, fin, signals, sent, sanity, sequential, faults>>

-----------------------------------------------------------------------------
(* The closing signals manager, with listenForClosingSignals at the other  *)
(* end of its channels, which have no buffer.                              *)

signalOnly == <<l1Vars, dbVars, pool, final, queue, fin, sanity, sequential, faults>>

GetLastTrustedForcedBatchNumber == Max({b.forced : b \in ToSet(db)})

\* Faulty: one too many.
LastForcedSent_SkipsOne ==
  IF sent.forced = 0 THEN GetLastTrustedForcedBatchNumber + 1 ELSE sent.forced

LastForcedSent == IF sent.forced = 0 THEN GetLastTrustedForcedBatchNumber ELSE sent.forced

\* The finalizer holds nextForcedBatchesMux while it processes forced batches.
checkForcedBatches ==
  /\ fin.pc # "halt"
  /\ LastForcedSent < Len(forced)
  /\ fin.pc # "forced"
  /\ sent' = [sent EXCEPT !.forced = LastForcedSent + 1]
  /\ signals' = [signals EXCEPT !.forced = @ \cup {LastForcedSent + 1}, !.forcedDeadline = TRUE]
  /\ UNCHANGED signalOnly

checkGERUpdate ==
  /\ fin.pc # "halt"
  /\ ger # sent.ger
  /\ sent' = [sent EXCEPT !.ger = ger]
  /\ signals' = [signals EXCEPT !.ger = ger, !.gerDeadline = TRUE]
  /\ UNCHANGED signalOnly

-----------------------------------------------------------------------------
(* finalizeBatches: take a transaction, execute it, see whether the batch  *)
(* has to be closed.                                                       *)

finOnly == <<l1Vars, dbVars, signals, sent, sanity, sequential, faults>>

\* GetBestFittingTx (see BestFitting) returns the most efficient transaction
\* that fits, 0 if there is none; transactions are numbered by efficiency.
GetBestFittingTx ==
  LET fitting == {t \in pool : Cost[t] <= fin.batch.remaining}
  IN  IF fitting = {} THEN 0 ELSE Min(fitting)

\* The GER is only sent along with the first transaction of a batch.
processTransaction(b, txs) == Exec(b.root, IF b.count = 0 THEN b.ger ELSE 0, txs)

\* Faulty: a difference below zero is no error.
Executed_Unchecked(t, b) ==
  LET root == processTransaction(b, <<t>>)
  IN  /\ fin' = [fin EXCEPT !.pc = "check",
                   !.batch = [b EXCEPT !.root = root, !.count = @ + 1, !.remaining = @ - Cost[t]]]
      /\ queue' = Append(queue, [tx |-> t, n |-> b.n, root |-> root])
      /\ pool' = pool \ {t}

\* checkRemainingResources, and what follows when the price is settled.
Executed(t, b) ==
  LET root == processTransaction(b, <<t>>)
  IN  /\ Cost[t] <= b.remaining
      /\ fin' = [fin EXCEPT !.pc = "check",
                   !.batch = [b EXCEPT !.root = root, !.count = @ + 1, !.remaining = @ - Cost[t]]]
      /\ queue' = Append(queue, [tx |-> t, n |-> b.n, root |-> root])
      /\ pool' = pool \ {t}

ExecuteTx(t) ==
  /\ fin.pc = "pick" /\ t = GetBestFittingTx
  /\ Executed(t, fin.batch)
  /\ UNCHANGED <<finOnly, final>>

\* The price that follows from the gas used differs too much from the one the
\* transaction was executed with: it is executed again.  The first execution
\* has used up its resources, so that it may not fit any more.
ReprocessTx(t) ==
  LET b == [fin.batch EXCEPT !.remaining = @ - Cost[t]]
  IN  /\ fin.pc = "pick" /\ t = GetBestFittingTx
      /\ t \notin final
      /\ final' = final \cup {t}
      /\ \/ Executed(t, b)
         \/ /\ Cost[t] > b.remaining
            /\ fin' = [fin EXCEPT !.pc = "check", !.batch = b]
            /\ UNCHANGED <<pool, queue>>
      /\ UNCHANGED finOnly

\* handleProcessTransactionError: the transaction leaves the worker.
RejectTx(t) ==
  /\ fin.pc = "pick" /\ t = GetBestFittingTx
  /\ fin' = [fin EXCEPT !.pc = "check"]
  /\ pool' = pool \ {t}
  /\ UNCHANGED <<finOnly, final, queue>>

NoTx ==
  /\ fin.pc = "pick" /\ GetBestFittingTx = 0
  /\ fin' = [fin EXCEPT !.pc = "check"]
  /\ UNCHANGED <<finOnly, pool, final, queue>>

\* The time of a deadline that is set comes sooner or later.
isDeadlineEncountered ==
  signals.forcedDeadline \/ signals.gerDeadline \/ fin.batch.count > 0

isBatchFull == fin.batch.count >= MaxTxsPerBatch
isBatchAlmostFull == fin.batch.remaining <= Threshold

halt == fin' = [fin EXCEPT !.pc = "halt"]

CheckBatch ==
  /\ fin.pc = "check"
  /\ \/ ~sequential /\ sanity.failed /\ halt
     \/ /\ sequential \/ ~sanity.failed
        /\ ~(isBatchFull \/ isBatchAlmostFull)
        /\ fin' = [fin EXCEPT !.pc = "pick"]
  /\ UNCHANGED <<finOnly, pool, final, queue>>

finalizeBatch ==
  /\ fin.pc = "check"
  /\ sequential \/ ~sanity.failed
  /\ isDeadlineEncountered \/ isBatchFull \/ isBatchAlmostFull
  /\ fin' = [fin EXCEPT !.pc = "close"]
  /\ UNCHANGED <<finOnly, pool, final, queue>>

-----------------------------------------------------------------------------
(* newWIPBatch                                                             *)

\* The batch with the GER executed, if no transaction has done it.
Settled(b) == IF b.initial = b.root THEN [b EXCEPT !.root = processTransaction(b, <<>>)] ELSE b

\* Faulty: without the GER.
Mismatch_NoGer(n, initial, root) == Exec(initial, 0, db[n + 1].l2data) # root

\* reprocessFullBatch: the batch as it is in the database now gives another
\* root.
Mismatch(n, initial, root) == Exec(initial, db[n + 1].ger, db[n + 1].l2data) # root

\* closeBatch: isBatchClosable of the state, and the row.
Closable(b) == Len(db) = b.n + 1 /\ ~Last(db).closed
Closed(b) == [db EXCEPT ![b.n + 1] = [@ EXCEPT !.closed = TRUE, !.root = b.root]]

\* When everything is stored: the sanity check, done here, where a mismatch
\* halts the sequencer, or by a goroutine; and the close.
CloseBatch ==
  LET b == Settled(fin.batch)
      halted == sequential /\ Mismatch(b.n, b.initial, b.root)
      next == IF signals.forced = {} THEN "open" ELSE "forced"
  IN  /\ fin.pc = "close"
      /\ queue = <<>>
      /\ \/ sequential /\ UNCHANGED sanity
         \/ /\ ~sequential /\ sanity.unread + Cardinality(sanity.read) < MaxChecks
            /\ sanity' = [sanity EXCEPT !.unread = @ + 1]
      /\ Closable(b)
      /\ db' = IF halted THEN db ELSE Closed(b)
      /\ fin' = [fin EXCEPT !.pc = IF halted THEN "halt" ELSE next, !.batch = b]
      /\ UNCHANGED <<l1Vars, lastBlock, pool, final, queue, signals, sent, sequential, faults>>

\* Faulty: batches that were handed over twice are not skipped.
NextForced_FirstSent == Min(signals.forced)

\* The next forced batch up to the last one that was handed over: those in
\* between come from the database.
NextForced == GetLastTrustedForcedBatchNumber + 1
MoreForced == \E k \in signals.forced : k >= NextForced

\* Faulty: every forced batch starts from the root of the batch closed before.
processForcedBatch_StaleRoot ==
  LET k == NextForced
      root == Exec(fin.batch.root, ForcedGer(k), <<ForcedTx(k)>>)
  IN  /\ fin.pc = "forced"
      /\ MoreForced
      /\ Openable
      /\ db' = Append(db, [ger |-> ForcedGer(k), forced |-> k, closed |-> TRUE, root |-> root,
                           l2data |-> <<ForcedTx(k)>>])
      /\ queue' = Append(queue, [tx |-> ForcedTx(k), n |-> Len(db), root |-> root])
      /\ fin' = [fin EXCEPT !.ger = ForcedGer(k)]
      /\ UNCHANGED <<l1Vars, lastBlock, pool, final, signals, sent, sanity, sequential, faults>>

\* ProcessForcedBatch: open, execute and close in one database transaction.
\* Its transactions are stored later.
processForcedBatch ==
  LET k == NextForced
      root == Exec(Last(db).root, ForcedGer(k), <<ForcedTx(k)>>)
  IN  /\ fin.pc = "forced"
      /\ MoreForced
      /\ Openable
      /\ db' = Append(db, [ger |-> ForcedGer(k), forced |-> k, closed |-> TRUE, root |-> root,
                           l2data |-> <<ForcedTx(k)>>])
      /\ queue' = Append(queue, [tx |-> ForcedTx(k), n |-> Len(db), root |-> root])
      /\ fin' = [fin EXCEPT !.ger = ForcedGer(k)]
      /\ UNCHANGED <<l1Vars, lastBlock, pool, final, signals, sent, sanity, sequential, faults>>

\* The executor refuses the batch: halt, with the database transaction open.
ForcedBatchFails ==
  /\ fin.pc = "forced"
  /\ MoreForced
  /\ Fault("executor", "halt")
  /\ halt
  /\ UNCHANGED <<l1Vars, dbVars, pool, final, queue, signals, sent, sanity, sequential>>

ForcedDone ==
  /\ fin.pc = "forced"
  /\ ~MoreForced
  /\ signals' = [signals EXCEPT !.forced = {}, !.forcedDeadline = FALSE]
  /\ fin' = [fin EXCEPT !.pc = "open"]
  /\ UNCHANGED <<l1Vars, dbVars, pool, final, queue, sent, sanity, sequential, faults>>

NextGer == IF signals.ger # 0 THEN signals.ger ELSE fin.ger

openWIPBatch ==
  /\ fin.pc = "open"
  /\ Openable
  /\ db' = Append(db, OpenedBatch(NextGer))
  /\ fin' = [pc |-> "pick", ger |-> NextGer, batch |-> WipBatch(Len(db), NextGer, Last(db).root)]
  /\ signals' = [signals EXCEPT !.ger = 0, !.gerDeadline = FALSE]
  /\ UNCHANGED <<l1Vars, lastBlock, pool, final, queue, sent, sanity, sequential, faults>>

\* ProcessForcedBatch takes a commit that fails for one that succeeds.  The
\* next batch is then not the next one of the database: another forced batch
\* halts the finalizer, opening the next batch ends the process, unless its
\* transactions, which belong to no batch, have halted the storing goroutine.
ForcedCommitFails ==
  /\ fin.pc = "forced"
  /\ MoreForced
  /\ \/ /\ Fault("commit", "halt")
        /\ halt
        /\ UNCHANGED <<l1Vars, dbVars, pool, final, queue, signals, sent, sanity, sequential>>
     \/ Fault("commit", "restart") /\ Restart

\* The database fails: finalizeBatch sets the batch to nil and tries again,
\* which waits until everything is stored and ends the process.
FinalizeBatchFails ==
  /\ fin.pc \in {"close", "forced", "open"}
  /\ queue = <<>>
  /\ Fault("db", "restart")
  /\ Restart

-----------------------------------------------------------------------------
(* The other goroutines                                                    *)

\* storePendingTransactions.  The data of a forced batch is there already.
storeProcessedTx ==
  LET q == Head(queue)
  IN  /\ queue # <<>>
      /\ db' = [db EXCEPT ![q.n + 1].l2data = IF q.tx \in Txs THEN Append(@, q.tx) ELSE @]
      /\ lastBlock' = q.root
      /\ queue' = Tail(queue)
      /\ UNCHANGED <<l1Vars, pool, final, fin, signals, sent, sanity, sequential, faults>>

\* The goroutine looks at the batch when it runs, which is after newWIPBatch
\* has started it.
SanityCheckReads ==
  /\ sanity.unread > 0
  /\ sanity' = [sanity EXCEPT !.unread = @ - 1,
                  !.read = @ \cup {[n |-> fin.batch.n, initial |-> fin.batch.initial, root |-> fin.batch.root]}]
  /\ UNCHANGED <<l1Vars, dbVars, pool, final, queue, fin, signals, sent, sequential, faults>>

reprocessFullBatch ==
  /\ \E c \in sanity.read :
       sanity' = [sanity EXCEPT !.read = @ \ {c},
                    !.failed = @ \/ Mismatch(c.n, c.initial, c.root)]
  /\ UNCHANGED <<l1Vars, dbVars, pool, final, queue, fin, signals, sent, sequential, faults>>

Crash == Fault("crash", "restart") /\ Restart

Step ==
  \/ \E t \in Txs : ExecuteTx(t) \/ ReprocessTx(t) \/ RejectTx(t)
  \/ NoTx \/ CheckBatch \/ finalizeBatch
  \/ CloseBatch \/ processForcedBatch \/ ForcedDone \/ openWIPBatch

Next ==
  \/ NewGer \/ NewForcedBatch
  \/ checkForcedBatches \/ checkGERUpdate
  \/ Step \/ ForcedBatchFails \/ ForcedCommitFails \/ FinalizeBatchFails
  \/ storeProcessedTx \/ SanityCheckReads \/ reprocessFullBatch
  \/ Crash

\* Every goroutine goes on, and the time of a deadline comes.
Fairness ==
  /\ WF_vars(Step)
  /\ SF_vars(finalizeBatch)
  /\ SF_vars(checkForcedBatches)
  /\ WF_vars(checkGERUpdate)
  /\ WF_vars(storeProcessedTx)
  /\ WF_vars(SanityCheckReads \/ reprocessFullBatch)

Spec == Init /\ [][Next]_vars /\ Fairness

-----------------------------------------------------------------------------
Gers == 0..MaxGer
AllTxs == 1..(NumTxs + MaxForced)
Root == [gers : SUBSET (1..MaxGer), txs : Seq(AllTxs)]
Row == [ger : Gers, forced : 0..MaxForced, closed : BOOLEAN, root : Root, l2data : Seq(AllTxs)]
Pending == [tx : AllTxs, n : Nat, root : Root]
Wip == [n : Nat, ger : Gers, initial : Root, root : Root, count : Nat, remaining : 0..MaxResources]
Fin == [pc : {"pick", "check", "close", "forced", "open", "halt"}, ger : Gers, batch : Wip]
Signals == [forced : SUBSET (1..MaxForced), forcedDeadline : BOOLEAN, ger : Gers, gerDeadline : BOOLEAN]
Checks == SUBSET [n : Nat, initial : Root, root : Root]

\* Every part holds values of its type, and every batch that the goroutines
\* work on is in the database.
TypeOK ==
  /\ ger \in Gers /\ forced \in Seq(Gers) /\ Len(forced) <= MaxForced
  /\ db \in Seq(Row) /\ lastBlock \in Root
  /\ pool \subseteq Txs /\ final \subseteq Txs
  /\ queue \in Seq(Pending) /\ \A i \in 1..Len(queue) : queue[i].n < Len(db)
  /\ fin \in Fin /\ fin.batch.n < Len(db)
  /\ signals \in Signals
  /\ sent \in [forced : 0..MaxForced, ger : Gers]
  /\ sanity \in [unread : Nat, read : Checks, failed : BOOLEAN]
  /\ \A c \in sanity.read : c.n < Len(db)
  /\ sequential \in Modes
  /\ faults \in [left : 0..MaxFaults, seen : SUBSET {"halt", "restart"}]

\* Every closed batch, executed from the root of the batch before it with the
\* GER and the data the database has for it, gives the root the database has
\* for it: what the prover has to prove, after any crash too.
ClosedBatchesReproduce ==
  \A i \in 2..Len(db) :
    db[i].closed => db[i].root = Exec(db[i - 1].root, db[i].ger, db[i].l2data)

\* Every transaction is executed once, and the forced batches come in the
\* order of L1, without gap or repetition.
ForcedInOrder ==
  /\ \A j \in DOMAIN db : db[j].forced # 0 =>
       {db[i].forced : i \in 1..(j - 1)} = 0..(db[j].forced - 1)
  /\ \A i \in DOMAIN db : db[i].closed => IsInjective(db[i].root.txs)

\* The data of the last batch and what is still to be stored, when the first
\* f that wait are of forced batches.
WithWaiting(f) == Last(db).l2data \o [i \in 1..(Len(queue) - f) |-> queue[f + i].tx]

\* The transactions of the open batch wait behind those of forced batches.
\* What the finalizer thinks is left of the batch is never more than what its
\* stored and waiting transactions leave, after a restart and for transactions
\* executed twice too; no batch uses more than it has.
WithinLimits ==
  /\ ~Last(db).closed => \E f \in 0..Len(queue) :
       /\ \A i \in DOMAIN queue : queue[i].n = fin.batch.n <=> i > f
       /\ fin.batch.count = Len(WithWaiting(f))
       /\ fin.batch.remaining + SumCost(WithWaiting(f)) <= MaxResources
  /\ \A i \in DOMAIN db : db[i].forced = 0 => SumCost(db[i].l2data) <= MaxResources

\* With the sanity check in sequence the sequencer only halts when a forced
\* batch fails.
NoNeedlessHalt == sequential /\ fin.pc = "halt" => "halt" \in faults.seen

\* The batches always catch up with L1: the forced batches and the newest GER
\* all get into a batch, after crashes and errors too, unless the sequencer
\* halts.
SignalsTakeEffect ==
  []<>(\/ fin.pc = "halt"
       \/ /\ 1..Len(forced) \subseteq {b.forced : b \in ToSet(db)}
          /\ ger \in {b.ger : b \in ToSet(db)})

\* What the comment on the parallel check says: it finds an error in a batch
\* that was closed.
NoFalseAlarm == sanity.failed => ~ClosedBatchesReproduce
=============================================================================

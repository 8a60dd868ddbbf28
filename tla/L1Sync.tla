------------------------------- MODULE L1Sync -------------------------------
(***************************************************************************)
(* The parallel reader of L1 (synchronizer/l1_*.go) and the loop of        *)
(* synchronizer.go that drives it.  Four kinds of goroutines:              *)
(*                                                                         *)
(*  - the producer cuts L1 into ranges of blocks, hands them to workers,   *)
(*    puts the answers back in order with a filter and sends them to a     *)
(*    channel;                                                             *)
(*  - a worker asks L1 for the rollup events of one range;                 *)
(*  - the consumer takes the answers from the channel and stores them;     *)
(*  - the main loop looks for reorganisations, starts the consumer, waits  *)
(*    for it, and resets both sides when it fails.                         *)
(*                                                                         *)
(* Only the blocks with events of the rollup, and the last block of a      *)
(* range without any, are stored.  What an event does to the state is not  *)
(* part of this module.                                                    *)
(***************************************************************************)
EXTENDS Integers, Sequences, FiniteSets, SequencesExt, FiniteSetsExt

CONSTANTS
  GenesisBlockNum,   \* the block the database starts with
  StartLen,          \* number of blocks L1 has at the beginning
  MaxBlock,          \* bound: number of blocks L1 may have
  SyncChunkSize,     \* blocks of a range, less one
  NumWorkers,        \* clients of L1 that read ranges
  ChannelSize,       \* capacity of the channel to the consumer
  CmdsSize,          \* capacity of the channel of commands to the producer
  MaxDistance,       \* maximumBlockDistanceFromLatestToFinalized
  Width,             \* bound: bits of a block number (64 in the code)
  Patterns,          \* sets of numbers: the blocks of L1 that may have events
  Kinds,             \* the faults a behaviour may have
  MaxFaults          \* bound: number of faults

ASSUME L1SyncAssumption ==
  /\ {GenesisBlockNum, StartLen, MaxBlock, NumWorkers, ChannelSize, CmdsSize} \subseteq Nat \ {0}
  /\ {SyncChunkSize, MaxDistance, Width, MaxFaults} \subseteq Nat
  /\ GenesisBlockNum <= StartLen /\ StartLen <= MaxBlock
  /\ 2^Width \in Nat /\ MaxBlock + SyncChunkSize + 1 < 2^Width
  /\ Kinds \subseteq {"rpc", "process", "crash", "reorg"}

VARIABLES
  chain,       \* L1: its blocks
  pattern,     \* L1: the numbers of the blocks with events
  fork,        \* L1: number of reorganisations so far
  db,          \* table state.block
  status,      \* producer: status, read and written by the main loop too
  prod,        \* producer: what its goroutine is doing
  sync,        \* producer: syncStatus
  filter,      \* producer: filterToSendOrdererResultsToConsumer
  cmds,        \* producer: channelCmds
  workers,     \* what each worker is asked
  responses,   \* chOutgoingRollupInfo
  channel,     \* outgoingChannel of the producer, chIncommingRollupInfo of the consumer
  consumer,    \* l1RollupInfoConsumer
  main,        \* Sync and syncBlocksParallel
  faults       \* faults left and kinds of faults seen

l1Vars == <<chain, pattern, fork>>
prodVars == <<status, prod, sync, filter, cmds, workers, responses>>
vars == <<l1Vars, db, prodVars, channel, consumer, main, faults>>

-----------------------------------------------------------------------------
(* Blocks and ranges                                                       *)

Block == [n : 1..MaxBlock, fork : 0..MaxFaults, event : BOOLEAN]
NoBlock == [n |-> 0]

latestBlockNumber == 2^Width - 1
invalidBlockNumber == 0

\* isValid: a range ends no lower than it starts.
RangeType ==
  {r \in [from : 1..MaxBlock + 1, to : (1..MaxBlock) \cup {latestBlockNumber}] : r.from <= r.to}
NoRange == [from |-> 0, to |-> 0]
NoRequest == [range |-> NoRange, unsafe |-> FALSE]

Overlaps(r, s) == r.from <= s.to /\ s.from <= r.to

\* The block with the highest number.
Highest(blocks) == CHOOSE b \in blocks : \A c \in blocks : c.n <= b.n

\* The last row of the table, which is ordered by block number.
GetLastBlock == Highest(db)

\* getHighestBlockNumberInResponse: invalidBlockNumber for an answer without
\* blocks to a range up to the latest block.
HighestIn(r) ==
  IF r.range.to # latestBlockNumber THEN r.range.to
  ELSE IF r.blocks = {} THEN invalidBlockNumber ELSE Highest(r.blocks).n

HighestBlockReceived(r) ==
  IF r.last # NoBlock THEN r.last
  ELSE IF r.blocks = {} THEN NoBlock ELSE Highest(r.blocks)

\* The control message, with the last block of L1 the producer knows of (for
\* SyncedMeansStored; the code sends no number).
FullySynced(n) == [range |-> NoRange, upTo |-> n]
IsControl(m) == m.range = NoRange

-----------------------------------------------------------------------------
(* The state of the process after a start: the first round of the loop     *)
(* resets the producer to the last block of the database and starts both   *)
(* sides.                                                                  *)

IdleProducer == [pc |-> "select", round |-> 0, allowNew |-> FALSE, launched |-> FALSE]
newSyncStatus ==
  [stored |-> 0, requested |-> 0, lastBlockOnL1 |-> 0, processing |-> {}, errors |-> <<>>]
newFilter == [last |-> 0, pending |-> <<>>]
newConsumer(b) == [pc |-> "ended", processed |-> 0, synced |-> b, received |-> NoBlock]
newMain(b) == [pc |-> "check", last |-> b, to |-> 0]
newWorkers == [w \in 1..NumWorkers |-> NoRequest]

NewBlock(n, f, p) == [n |-> n, fork |-> f, event |-> n \in p]

Init ==
  /\ fork = 0
  /\ pattern \in Patterns
  /\ chain = [n \in 1..StartLen |-> NewBlock(n, 0, pattern)]
  /\ db = {chain[GenesisBlockNum]}
  /\ status = "idle"
  /\ prod = IdleProducer
  /\ sync = newSyncStatus
  /\ filter = newFilter
  /\ cmds = <<GenesisBlockNum>>
  /\ workers = newWorkers
  /\ responses = <<>>
  /\ channel = <<>>
  /\ consumer = newConsumer(chain[GenesisBlockNum])
  /\ main = newMain(chain[GenesisBlockNum])
  /\ faults = [left |-> MaxFaults, seen |-> {}]

\* The process ends, by a crash or by log.Fatal, and is started again.
Restart ==
  /\ status' = "idle"
  /\ prod' = IdleProducer
  /\ sync' = newSyncStatus
  /\ filter' = newFilter
  /\ cmds' = <<GetLastBlock.n>>
  /\ workers' = newWorkers
  /\ responses' = <<>>
  /\ channel' = <<>>
  /\ consumer' = newConsumer(GetLastBlock)
  /\ main' = newMain(GetLastBlock)
  /\ UNCHANGED <<l1Vars, db>>

Fault(kind) ==
  /\ kind \in Kinds
  /\ faults.left > 0
  /\ faults' = [left |-> faults.left - 1, seen |-> faults.seen \cup {kind}]

-----------------------------------------------------------------------------
(* L1                                                                      *)

NewL1Block ==
  /\ Len(chain) < MaxBlock
  /\ chain' = Append(chain, NewBlock(Len(chain) + 1, fork, pattern))
  /\ UNCHANGED <<pattern, fork, db, prodVars, channel, consumer, main, faults>>

\* The blocks above h, none of them final, are replaced by as many other ones.
L1Reorg(h) ==
  /\ Fault("reorg")
  /\ h < Len(chain) /\ h >= Len(chain) - MaxDistance
  /\ fork' = fork + 1
  /\ chain' = [n \in DOMAIN chain |-> IF n <= h THEN chain[n] ELSE NewBlock(n, fork + 1, pattern)]
  /\ UNCHANGED <<pattern, db, prodVars, channel, consumer, main>>

-----------------------------------------------------------------------------
(* A worker.  The calls of one request see one state of L1.                *)

BlocksOf(r) ==
  {chain[n] : n \in {m \in DOMAIN chain : r.from <= m /\ m <= r.to /\ chain[m].event}}

\* mustRequestLastBlock, in the two modes launchWork uses.
mustRequestLastBlock(q, blocks) ==
  q.range.to # latestBlockNumber /\ (q.unsafe \/ blocks = {})

Answered(w, r) ==
  /\ workers' = [workers EXCEPT ![w] = NoRequest]
  /\ responses' = Append(responses, r)
  /\ UNCHANGED <<l1Vars, db, status, prod, sync, filter, cmds, channel, consumer, main>>

executeRequestRollupInfoByBlockRange(w) ==
  LET q == workers[w]
      blocks == BlocksOf(q.range)
  IN  /\ q # NoRequest
      /\ Answered(w, [range |-> q.range, ok |-> TRUE, blocks |-> blocks,
                       last |-> IF mustRequestLastBlock(q, blocks) THEN chain[q.range.to] ELSE NoBlock,
                       prev |-> IF q.unsafe /\ q.range.from > 2 THEN chain[q.range.from - 1] ELSE NoBlock])
      /\ UNCHANGED faults

RequestFails(w) ==
  /\ workers[w] # NoRequest
  /\ Fault("rpc")
  /\ Answered(w, [range |-> workers[w].range, ok |-> FALSE, blocks |-> {},
                  last |-> NoBlock, prev |-> NoBlock])

-----------------------------------------------------------------------------
(* syncStatus                                                              *)

\* Faulty: the ranges that are asked for are forgotten.
getHighestBlockRequested_OnlyErrors(s) == Max({0} \cup {r.to : r \in ToSet(s.errors)})

\* The last block of the ranges that are asked for or to be asked for again.
getHighestBlockRequested(s) ==
  Max({0} \cup {r.to : r \in s.processing} \cup {r.to : r \in ToSet(s.errors)})

\* getNextRangeOnlyRetriesUnsafe drops the first failed range when it is one
\* up to the latest block.
Discard(s) ==
  IF s.errors # <<>> /\ Head(s.errors).to = latestBlockNumber
  THEN [s EXCEPT !.errors = Tail(@)] ELSE s

\* After Discard a range up to the latest block may be first again: it is
\* dropped by the next call, and this call offers a new range.
GetNextRangeOnlyRetries(s) ==
  IF s.errors = <<>> \/ Head(s.errors).to = latestBlockNumber THEN NoRange ELSE Head(s.errors)

NewRange(s) ==
  LET high == getHighestBlockRequested(Discard(s))
      from == Max({s.stored, high}) + 1
      to   == Min({s.lastBlockOnL1, from + SyncChunkSize})
  IN  IF \/ s.lastBlockOnL1 = invalidBlockNumber
         \/ s.lastBlockOnL1 <= s.requested
         \/ high = latestBlockNumber
      THEN NoRange
      ELSE [from |-> from, to |-> IF to = s.lastBlockOnL1 THEN latestBlockNumber ELSE to]

GetNextRange(s, allowNew) ==
  LET retry == GetNextRangeOnlyRetries(s)
  IN  IF retry = NoRange /\ allowNew THEN NewRange(s) ELSE retry

\* The first range that equals r.
removeBlockRange(ranges, r) ==
  LET equal == {i \in DOMAIN ranges : ranges[i] = r}
  IN  IF equal = {} THEN ranges ELSE RemoveAt(ranges, Min(equal))

OnStartedNewWorker(s, r) ==
  [s EXCEPT !.errors = removeBlockRange(@, r),
            !.processing = @ \cup {r},
            !.requested = IF r.to = latestBlockNumber THEN s.lastBlockOnL1 ELSE Max({@, r.to})]

HaveRequiredAllBlocksToBeSynchronized(s) == s.lastBlockOnL1 <= s.requested

\* Faulty: the ranges that workers still read do not count.
IsNodeFullySynchronizedWithL1_Eager(s) ==
  /\ s.lastBlockOnL1 # invalidBlockNumber
  /\ s.lastBlockOnL1 <= s.requested
  /\ s.errors = <<>>

IsNodeFullySynchronizedWithL1(s) ==
  /\ s.lastBlockOnL1 # invalidBlockNumber
  /\ s.lastBlockOnL1 <= s.requested
  /\ s.errors = <<>> /\ s.processing = {}

\* The distance is computed in unsigned numbers.
BlockNumberIsInsideUnsafeArea(s, n) == (s.lastBlockOnL1 - n) % 2^Width < MaxDistance

OnNewLastBlockOnL1(s, n) == [s EXCEPT !.lastBlockOnL1 = Max({@, n})]

-----------------------------------------------------------------------------
(* The producer.  step takes a command, an answer, or neither when its     *)
(* timeout ends, and then acts on its status.                              *)

others == <<l1Vars, db, consumer, main, faults>>

At(pc) == prod.pc = pc
Goto(pc) == prod' = [IdleProducer EXCEPT !.pc = pc]

\* Reset of syncStatus: the failed ranges and the last block of L1 are kept.
ResetSync(s, n) == [s EXCEPT !.stored = n, !.requested = n, !.processing = {}]

\* The workers go on: stop of the decorator only clears its cache.
resetUnsafe ==
  /\ At("select")
  /\ cmds # <<>>
  /\ sync' = ResetSync(sync, Head(cmds))
  /\ filter' = [last |-> Head(cmds), pending |-> <<>>]
  /\ channel' = <<>>
  /\ status' = "idle"
  /\ cmds' = Tail(cmds)
  /\ Goto("switch")
  /\ UNCHANGED <<others, workers, responses>>

\* OnFinishWorker with a range that is not valid any more changes nothing.
Ignored(r) == status = "reseting" \/ r.range \notin sync.processing

onResponseRollupInfo ==
  LET r == Head(responses)
  IN  /\ At("select")
      /\ responses # <<>>
      /\ ~Ignored(r)
      /\ r.ok
      /\ sync' = [sync EXCEPT !.processing = @ \ {r.range}, !.stored = Max({@, HighestIn(r)})]
      /\ filter' = [filter EXCEPT !.pending = Append(@, r)]
      /\ responses' = Tail(responses)
      /\ Goto("send")
      /\ UNCHANGED <<others, status, cmds, workers, channel>>

\* Faulty: a range that failed is not asked for again.
onResponseError_Forgets ==
  LET r == Head(responses)
  IN  /\ At("select")
      /\ responses # <<>>
      /\ ~Ignored(r)
      /\ ~r.ok
      /\ sync' = [sync EXCEPT !.processing = @ \ {r.range}]
      /\ responses' = Tail(responses)
      /\ Goto("switch")
      /\ UNCHANGED <<others, status, filter, cmds, workers, channel>>

onResponseError ==
  LET r == Head(responses)
  IN  /\ At("select")
      /\ responses # <<>>
      /\ ~Ignored(r)
      /\ ~r.ok
      /\ sync' = [sync EXCEPT !.processing = @ \ {r.range}, !.errors = Append(@, r.range)]
      /\ responses' = Tail(responses)
      /\ Goto("switch")
      /\ UNCHANGED <<others, status, filter, cmds, workers, channel>>

onResponseIgnored ==
  /\ At("select")
  /\ responses # <<>>
  /\ Ignored(Head(responses))
  /\ responses' = Tail(responses)
  /\ Goto("switch")
  /\ UNCHANGED <<others, status, sync, filter, cmds, workers, channel>>

\* The first waiting answer that is the next one for the consumer.
matchNextBlock(r) == r.range.from = filter.last + 1

sendResultIfPossible ==
  LET next == {i \in DOMAIN filter.pending : matchNextBlock(filter.pending[i])}
      i == Min(next)
      r == filter.pending[i]
  IN  /\ At("send")
      /\ next # {}
      /\ Len(channel) < ChannelSize
      /\ filter' = [last |-> IF HighestIn(r) = invalidBlockNumber THEN filter.last ELSE HighestIn(r),
                    pending |-> RemoveAt(filter.pending, i)]
      /\ channel' = Append(channel, r)
      /\ UNCHANGED <<others, status, prod, sync, cmds, workers, responses>>

\* canISendNewRequestsUnsafe, looked at once for a call of launchWork.
canISendNewRequests == Len(filter.pending) + Len(channel) <= ChannelSize

LaunchIn(round) ==
  prod' = [pc |-> "launch", round |-> round, allowNew |-> canISendNewRequests, launched |-> FALSE]

\* renewLastBlockOnL1IfNeeded: nothing happens when the value is fresh, or
\* when every try of the call has failed.
renewLastBlockOnL1IfNeeded == sync' \in {sync, OnNewLastBlockOnL1(sync, Len(chain))}

\* The timeout of step, or the end of what it did with a command or an answer.
Handled ==
  \/ prod.pc \in {"select", "switch"}
  \/ At("send") /\ \A i \in DOMAIN filter.pending : ~matchNextBlock(filter.pending[i])

Switch ==
  /\ Handled
  /\ \/ status = "idle" /\ Goto("idle") /\ UNCHANGED sync
     \/ status = "working" /\ LaunchIn(1) /\ UNCHANGED sync
     \/ status = "synchronized" /\ renewLastBlockOnL1IfNeeded /\ LaunchIn(3)
     \/ status = "reseting" /\ Goto("select") /\ UNCHANGED sync
  /\ UNCHANGED <<others, status, filter, cmds, workers, responses, channel>>

StepIdle ==
  /\ At("idle")
  /\ renewLastBlockOnL1IfNeeded
  /\ status' = IF sync'.lastBlockOnL1 # invalidBlockNumber /\ sync.stored # invalidBlockNumber
               THEN "working" ELSE status
  /\ Goto("select")
  /\ UNCHANGED <<others, filter, cmds, workers, responses, channel>>

IdleWorkers == {w \in 1..NumWorkers : workers[w] = NoRequest}

\* One turn of the loop of launchWork.
launchWork ==
  LET r == GetNextRange(sync, prod.allowNew)
      s == Discard(sync)
  IN  /\ At("launch")
      /\ r # NoRange /\ IdleWorkers # {}
      /\ workers' = [workers EXCEPT ![Min(IdleWorkers)] =
                       [range |-> r, unsafe |-> BlockNumberIsInsideUnsafeArea(sync, r.from)]]
      /\ sync' = OnStartedNewWorker(s, r)
      /\ prod' = [prod EXCEPT !.launched = TRUE]
      /\ UNCHANGED <<others, status, filter, cmds, responses, channel>>

NothingToLaunch == GetNextRange(sync, prod.allowNew) = NoRange \/ IdleWorkers = {}

\* The end of the second call in status working, and of the one in status
\* synchronized.
LaunchedAll ==
  /\ At("launch") /\ prod.round # 1
  /\ NothingToLaunch
  /\ sync' = Discard(sync)
  /\ Goto("select")
  /\ status' = IF prod.round = 3 /\ prod.launched THEN "working" ELSE status
  /\ UNCHANGED <<others, filter, cmds, workers, responses, channel>>

\* The end of the first call in status working.  setStatus announces the
\* change to synchronized.
StepWorking ==
  LET s == Discard(sync)
      renew == \/ HaveRequiredAllBlocksToBeSynchronized(s)
               \/ BlockNumberIsInsideUnsafeArea(s, s.requested)
  IN  /\ At("launch") /\ prod.round = 1
      /\ NothingToLaunch
      /\ sync' \in {s} \cup (IF renew THEN {OnNewLastBlockOnL1(s, Len(chain))} ELSE {})
      /\ IF IsNodeFullySynchronizedWithL1(sync')
         THEN /\ status' = "synchronized"
              /\ Goto(IF status = "synchronized" THEN "select" ELSE "announce")
         ELSE LaunchIn(2) /\ UNCHANGED status
      /\ UNCHANGED <<others, filter, cmds, workers, responses, channel>>

Announce ==
  /\ At("announce")
  /\ Len(channel) < ChannelSize
  /\ channel' = Append(channel, FullySynced(sync.lastBlockOnL1))
  /\ Goto("select")
  /\ UNCHANGED <<others, status, sync, filter, cmds, workers, responses>>

Producer ==
  \/ resetUnsafe \/ onResponseRollupInfo \/ onResponseError \/ onResponseIgnored
  \/ sendResultIfPossible \/ Switch \/ StepIdle \/ StepWorking
  \/ launchWork \/ LaunchedAll \/ Announce

-----------------------------------------------------------------------------
(* The consumer                                                            *)

consumerOnly == <<l1Vars, prodVars, main>>

Take(c) == consumer' = c /\ channel' = Tail(channel)

Incoming(isData) ==
  /\ consumer.pc = "run"
  /\ channel # <<>>
  /\ isData = ~IsControl(Head(channel))

processIncommingRollupControlData ==
  /\ Incoming(FALSE)
  /\ Take([consumer EXCEPT !.pc = IF Tail(channel) = <<>> THEN "ended" ELSE @])
  /\ UNCHANGED <<consumerOnly, db, faults>>

\* Faulty: every range is taken for the next one.
WrongBlockRange_Never(r) == FALSE

\* A range that does not follow the last one is only logged.
WrongBlockRange(r) ==
  consumer.processed # invalidBlockNumber /\ consumer.processed + 1 # r.range.from

IgnoreRange ==
  /\ Incoming(TRUE)
  /\ WrongBlockRange(Head(channel))
  /\ Take(consumer)
  /\ UNCHANGED <<consumerOnly, db, faults>>

\* The block before the range is not the one that was received last.
checkPreviousBlocks(r) ==
  /\ consumer.received # NoBlock /\ r.prev # NoBlock
  /\ consumer.received.n = r.prev.n /\ consumer.received # r.prev

FindReorg ==
  LET r == Head(channel)
  IN  /\ Incoming(TRUE)
      /\ ~WrongBlockRange(r)
      /\ checkPreviousBlocks(r)
      /\ Take([consumer EXCEPT !.processed = HighestIn(r), !.pc = "failed"])
      /\ UNCHANGED <<consumerOnly, db, faults>>

BlocksToStore(r) ==
  IF r.blocks # {} THEN r.blocks ELSE IF r.last # NoBlock THEN {r.last} ELSE {}

\* Every block is committed on its own; AddBlock refuses a number the table has.
Storable(blocks) == \A b \in blocks, c \in db : b.n # c.n

processBlockRange(r, blocks, pc) ==
  /\ Incoming(TRUE)
  /\ ~WrongBlockRange(r)
  /\ ~checkPreviousBlocks(r)
  /\ db' = db \cup blocks
  /\ Take([pc |-> pc, processed |-> HighestIn(r), received |-> HighestBlockReceived(r),
           synced |-> IF pc = "run" /\ blocks # {} THEN Highest(blocks) ELSE consumer.synced])
  /\ UNCHANGED consumerOnly

processIncommingRollupInfoData ==
  LET r == Head(channel)
  IN  /\ processBlockRange(r, BlocksToStore(r), "run")
      /\ Storable(BlocksToStore(r))
      /\ UNCHANGED faults

\* The processing of a block fails after the ones before it are stored.
ProcessingFails ==
  /\ Incoming(TRUE)
  /\ LET blocks == BlocksToStore(Head(channel))
     IN  \E b \in blocks :
           LET done == {c \in blocks : c.n < b.n}
           IN  /\ processBlockRange(Head(channel), done, "failed")
               /\ Storable(done)
               /\ \/ Fault("process")
                  \/ ~Storable({b}) /\ UNCHANGED faults

Consumer ==
  \/ processIncommingRollupControlData \/ IgnoreRange \/ FindReorg
  \/ processIncommingRollupInfoData \/ ProcessingFails

-----------------------------------------------------------------------------
(* The main loop                                                           *)

mainOnly == <<l1Vars, prod, sync, filter, workers, responses>>

\* checkReorg: L1 still has the block.
OnChain(b) == chain[b.n] = b \/ b.n <= GenesisBlockNum

\* The last stored block that L1 still has.  The search goes on from the end of the table,
\* whatever block it started with, and passes over the last row.
Agreed == Highest({b \in db : b.n < GetLastBlock.n /\ OnChain(b)})

\* syncBlocksParallel without a reorganisation: the consumer starts.
Start ==
  /\ main.pc = "check"
  /\ OnChain(main.last)
  /\ consumer' = [consumer EXCEPT !.pc = "run", !.synced = main.last,
                    !.processed = IF @ = invalidBlockNumber THEN main.last.n ELSE @]
  /\ main' = [main EXCEPT !.pc = "wait"]
  /\ UNCHANGED <<mainOnly, db, status, cmds, channel, faults>>

resetState ==
  /\ main.pc = "check"
  /\ ~OnChain(main.last)
  /\ db' = {b \in db : b.n <= Agreed.n}
  /\ main' = [pc |-> "reset", last |-> Agreed, to |-> Agreed.n]
  /\ UNCHANGED <<mainOnly, status, cmds, channel, consumer, faults>>

\* After an error the loop goes on from the database.
Resume == main' = [pc |-> "reset", last |-> GetLastBlock, to |-> GetLastBlock.n]

checkReorgError ==
  /\ main.pc = "check"
  /\ Fault("rpc")
  /\ Resume
  /\ UNCHANGED <<mainOnly, db, status, cmds, channel, consumer>>

\* Reset of the consumer, and of the producer up to its command.
reset ==
  /\ main.pc = "reset"
  /\ consumer' = [consumer EXCEPT !.processed = main.to, !.synced = NoBlock]
  /\ status' = "reseting"
  /\ channel' = <<>>
  /\ main' = [main EXCEPT !.pc = "queue"]
  /\ UNCHANGED <<mainOnly, db, cmds, faults>>

QueueReset ==
  /\ main.pc = "queue"
  /\ Len(cmds) < CmdsSize
  /\ cmds' = Append(cmds, main.to)
  /\ main' = [main EXCEPT !.pc = "check"]
  /\ UNCHANGED <<mainOnly, db, status, channel, consumer, faults>>

orchestrate ==
  /\ main.pc = "wait"
  /\ \/ /\ consumer.pc = "ended"
        /\ main' = [main EXCEPT !.pc = "check", !.last = consumer.synced]
     \/ consumer.pc = "failed" /\ Resume
  /\ UNCHANGED <<mainOnly, db, status, cmds, channel, consumer, faults>>

Main == Start \/ resetState \/ checkReorgError \/ reset \/ QueueReset \/ orchestrate

Crash == Fault("crash") /\ Restart

Next ==
  \/ NewL1Block
  \/ \E h \in GenesisBlockNum..MaxBlock - 1 : L1Reorg(h)
  \/ \E w \in 1..NumWorkers : executeRequestRollupInfoByBlockRange(w) \/ RequestFails(w)
  \/ Producer \/ Consumer \/ Main
  \/ Crash

\* Every goroutine goes on, and so does L1.  The producer takes what its channels hold, as
\* select chooses among the ready ones at random, and asks for the last
\* block of L1 again when the value it has is old.
Fairness ==
  /\ WF_vars(Producer)
  /\ SF_vars(resetUnsafe)
  /\ SF_vars(onResponseRollupInfo \/ onResponseError \/ onResponseIgnored)
  /\ SF_vars((StepIdle \/ StepWorking \/ Switch) /\ sync'.lastBlockOnL1 # sync.lastBlockOnL1)
  /\ \A w \in 1..NumWorkers : WF_vars(executeRequestRollupInfoByBlockRange(w))
  /\ WF_vars(Consumer)
  /\ WF_vars(Main)
  /\ WF_vars(NewL1Block)

Spec == Init /\ [][Next]_vars /\ Fairness

-----------------------------------------------------------------------------
Request == [range : RangeType, unsafe : BOOLEAN]
Response ==
  [range : RangeType, ok : BOOLEAN, blocks : SUBSET Block,
   last : Block \cup {NoBlock}, prev : Block \cup {NoBlock}]
SyncStatus ==
  [stored : 0..MaxBlock, requested : 0..MaxBlock, lastBlockOnL1 : 0..MaxBlock,
   processing : SUBSET RangeType, errors : Seq(RangeType)]

\* The channels keep within their capacity and every part holds values of
\* its type.
TypeOK ==
  /\ chain \in Seq(Block) /\ pattern \in Patterns /\ fork \in 0..MaxFaults
  /\ db \in SUBSET Block
  /\ status \in {"idle", "working", "synchronized", "reseting"}
  /\ prod \in [pc : {"select", "send", "switch", "idle", "launch", "announce"},
               round : 0..3, allowNew : BOOLEAN, launched : BOOLEAN]
  /\ sync \in SyncStatus
  /\ filter \in [last : 0..MaxBlock, pending : Seq(Response)]
  /\ cmds \in Seq(1..MaxBlock) /\ Len(cmds) <= CmdsSize
  /\ workers \in [1..NumWorkers -> Request \cup {NoRequest}]
  /\ responses \in Seq(Response)
  /\ channel \in Seq(Response \cup {FullySynced(n) : n \in 1..MaxBlock}) /\ Len(channel) <= ChannelSize
  /\ consumer \in [pc : {"run", "ended", "failed"}, processed : 0..MaxBlock,
                   synced : Block \cup {NoBlock}, received : Block \cup {NoBlock}]
  /\ main \in [pc : {"check", "reset", "queue", "wait"}, last : Block, to : 0..MaxBlock]
  /\ faults \in [left : 0..MaxFaults, seen : SUBSET Kinds]

StoredUpTo(p) == \A n \in GenesisBlockNum..p : chain[n].event => chain[n] \in db

\* Until L1 is reorganised, every block of L1 with events up to the last stored
\* one is stored: whatever the order of the answers, the failures and the
\* resets, no event is skipped.
NoEventSkipped == "reorg" \notin faults.seen => StoredUpTo(GetLastBlock.n)

\* The block before the next message to the consumer.
Position ==
  LET data == {i \in DOMAIN channel : ~IsControl(channel[i])}
  IN  IF data = {} THEN filter.last ELSE channel[Min(data)].range.from - 1

\* The consumer waits for the range that comes next, or for any range.
InStep == consumer.processed \in {invalidBlockNumber, Position}

EndsSynced == consumer.pc = "run" /\ consumer'.pc = "ended" /\ faults'.seen = {}

\* When a consumer in step with the producer stops because everything is
\* synchronised, the events up to the last block the producer knew of are
\* stored.
SyncedMeansStored == [][EndsSynced /\ InStep => StoredUpTo(Head(channel).upTo)]_vars

Stored(n) == \E b \in db : b.n = n

\* The consumer has been started at the last stored block while the producer
\* goes on from a later one, and no reset is on its way: it ignores every
\* range from here on.
LostItsPlace == main.pc = "wait" /\ consumer.pc # "failed" /\ cmds = <<>> /\ ~InStep

\* Every event of L1 is stored in the end unless something else fails: after
\* failed calls to L1 and crashes too, as long as L1 goes on, since a failed
\* range up to the latest block is only asked for again when L1 has grown, and
\* as long as the consumer keeps its place.
EventuallyStored ==
  \A n \in UNION Patterns, left \in 0..MaxFaults :
    (/\ n <= Len(chain) /\ chain[n].event
     /\ faults.left = left
     /\ faults.seen = {} \/ Len(chain) < MaxBlock) ~>
      (Stored(n) \/ faults.left < left \/ LostItsPlace)

\* addBlockRange of live_block_ranges never gets a range that overlaps one it
\* has, in processingRanges or in errorRanges: the code ends the process with
\* log.Fatal when it does.
NoOverlap ==
  /\ \A i, j \in DOMAIN sync.errors : i # j => ~Overlaps(sync.errors[i], sync.errors[j])
  /\ At("launch") /\ ~NothingToLaunch =>
       \A e \in sync.processing : ~Overlaps(e, GetNextRange(sync, prod.allowNew))
=============================================================================

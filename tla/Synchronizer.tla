---------------------------- MODULE Synchronizer ----------------------------
(***************************************************************************)
(* How a node that is not the trusted sequencer builds its batches         *)
(* (synchronizer/synchronizer.go and the tables of state/pgstatestorage).  *)
(* It has two sources: the trusted node, which shows batches while they    *)
(* are still open, and L1, which has the last word.  The loop Sync asks    *)
(* one and then the other; what it remembers between two rounds is the     *)
(* last trusted batch and the state root inside it.                        *)
(*                                                                         *)
(* How blocks are fetched from L1 is the subject of L1Sync; here they come *)
(* one by one, each with one event.  A state root is what it commits to,   *)
(* the transactions executed so far.  The data of a batch are its          *)
(* transactions; stamp stands for the fields that do not influence the     *)
(* root: who made the batch and when.                                      *)
(***************************************************************************)
EXTENDS Integers, Sequences, FiniteSets, SequencesExt, FiniteSetsExt, Functions

CONSTANTS
  MaxBatch,    \* bound: number of batches
  MaxTxs,      \* bound: transactions of a batch
  MaxBlocks,   \* bound: number of L1 blocks with events
  MaxForced,   \* bound: number of forced batches
  ForcedData,  \* what forced batches contain
  Kinds,       \* what may go wrong
  MaxFaults    \* bound: how often

ASSUME SynchronizerAssumption ==
  /\ {MaxBatch, MaxTxs, MaxBlocks} \subseteq Nat \ {0}
  /\ {MaxForced, MaxFaults} \subseteq Nat
  /\ ForcedData \subseteq Seq({"f"})
  /\ Kinds \subseteq {"error", "crash", "reorg", "takeover"}

VARIABLES
  trusted,  \* the batches the trusted node shows
  chain,    \* L1: the blocks with events
  db,       \* the tables of the state database
  known,    \* trustedState: lastTrustedBatches and lastStateRoot
  loop,     \* where Sync is, and its local variables
  faults    \* faults left and the kinds seen

vars == <<trusted, chain, db, known, loop, faults>>

-----------------------------------------------------------------------------
(* Batches and the executor.                                               *)

\* The zero hash, which is the root of a batch that is open, and no root at all.
NoRoot == <<"zero">>
Nil == <<"nil">>
Exec(root, data) == root \o data

Genesis == [n |-> 0, data |-> <<>>, forced |-> 0, stamp |-> "genesis", root |-> <<>>, txs |-> <<>>]
NoBatch == [n |-> -1]

\* Row n of state.batch, with the transactions of its L2 blocks.
GetBatchByNumber(d, n) ==
  CASE n = 0 -> Genesis
    [] n \in DOMAIN d.batches -> d.batches[n]
    [] OTHER -> NoBatch
GetLastBatchNumber(d) == Len(d.batches)
IsBatchClosed(d, n) == GetBatchByNumber(d, n).root # NoRoot

-----------------------------------------------------------------------------
(* L1.  A block with the event "forced" asks for a forced batch; one with  *)
(* "sequenced" or "takeover" has the batches that are sequenced; one with  *)
(* "verified" the number and the root that are proved.                     *)

Block(event, batches, n, root) ==
  [fork |-> Cardinality({k \in {"reorg"} : k \in faults.seen}),
   event |-> event, batches |-> batches, n |-> n, root |-> root]

Batches(blocks) ==
  FlattenSeq([i \in DOMAIN blocks |->
                IF blocks[i].event = "forced" THEN <<>> ELSE blocks[i].batches])
Forced(blocks) ==
  FlattenSeq([i \in DOMAIN blocks |->
                IF blocks[i].event = "forced" THEN <<blocks[i].batches[1].data>> ELSE <<>>])
RootOf(batches) == FlattenSeq([i \in DOMAIN batches |-> batches[i].data])
LastVerified(blocks) == Max({0} \cup {b.n : b \in ToSet(blocks)})
LastForced(batches) == Max({0} \cup {b.forced : b \in batches})

Content(b) == [n |-> b.n, data |-> b.data, forced |-> b.forced, stamp |-> b.stamp]
Contents(batches) == [i \in DOMAIN batches |-> Content(batches[i])]

\* The trusted node has seen what L1 has.
Agreed == IsPrefix(Batches(chain), Contents(trusted))

Init ==
  /\ trusted = <<>>
  /\ chain = <<>>
  /\ db = [blocks |-> <<>>, batches |-> <<>>, virtual |-> <<>>, verified |-> <<>>,
           sequences |-> <<>>]
  /\ known = [batches |-> <<>>, root |-> Nil]
  /\ loop = [pc |-> "start", synced |-> 0, last |-> 0]
  /\ faults = [left |-> MaxFaults, seen |-> {}]

Fault(kind) ==
  /\ kind \in Kinds
  /\ faults.left > 0
  /\ faults' = [left |-> faults.left - 1, seen |-> faults.seen \cup {kind}]

-----------------------------------------------------------------------------
(* The trusted node and L1.                                                *)

L1Only == UNCHANGED <<trusted, db, known, loop>>
TrustedOnly == UNCHANGED <<chain, db, known, loop, faults>>

LastClosed == trusted # <<>> => Last(trusted).closed

NewBatch(data, k, closed) ==
  [n |-> Len(trusted) + 1, data |-> data, forced |-> k, stamp |-> "sequencer", closed |-> closed]

SequencerOpens ==
  /\ LastClosed /\ Len(trusted) < MaxBatch
  /\ trusted' = Append(trusted, NewBatch(<<>>, 0, FALSE))
  /\ TrustedOnly

SequencerExecutes ==
  /\ ~LastClosed /\ Len(Last(trusted).data) < MaxTxs
  /\ trusted' = [trusted EXCEPT ![Len(trusted)].data = Append(@, "a")]
  /\ TrustedOnly

SequencerCloses ==
  /\ ~LastClosed
  /\ trusted' = [trusted EXCEPT ![Len(trusted)].closed = TRUE]
  /\ TrustedOnly

SequencerForces ==
  LET k == LastForced(ToSet(trusted)) + 1
  IN  /\ LastClosed /\ Len(trusted) < MaxBatch
      /\ k \in DOMAIN Forced(chain)
      /\ trusted' = Append(trusted, NewBatch(Forced(chain)[k], k, TRUE))
      /\ TrustedOnly

\* The trusted node is itself synchronised with L1 and gives up what L1 has
\* otherwise.
SequencerFollows ==
  LET b == Batches(chain)
  IN  /\ ~Agreed
      /\ trusted' = [i \in DOMAIN b |-> b[i] @@ [closed |-> TRUE]]
      /\ TrustedOnly

Mine(b) == chain' = Append(chain, b) /\ L1Only

\* Room for sequencing every batch in a block of its own is kept.
HasRoom == Len(chain) + MaxBatch - Len(Batches(chain)) < MaxBlocks

\* The sequence sender sends closed batches, one or two at a time.
SequenceBatches ==
  LET from == Len(Batches(chain)) + 1
  IN  /\ Agreed
      /\ \E to \in from..(from + 1) :
           /\ to <= Len(trusted) /\ trusted[to].closed
           /\ Mine(Block("sequenced", Contents(SubSeq(trusted, from, to)), 0, NoRoot))
      /\ UNCHANGED faults

ForceBatch ==
  /\ HasRoom /\ Len(Forced(chain)) < MaxForced
  /\ \E data \in ForcedData :
       Mine(Block("forced", <<[data |-> data]>>, 0, NoRoot))
  /\ UNCHANGED faults

\* Nobody has sequenced a forced batch in time and somebody else does.
SequenceForceBatches ==
  LET b == Batches(chain)
      k == LastForced(ToSet(b)) + 1
  IN  /\ Len(b) < MaxBatch /\ Len(chain) < MaxBlocks
      /\ k \in DOMAIN Forced(chain)
      /\ Fault("takeover")
      /\ Mine(Block("takeover", <<[n |-> Len(b) + 1, data |-> Forced(chain)[k], forced |-> k,
                                   stamp |-> "other"]>>, 0, NoRoot))

VerifyBatches ==
  LET b == Batches(chain)
  IN  /\ HasRoom
      /\ \E n \in (LastVerified(chain) + 1)..Len(b) :
           Mine(Block("verified", <<>>, n, RootOf(SubSeq(b, 1, n))))
      /\ UNCHANGED faults

\* L1 takes blocks back, not between checkReorg and the blocks read after it.
\* A request for a forced batch is final before anybody uses it.
Reorg ==
  /\ loop.pc # "blocks"
  /\ Fault("reorg")
  /\ \E i \in 0..(Len(chain) - 1) :
       /\ \A j \in (i + 1)..Len(chain) : chain[j].event # "forced"
       /\ chain' = SubSeq(chain, 1, i)
  /\ L1Only

L1 == ForceBatch \/ SequenceForceBatches \/ VerifyBatches \/ Reorg
Trusted == SequencerOpens \/ SequencerExecutes \/ SequencerCloses \/ SequencerForces

-----------------------------------------------------------------------------
(* The state database.  Rows go away with the rows they refer to.          *)

OnlyUpTo(f, n) == Restrict(f, {i \in DOMAIN f : i <= n})

ResetTrustedState(d, n) ==
  [d EXCEPT !.batches = SubSeq(@, 1, n), !.virtual = OnlyUpTo(@, n), !.verified = OnlyUpTo(@, n),
            !.sequences = Restrict(@, {from \in DOMAIN @ : @[from] <= n})]

\* Bug: virtual batches do not go with their block.
Reset_KeepsVirtual(d, i) ==
  [d EXCEPT !.blocks = SubSeq(@, 1, i),
            !.verified = Restrict(@, {n \in DOMAIN @ : @[n] <= i})]

\* Reset: the L1 blocks above a number, and what was read in them.
Reset(d, i) ==
  LET stays(f) == {n \in DOMAIN f : f[n] <= i}
  IN  [d EXCEPT !.blocks = SubSeq(@, 1, i),
                !.virtual = Restrict(@, stays(@)),
                !.verified = Restrict(@, stays(@) \cap stays(d.virtual))]

Openable(d, b) ==
  /\ b.n = GetLastBatchNumber(d) + 1
  /\ IsBatchClosed(d, b.n - 1)
  /\ b.forced \in 0..Len(Forced(d.blocks))

OpenBatch(d, b) == [d EXCEPT !.batches = Append(@, Content(b) @@ [root |-> NoRoot, txs |-> <<>>])]

\* Execution on the batch before, transactions stored, batch closed.
ProcessAndStoreClosedBatch(d, b) ==
  [d EXCEPT !.batches =
     Append(@, Content(b) @@ [root |-> Exec(GetBatchByNumber(d, b.n - 1).root, b.data),
                              txs |-> b.data])]

GetLastVirtualBatchNum(d) == Max({0} \cup DOMAIN d.virtual)

\* GetNextForcedBatches: the one after the last that is in a virtual batch.
GetNextForcedBatch(d) == LastForced({d.batches[n] : n \in DOMAIN d.virtual}) + 1

-----------------------------------------------------------------------------
(* The events of L1, in one database transaction per block.  forget says   *)
(* that what is known of the trusted state is dropped, also when the       *)
(* transaction is rolled back.                                             *)

Failed(forget) == [ok |-> FALSE, db |-> db, forget |-> forget]
Stored(d, forget) == [ok |-> TRUE, db |-> d, forget |-> forget]

\* The forced batch that is sequenced is the next one the database knows.
MatchesForced(d, b) ==
  LET k == GetNextForcedBatch(d)
  IN  k \in DOMAIN Forced(d.blocks) /\ b.forced = k /\ b.data = Forced(d.blocks)[k]

AddVirtualBatch(d, b) == [d EXCEPT !.virtual = (b.n :> Len(d.blocks)) @@ @]
AddSequence(d, batches) ==
  [d EXCEPT !.sequences = (batches[1].n :> Last(batches).n) @@ @]

\* The trusted batch differs from the one of L1, or is incomplete.
checkTrustedState(d, b) ==
  LET t == GetBatchByNumber(d, b.n)
  IN  \/ t.root # Exec(GetBatchByNumber(d, b.n - 1).root, b.data)
      \/ t.data # b.data
      \/ t.stamp # b.stamp

processSequencedBatch(r, b) ==
  LET d == r.db
      found == b.n <= GetLastBatchNumber(d)
      differs == found /\ checkTrustedState(d, b)
      base == IF differs THEN ResetTrustedState(d, b.n - 1) ELSE d
  IN  CASE ~r.ok -> r
        [] b.forced > 0 /\ ~MatchesForced(d, b) -> Failed(r.forget)
        [] ~(found /\ ~differs) /\ ~Openable(base, b) -> Failed(r.forget \/ differs)
        [] b.n \in DOMAIN base.virtual -> Failed(r.forget \/ differs)
        [] OTHER -> Stored(AddVirtualBatch(IF found /\ ~differs THEN d
                                           ELSE ProcessAndStoreClosedBatch(base, b), b),
                           r.forget \/ differs)

processSequenceBatches(d, batches) ==
  LET r == FoldLeft(processSequencedBatch, Stored(d, FALSE), batches)
  IN  IF r.ok THEN [r EXCEPT !.db = AddSequence(@, batches)] ELSE r

\* Whatever the trusted state has beyond the virtual batches is dropped.
processSequenceForceBatch(d, b) ==
  LET base == ResetTrustedState(d, GetLastVirtualBatchNum(d))
  IN  IF MatchesForced(base, b) /\ Openable(base, b)
      THEN Stored(AddSequence(AddVirtualBatch(ProcessAndStoreClosedBatch(base, b), b), <<b>>), TRUE)
      ELSE Failed(TRUE)

processTrustedVerifyBatches(d, n, root) ==
  LET new == (Max({0} \cup DOMAIN d.verified) + 1)..n
  IN  IF GetBatchByNumber(d, n) # NoBatch /\ GetBatchByNumber(d, n).root = root
         /\ new \subseteq DOMAIN d.virtual
      THEN Stored([d EXCEPT !.verified = [i \in new |-> Len(d.blocks)] @@ @], FALSE)
      ELSE Failed(FALSE)

processBlock(b) ==
  LET d == [db EXCEPT !.blocks = Append(@, b)]
  IN  CASE b.event = "sequenced" -> processSequenceBatches(d, b.batches)
        [] b.event = "takeover" -> processSequenceForceBatch(d, b.batches[1])
        [] b.event = "verified" -> processTrustedVerifyBatches(d, b.n, b.root)
        [] OTHER -> Stored(d, FALSE)

-----------------------------------------------------------------------------
(* A batch of the trusted node.                                            *)

\* getCurrentBatches: the batch and the one before, from memory if they are
\* there.
getCurrentBatches(n) ==
  LET cached == known.batches # <<>> /\ known.batches[1] # NoBatch
      before == IF cached /\ known.batches[1].n = n - 1 THEN known.batches[1]
                ELSE GetBatchByNumber(db, n - 1)
  IN  IF cached /\ known.batches[1].n = n THEN known.batches
      ELSE <<GetBatchByNumber(db, n), before>>

\* The root the new transactions are executed on.
oldStateRoot(cur) ==
  CASE cur[1] # NoBatch /\ cur[1].root # NoRoot -> cur[1].root
    [] known.root = Nil -> cur[2].root
    [] OTHER -> known.root

\* Bug: the root is not compared, so a batch that was closed looks the same.
checkIfSynced_AnyRoot(b, t) == b.data = t.data /\ b.stamp = t.stamp

checkIfSynced(b, t) == b.data = t.data /\ b.stamp = t.stamp /\ b.root = t.root

\* isBatchClosable, with the error for a batch that is closed ignored.
Closable(d, n) == GetLastBatchNumber(d) = n
CloseBatch(d, t) ==
  IF IsBatchClosed(d, t.n) THEN d
  ELSE [d EXCEPT !.batches[t.n].root = t.root, !.batches[t.n].data = t.data]

Processed(d, batches, root) == [ok |-> TRUE, db |-> d, batches |-> batches, root |-> root]
Refused == [ok |-> FALSE]

\* Executes data on root in the batch, and closes it if it is closed there.
processAndStoreTxs(d, t, cur, root, data) ==
  LET new == Exec(root, data)
      d1 == [d EXCEPT !.batches[t.n].data = t.data, !.batches[t.n].txs = @ \o data]
      b == IF cur[1] = NoBatch THEN NoBatch
           ELSE [cur[1] EXCEPT !.data = t.data, !.root = IF t.root = NoRoot THEN @ ELSE t.root]
  IN  CASE t.root = NoRoot -> Processed(d1, <<b, cur[2]>>, new)
        [] t.root = new /\ Closable(d1, t.n) -> Processed(CloseBatch(d1, t), <<b, cur[2]>>, new)
        [] OTHER -> Refused

\* Bug: the whole batch is executed on the root of its last transaction.
txsToBeAdded_All(b, t) == t.data

\* Those of the trusted batch that come after the stored ones.
txsToBeAdded(b, t) == SubSeq(t.data, Len(b.data) + 1, Len(t.data))

processTrustedBatch(t) ==
  LET cur == getCurrentBatches(t.n)
      b == cur[1]
      root == oldStateRoot(cur)
      base == ResetTrustedState(db, t.n - 1)
      stored == Len(b.data)
  IN  CASE b = NoBatch ->
             IF Openable(db, t) THEN processAndStoreTxs(OpenBatch(db, t), t, cur, root, t.data)
             ELSE Refused
        [] b # NoBatch /\ ((t.root = NoRoot /\ b.root # NoRoot) \/ stored > Len(t.data)) -> Refused
        [] b # NoBatch /\ checkIfSynced(b, t) -> Processed(db, cur, root)
        [] b # NoBatch /\ root = cur[2].root ->
             IF Openable(base, t)
             THEN processAndStoreTxs(OpenBatch(base, t), t, cur, root, t.data)
             ELSE Refused
        [] stored < Len(t.data) ->
             processAndStoreTxs(db, t, cur, root, txsToBeAdded(b, t))
        [] t.root = NoRoot -> Processed(db, cur, NoRoot)
        [] t.root = root /\ Closable(db, t.n) ->
             Processed(CloseBatch(db, t), <<[b EXCEPT !.root = t.root], cur[2]>>, t.root)
        [] OTHER -> Refused

-----------------------------------------------------------------------------
(* The loop of Sync.                                                       *)

Unknown == [batches |-> <<>>, root |-> Nil]
World == UNCHANGED <<trusted, chain>>
At(pc, synced, last) == [pc |-> pc, synced |-> synced, last |-> last]
Goto(pc) == loop' = At(pc, 0, 0)

\* The trusted state is asked for once L1 has no batch the node does not have.
StartRound ==
  LET n == GetLastBatchNumber(db)
  IN  /\ loop.pc = "start"
      /\ loop' = IF n >= Len(Batches(chain)) THEN At("trusted", n, 0) ELSE At("reorg", 0, 0)
      /\ World /\ UNCHANGED <<db, known, faults>>

\* Batch 0 is skipped.
syncTrustedState ==
  LET n == Max({1, loop.synced})
  IN  /\ loop.pc = "trusted"
      /\ loop' = IF n <= Len(trusted) THEN At("fetch", n, Len(trusted)) ELSE At("reorg", 0, 0)
      /\ World /\ UNCHANGED <<db, known, faults>>

\* An error: nothing is known any more, and L1 is not asked in this round.
GiveUpTrusted ==
  /\ known' = Unknown
  /\ Goto("start")
  /\ World /\ UNCHANGED db

\* The root of a batch as the trusted node shows it.
TrustedRoot(n) == IF trusted[n].closed THEN RootOf(SubSeq(trusted, 1, n)) ELSE NoRoot

\* The batch as it is shown when it is asked for.
TrustedBatch(n) == Content(trusted[n]) @@ [root |-> TrustedRoot(n)]

\* BatchByNumber and processTrustedBatch, in one database transaction.
SyncTrustedBatch ==
  /\ loop.pc = "fetch" /\ loop.synced \in DOMAIN trusted
  /\ \E r \in {processTrustedBatch(TrustedBatch(loop.synced))} :
       /\ r.ok
       /\ db' = r.db
       /\ known' = [batches |-> r.batches, root |-> r.root]
  /\ loop' = IF loop.synced < loop.last THEN [loop EXCEPT !.synced = @ + 1] ELSE At("reorg", 0, 0)
  /\ World /\ UNCHANGED faults

\* The trusted node does not have the batch any more, or it is refused.
SyncTrustedBatchError ==
  /\ loop.pc = "fetch"
  /\ loop.synced \in DOMAIN trusted => ~processTrustedBatch(TrustedBatch(loop.synced)).ok
  /\ GiveUpTrusted
  /\ UNCHANGED faults

\* From the last block down, until L1 has the same one; 0 is genesis.
LastCommon == Max({0} \cup {i \in DOMAIN db.blocks : i <= Len(chain) /\ db.blocks[i] = chain[i]})

\* resetState removes what L1 does not have any more; L1 is read in the next
\* round then.
checkReorg ==
  LET reorged == LastCommon < Len(db.blocks)
  IN  /\ loop.pc = "reorg"
      /\ Goto(IF reorged THEN "start" ELSE "blocks")
      /\ db' = IF reorged THEN Reset(db, LastCommon) ELSE db
      /\ World /\ UNCHANGED <<known, faults>>

\* The next block, in one database transaction.
processBlockRange ==
  /\ loop.pc = "blocks" /\ Len(db.blocks) < Len(chain)
  /\ \E r \in {processBlock(chain[Len(db.blocks) + 1])} :
       /\ db' = r.db
       /\ known' = IF r.forget THEN Unknown ELSE known
       /\ Goto(IF r.ok THEN "blocks" ELSE "start")
  /\ World /\ UNCHANGED faults

AllBlocks ==
  /\ loop.pc = "blocks" /\ Len(db.blocks) >= Len(chain)
  /\ Goto("start")
  /\ World /\ UNCHANGED <<db, known, faults>>

\* A call, the executor or the commit fails; the transaction is rolled back.
\* It is also an error that the new branch of L1 has not reached a block yet.
TrustedError ==
  /\ loop.pc \in {"trusted", "fetch"}
  /\ Fault("error")
  /\ GiveUpTrusted

BlocksError ==
  /\ loop.pc \in {"reorg", "blocks"}
  /\ Fault("error")
  /\ Goto("start")
  /\ known' \in {known, Unknown}
  /\ World /\ UNCHANGED db

Crash ==
  /\ Fault("crash")
  /\ Goto("start")
  /\ known' = Unknown
  /\ World /\ UNCHANGED db

Sync ==
  \/ StartRound \/ syncTrustedState
  \/ SyncTrustedBatch \/ SyncTrustedBatchError
  \/ checkReorg \/ processBlockRange \/ AllBlocks

Next ==
  \/ Sync
  \/ Trusted \/ SequencerFollows
  \/ L1 \/ SequenceBatches
  \/ TrustedError \/ BlocksError \/ Crash

\* The loop never ends: it always has a step to take, so this is its weak
\* fairness.  The trusted node follows L1 and has what it closes sequenced.
Fairness == []<><<Sync>>_vars /\ WF_vars(SequencerFollows \/ SequenceBatches)

Spec == Init /\ [][Next]_vars /\ Fairness

-----------------------------------------------------------------------------
(***************************************************************************)
(* Properties.                                                             *)
(***************************************************************************)
\* Every batch of the database is what its data say: its L2 blocks hold its
\* transactions, none twice and none missing, although they were executed in
\* pieces on roots remembered between rounds, and a closed one has the root of
\* executing all batches up to it.  When the trusted node had to make its
\* batches again because somebody else sequenced one, only virtual batches are
\* sure to: CloseBatch refuses to correct the root of a batch it has closed.
BatchesReproduce ==
  \A n \in DOMAIN db.batches :
    "takeover" \notin faults.seen \/ n \in DOMAIN db.virtual =>
      /\ db.batches[n].txs = db.batches[n].data
      /\ db.batches[n].root # NoRoot =>
           db.batches[n].root = RootOf(SubSeq(db.batches, 1, n))

\* L1 has the last word: the virtual batches, the sequences and the verified
\* batches are those of the blocks that were read, and a virtual batch has the
\* contents it has on L1, whatever the trusted node showed before or after,
\* whatever fails in between and whatever L1 takes back.
VirtualIsSequenced ==
  LET b == Batches(db.blocks)
  IN  /\ DOMAIN db.virtual = DOMAIN b
      /\ \A n \in DOMAIN b : Content(db.batches[n]) = b[n] /\ IsBatchClosed(db, n)
      /\ \A e \in ToSet(db.blocks) :
           e.event \in {"sequenced", "takeover"} =>
             /\ Head(e.batches).n \in DOMAIN db.sequences
             /\ db.sequences[Head(e.batches).n] = Last(e.batches).n
      /\ DOMAIN db.verified = 1..LastVerified(db.blocks)

\* The node has what L1 and the trusted node have.
InStep ==
  /\ db.blocks = chain
  /\ Contents(db.batches) = Contents(trusted)
  /\ \A n \in DOMAIN trusted : IsBatchClosed(db, n) <=> trusted[n].closed

\* Whenever the trusted node and L1 stand still for long enough, the node is
\* in step with both, after errors, crashes and reorganisations too.  When
\* somebody else has sequenced a forced batch, it may be stuck until L1 has a
\* further batch: a refused trusted batch ends the round before L1 is read.
Follows == []<>(InStep \/ "takeover" \in faults.seen)

\* What the comment in processSequenceForceBatch says: the trusted state is
\* forgotten so that reading it does not undo the virtualisation of a batch.
TrustedSyncKeepsVirtual ==
  [][loop.pc = "fetch" => DOMAIN db.virtual \subseteq DOMAIN db'.virtual]_vars
=============================================================================

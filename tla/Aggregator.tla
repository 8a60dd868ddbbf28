----------------------------- MODULE Aggregator -----------------------------
(***************************************************************************)
(* The aggregator: a server that gives work to the provers connected to    *)
(* it.  A prover proves a batch, aggregates two proofs of adjacent batches *)
(* or turns a proof into a final proof, which the goroutine sendFinalProof *)
(* has verified on L1.                                                     *)
(*                                                                         *)
(* The provers' loops share the table state.proof.  A row is identified by *)
(* its first and last batch; it is locked (generating_since is set) while  *)
(* somebody works with it.  StateDBMutex makes a look-up and the lock that *)
(* follows one step.  A transaction to verify a final proof is monitored   *)
(* by the Ethereum transaction manager (module EthTxManager), reduced here *)
(* to the status of a request.                                             *)
(***************************************************************************)
EXTENDS Naturals, Sequences, FiniteSets

CONSTANTS
  Prover,      \* connected provers
  MaxBatch,    \* bound: batches that L1 sequences
  Kinds,       \* what may go wrong
  MaxFaults    \* bound: how often something goes wrong

ASSUME AggregatorAssumption ==
  /\ MaxBatch \in Nat /\ MaxFaults \in Nat
  /\ Kinds \subseteq {"prover", "add", "crash", "lost", "slow", "elsewhere"}

Key == {k \in [from : 1..MaxBatch, to : 1..MaxBatch] : k.from <= k.to}

VARIABLES
  sequences,   \* table state.sequences, with the virtual batches they hold
  proofs,      \* table state.proof: a function on the keys of its rows
  provers,     \* state of each prover's loop in Channel
  sender,      \* state of sendFinalProof and of Start: [pc, msg]
  monitored,   \* status of the requests the transaction manager has
  clock,       \* [due, verifying]: TimeSendFinalProof reached, verifyingProof
  verified,    \* last verified batch on L1
  synced,      \* last verified batch in the state
  faults       \* [left, seen]: faults still to come, and the kinds there were

vars == <<sequences, proofs, provers, sender, monitored, clock, verified, synced, faults>>

\* generating_since: not set, set, or set for longer than the threshold.
Row == [since : {"null", "fresh", "stale"}, proof : BOOLEAN]

Unlocked(k) == proofs[k].since = "null"

Without(keys) == [k \in DOMAIN proofs \ keys |-> proofs[k]]

\* UPDATE ... WHERE batch_num = $1 AND batch_num_final = $2: nothing happens
\* to a row that is no longer there.
UpdateGeneratedProof(keys, row) ==
  [k \in DOMAIN proofs |-> IF k \in keys THEN row ELSE proofs[k]]

AddGeneratedProof(table, k, row) ==
  [j \in DOMAIN table \cup {k} |-> IF j = k THEN row ELSE table[j]]

DeleteGeneratedProofs(first, last) ==
  Without({k \in DOMAIN proofs : k.from >= first /\ k.to <= last})

CleanupGeneratedProofs(last) == Without({k \in DOMAIN proofs : k.to <= last})

Locked(row) == [since |-> "fresh", proof |-> row.proof]
NewRow == [since |-> "fresh", proof |-> FALSE]
Locking == [since |-> "fresh", proof |-> TRUE]
Unlocking == [since |-> "null", proof |-> TRUE]

-----------------------------------------------------------------------------
(***************************************************************************)
(* The queries.                                                            *)
(***************************************************************************)
Virtual == UNION {s.from..s.to : s \in sequences}

CheckProofContainsCompleteSequences(k) ==
  /\ \E s \in sequences : s.from = k.from
  /\ \E s \in sequences : s.to = k.to

GetProofReadyToVerify(last) ==
  {k \in DOMAIN proofs : /\ k.from = last + 1 /\ Unlocked(k)
                         /\ CheckProofContainsCompleteSequences(k)}

\* Two adjacent proofs inside one sequence, or of whole sequences each.
Aggregatable(k, j) ==
  /\ j.from = k.to + 1
  /\ Unlocked(k) /\ Unlocked(j) /\ proofs[k].proof /\ proofs[j].proof
  /\ \/ \E s \in sequences : s.from <= k.from /\ j.to <= s.to
     \/ CheckProofContainsCompleteSequences(k) /\ CheckProofContainsCompleteSequences(j)

GetProofsToAggregate ==
  LET pairs == {p \in (DOMAIN proofs) \X (DOMAIN proofs) : Aggregatable(p[1], p[2])}
  IN  {p \in pairs : \A q \in pairs : p[1].from <= q[1].from}

\* Bug: a batch in a locked proof counts as open.
GetVirtualBatchToProve_IgnoresLocks ==
  LET open == {b \in Virtual : b > synced /\
                 \A k \in DOMAIN proofs : Unlocked(k) => b \notin k.from..k.to}
  IN  {b \in open : \A c \in open : b <= c}

GetVirtualBatchToProve ==
  LET open == {b \in Virtual : b > synced /\ \A k \in DOMAIN proofs : b \notin k.from..k.to}
  IN  {b \in open : \A c \in open : b <= c}

-----------------------------------------------------------------------------
Idle == [pc |-> "idle", mine |-> <<>>, given |-> FALSE, last |-> 0]

Init ==
  /\ sequences = {} /\ proofs = <<>>
  /\ provers = [p \in Prover |-> Idle]
  /\ sender = [pc |-> "boot", msg |-> {}]
  /\ monitored = [k \in Key |-> "none"]
  /\ clock = [due |-> FALSE, verifying |-> FALSE]
  /\ verified = 0 /\ synced = 0
  /\ faults = [left |-> MaxFaults, seen |-> {}]

At(p, pc) == sender.pc # "boot" /\ provers[p].pc = pc

Goto(p, pc) == provers' = [provers EXCEPT ![p].pc = pc]

Become(p, pc, mine, given) ==
  provers' = [provers EXCEPT ![p] = [pc |-> pc, mine |-> mine, given |-> given, last |-> 0]]

Env == <<sequences, monitored, clock, verified, synced>>

-----------------------------------------------------------------------------
(***************************************************************************)
(* One round of Channel: an idle prover looks for a proof to verify, for   *)
(* two proofs to aggregate and, when nothing was aggregated, for a batch.  *)
(***************************************************************************)
Channel(p) ==
  /\ At(p, "idle")
  /\ Become(p, "final", <<>>, FALSE)
  /\ UNCHANGED <<proofs, sender, Env>>

\* No final proof was built.  The proof in hand, if there is one, is stored.
NoFinalProof(p) ==
  IF provers[p].given THEN Goto(p, "unlock") ELSE Become(p, "aggregate", <<>>, FALSE)

canVerifyProof == clock.due /\ ~clock.verifying

tryBuildFinalProof(p) ==
  /\ At(p, "final")
  /\ IF canVerifyProof THEN Goto(p, "sync") ELSE NoFinalProof(p)
  /\ UNCHANGED <<proofs, sender, Env>>

isSynced(n) == synced >= n /\ synced >= verified

\* The loop until the state is synced, then GetLastVerifiedBatch.
WaitSynced(p) ==
  /\ At(p, "sync") /\ isSynced(0)
  /\ provers' = [provers EXCEPT ![p].pc = "pick", ![p].last = synced]
  /\ UNCHANGED <<proofs, sender, Env>>

getAndLockProofReadyToVerify(p) ==
  /\ At(p, "pick") /\ ~provers[p].given
  /\ \/ \E k \in GetProofReadyToVerify(provers[p].last) :
          /\ proofs' = UpdateGeneratedProof({k}, Locked(proofs[k]))
          /\ Become(p, "build", <<k>>, FALSE)
     \/ GetProofReadyToVerify(provers[p].last) = {} /\ NoFinalProof(p) /\ UNCHANGED proofs
  /\ UNCHANGED <<sender, Env>>

\* Bug: a part of a sequence is good enough.
validateEligibleFinalProof_Partial(p) ==
  /\ At(p, "pick") /\ provers[p].given
  /\ UNCHANGED proofs
  /\ IF provers[p].last + 1 \in provers[p].mine[1].from..provers[p].mine[1].to
     THEN Goto(p, "build") ELSE NoFinalProof(p)
  /\ UNCHANGED <<sender, Env>>

\* The proof just made is used when it contains the next batch to verify and
\* consists of whole sequences; it is deleted when it is of no more use.
validateEligibleFinalProof(p) ==
  /\ At(p, "pick") /\ provers[p].given
  /\ LET k == provers[p].mine[1]
         next == provers[p].last + 1
     IN  \/ /\ k.to < next
            /\ proofs' = DeleteGeneratedProofs(k.from, k.to)
            /\ NoFinalProof(p)
         \/ /\ k.to >= next /\ UNCHANGED proofs
            /\ IF k.from <= next /\ CheckProofContainsCompleteSequences(k)
               THEN Goto(p, "build") ELSE NoFinalProof(p)
  /\ UNCHANGED <<sender, Env>>

\* The prover answers.  What happens next is that the proof is handed over.
buildFinalProof(p) ==
  /\ At(p, "build")
  /\ Goto(p, "send")
  /\ UNCHANGED <<proofs, sender, Env>>

\* Bug: the error path forgets to unlock.
buildFinalProofError_KeepsLock(p) ==
  At(p, "build") /\ NoFinalProof(p) /\ UNCHANGED <<proofs, sender, Env>>

\* The prover fails: a proof taken from the table is unlocked.
buildFinalProofError(p) ==
  /\ At(p, "build")
  /\ proofs' = IF provers[p].given THEN proofs
               ELSE UpdateGeneratedProof({provers[p].mine[1]}, Unlocking)
  /\ NoFinalProof(p)
  /\ UNCHANGED <<sender, Env>>

\* a.finalProof <- msg: the channel has no buffer.
SendMsg(p) ==
  /\ At(p, "send") /\ sender.pc = "recv"
  /\ sender' = [pc |-> "got", msg |-> {provers[p].mine[1]}]
  /\ IF provers[p].given THEN Become(p, "idle", <<>>, FALSE) ELSE Become(p, "aggregate", <<>>, FALSE)
  /\ UNCHANGED <<proofs, Env>>

getAndLockProofsToAggregate(p) ==
  /\ At(p, "aggregate")
  /\ \/ \E pair \in GetProofsToAggregate :
          /\ proofs' = UpdateGeneratedProof({pair[1], pair[2]}, Locking)
          /\ Become(p, "aggregating", pair, TRUE)
     \/ GetProofsToAggregate = {} /\ Become(p, "generate", <<>>, FALSE) /\ UNCHANGED proofs
  /\ UNCHANGED <<sender, Env>>

\* One database transaction deletes the two rows, with whatever else lies
\* between them, and inserts the new one.
tryAggregateProofs(p) ==
  /\ At(p, "aggregating")
  /\ LET pair == provers[p].mine
         k == [from |-> pair[1].from, to |-> pair[2].to]
     IN  /\ proofs' = AddGeneratedProof(DeleteGeneratedProofs(k.from, k.to), k, Locking)
         /\ Become(p, "final", <<k>>, TRUE)
  /\ UNCHANGED <<sender, Env>>

\* unlockProofsToAggregate.  Channel goes on with a batch.
tryAggregateProofsError(p) ==
  /\ At(p, "aggregating")
  /\ proofs' = UpdateGeneratedProof({provers[p].mine[1], provers[p].mine[2]}, Unlocking)
  /\ Become(p, "generate", <<>>, FALSE)
  /\ UNCHANGED <<sender, Env>>

getAndLockBatchToProve(p) ==
  /\ At(p, "generate")
  /\ \/ \E b \in GetVirtualBatchToProve :
          /\ proofs' = AddGeneratedProof(proofs, [from |-> b, to |-> b], NewRow)
          /\ Become(p, "proving", <<[from |-> b, to |-> b]>>, TRUE)
     \/ GetVirtualBatchToProve = {} /\ Become(p, "idle", <<>>, FALSE) /\ UNCHANGED proofs
  /\ UNCHANGED <<sender, Env>>

tryGenerateBatchProof(p) ==
  /\ At(p, "proving")
  /\ Goto(p, "final")
  /\ UNCHANGED <<proofs, sender, Env>>

tryGenerateBatchProofError(p) ==
  /\ At(p, "proving")
  /\ proofs' = DeleteGeneratedProofs(provers[p].mine[1].from, provers[p].mine[1].to)
  /\ Become(p, "idle", <<>>, FALSE)
  /\ UNCHANGED <<sender, Env>>

\* Bug: the proof is stored and stays locked.
StoreProof_KeepsLock(p) ==
  /\ At(p, "unlock")
  /\ proofs' = UpdateGeneratedProof({provers[p].mine[1]}, Locking)
  /\ Become(p, "idle", <<>>, FALSE)
  /\ UNCHANGED <<sender, Env>>

\* No final proof was built: the proof is stored and unlocked.
StoreProof(p) ==
  /\ At(p, "unlock")
  /\ proofs' = UpdateGeneratedProof({provers[p].mine[1]}, Unlocking)
  /\ Become(p, "idle", <<>>, FALSE)
  /\ UNCHANGED <<sender, Env>>

-----------------------------------------------------------------------------
(***************************************************************************)
(* sendFinalProof, and Start, which ends with the same steps.              *)
(***************************************************************************)
startProofVerification ==
  /\ sender.pc = "got"
  /\ sender' = [sender EXCEPT !.pc = "add"]
  /\ clock' = [clock EXCEPT !.verifying = TRUE]
  /\ UNCHANGED <<sequences, proofs, provers, monitored, verified, synced>>

\* What the contract accepts; the gas estimation of Add fails otherwise.
Verifiable(k) == k.from <= verified + 1 /\ k.to > verified

\* Bug: the message is handled and kept.
AddVerification_KeepsMsg(k) ==
  /\ sender.pc = "add" /\ sender.msg = {k}
  /\ Verifiable(k) /\ monitored[k] = "none"
  /\ monitored' = [monitored EXCEPT ![k] = "created"]
  /\ sender' = [sender EXCEPT !.pc = "pending"]
  /\ UNCHANGED <<sequences, proofs, provers, clock, verified, synced>>

AddVerification(k) ==
  /\ sender.pc = "add" /\ sender.msg = {k}
  /\ Verifiable(k) /\ monitored[k] = "none"
  /\ monitored' = [monitored EXCEPT ![k] = "created"]
  /\ sender' = [pc |-> "pending", msg |-> {}]
  /\ UNCHANGED <<sequences, proofs, provers, clock, verified, synced>>

EndVerification ==
  /\ clock' = [clock EXCEPT !.verifying = FALSE]
  /\ sender' = [pc |-> "recv", msg |-> {}]

handleFailureToAddVerifyBatchToBeMonitored(k) ==
  /\ sender.pc = "add" /\ sender.msg = {k}
  /\ proofs' = UpdateGeneratedProof({k}, Unlocking)
  /\ EndVerification
  /\ UNCHANGED <<sequences, provers, monitored, verified, synced>>

\* The add is refused: the id is taken or the contract would not accept it.
AddRefused(k) ==
  /\ monitored[k] # "none" \/ ~Verifiable(k)
  /\ handleFailureToAddVerifyBatchToBeMonitored(k)

\* The last batch cannot be read: the proof stays locked.
GetBatchByNumberError ==
  /\ sender.pc = "add"
  /\ EndVerification
  /\ UNCHANGED <<sequences, proofs, provers, monitored, verified, synced>>

\* A confirmed request is marked as done before its result is handled.
setStatusDone(k) ==
  /\ sender.pc \in {"boot", "pending"} /\ sender.msg = {} /\ monitored[k] = "confirmed"
  /\ monitored' = [monitored EXCEPT ![k] = "done"]
  /\ sender' = [sender EXCEPT !.msg = {k}]
  /\ UNCHANGED <<sequences, proofs, provers, clock, verified, synced>>

\* Proofs are deleted once the state has what L1 verified.
handleMonitoredTxResult(k) ==
  /\ sender.pc \in {"boot", "pending"} /\ sender.msg = {k} /\ isSynced(k.to)
  /\ proofs' = CleanupGeneratedProofs(k.to)
  /\ sender' = [sender EXCEPT !.msg = {}]
  /\ UNCHANGED <<sequences, provers, monitored, clock, verified, synced>>

Settled == sender.msg = {} /\ \A k \in Key : monitored[k] \in {"none", "done"}

\* All requests are done: the sender waits for the next proof.
ProcessPendingMonitoredTxs ==
  /\ sender.pc = "pending" /\ Settled
  /\ sender' = [sender EXCEPT !.pc = "recv"]
  /\ clock' = [due |-> FALSE, verifying |-> FALSE]
  /\ UNCHANGED <<sequences, proofs, provers, monitored, verified, synced>>

DeleteUngeneratedProofs == Without({k \in DOMAIN proofs : ~Unlocked(k)})

\* All requests of an earlier life are done: the server starts.
Start ==
  /\ sender.pc = "boot" /\ Settled
  /\ proofs' = DeleteUngeneratedProofs
  /\ sender' = [sender EXCEPT !.pc = "recv"]
  /\ clock' = [due |-> FALSE, verifying |-> FALSE]
  /\ UNCHANGED <<sequences, provers, monitored, verified, synced>>

Crash ==
  /\ sender' = [pc |-> "boot", msg |-> {}]
  /\ provers' = [p \in Prover |-> Idle]
  /\ UNCHANGED <<sequences, proofs, monitored, clock, verified, synced>>

-----------------------------------------------------------------------------
(***************************************************************************)
(* Time, L1 and the synchronizer.                                          *)
(***************************************************************************)
VerifyTime ==
  /\ ~clock.due /\ clock' = [clock EXCEPT !.due = TRUE]
  /\ UNCHANGED <<sequences, proofs, provers, sender, monitored, verified, synced>>

\* Every lock that is held now becomes older than the threshold.
Age ==
  /\ proofs' = [k \in DOMAIN proofs |->
                  IF Unlocked(k) THEN proofs[k] ELSE [since |-> "stale", proof |-> proofs[k].proof]]
  /\ UNCHANGED <<sequences, provers, sender, monitored, clock, verified, synced>>

cleanupLockedProofs ==
  /\ sender.pc # "boot"
  /\ \E k \in DOMAIN proofs : proofs[k].since = "stale"
  /\ proofs' = Without({k \in DOMAIN proofs : proofs[k].since = "stale"})
  /\ UNCHANGED <<sequences, provers, sender, monitored, clock, verified, synced>>

SyncSequence ==
  /\ \E to \in (Cardinality(Virtual) + 1)..MaxBatch :
       sequences' = sequences \cup {[from |-> Cardinality(Virtual) + 1, to |-> to]}
  /\ UNCHANGED <<proofs, provers, sender, monitored, clock, verified, synced>>

\* The transaction manager has the request mined, and reports it.
Verify(k) ==
  /\ monitored[k] = "created" /\ Verifiable(k)
  /\ verified' = k.to
  /\ monitored' = [monitored EXCEPT ![k] = "confirmed"]
  /\ UNCHANGED <<sequences, proofs, provers, sender, clock, synced>>

\* Somebody else has batches verified.
VerifyElsewhere ==
  /\ \E s \in sequences : s.to > verified /\ verified' = s.to
  /\ UNCHANGED <<sequences, proofs, provers, sender, monitored, clock, synced>>

SyncVerified ==
  /\ synced < verified /\ synced' = verified
  /\ UNCHANGED <<sequences, proofs, provers, sender, monitored, clock, verified>>

-----------------------------------------------------------------------------
ProverStep(p) ==
  \/ Channel(p) \/ tryBuildFinalProof(p) \/ WaitSynced(p)
  \/ getAndLockProofReadyToVerify(p) \/ validateEligibleFinalProof(p)
  \/ buildFinalProof(p) \/ SendMsg(p)
  \/ getAndLockProofsToAggregate(p) \/ tryAggregateProofs(p)
  \/ getAndLockBatchToProve(p) \/ tryGenerateBatchProof(p) \/ StoreProof(p)

SenderStep ==
  \/ startProofVerification \/ ProcessPendingMonitoredTxs \/ Start
  \/ \E k \in Key : AddVerification(k) \/ AddRefused(k)
                     \/ setStatusDone(k) \/ handleMonitoredTxResult(k)

L1Step == SyncVerified \/ \E k \in Key : Verify(k)

Fault(kind) ==
  /\ kind \in Kinds /\ faults.left > 0
  /\ faults' = [left |-> faults.left - 1, seen |-> faults.seen \cup {kind}]

\* Failures of the provers and of the aggregator, locks that outlast the
\* threshold, and another aggregator.
Faulty ==
  \/ /\ Fault("prover")
     /\ \E p \in Prover : \/ buildFinalProofError(p) \/ tryAggregateProofsError(p)
                           \/ tryGenerateBatchProofError(p)
  \/ Fault("add") /\ \E k \in Key : handleFailureToAddVerifyBatchToBeMonitored(k)
  \/ Fault("crash") /\ Crash
  \/ Fault("lost") /\ GetBatchByNumberError
  \/ Fault("slow") /\ Age
  \/ Fault("elsewhere") /\ VerifyElsewhere

Next ==
  \/ /\ \/ SyncSequence \/ VerifyTime \/ SenderStep \/ L1Step \/ cleanupLockedProofs
        \/ \E p \in Prover : ProverStep(p)
     /\ UNCHANGED faults
  \/ Faulty

\* Every loop runs, time passes, L1 and the synchronizer go on.
Fairness ==
  /\ \A p \in Prover : WF_vars(ProverStep(p) /\ UNCHANGED faults)
  /\ WF_vars(SenderStep /\ UNCHANGED faults) /\ WF_vars(L1Step /\ UNCHANGED faults)
  /\ WF_vars(VerifyTime /\ UNCHANGED faults) /\ WF_vars(cleanupLockedProofs /\ UNCHANGED faults)

Spec == Init /\ [][Next]_vars /\ Fairness

-----------------------------------------------------------------------------
(***************************************************************************)
(* Properties.                                                             *)
(***************************************************************************)
ProverState ==
  [pc : {"idle", "final", "sync", "pick", "build", "send", "aggregate", "aggregating",
         "generate", "proving", "unlock"},
   mine : Seq(Key), given : BOOLEAN, last : 0..MaxBatch]

\* The variables have the shapes given above; a prover holds as many proofs as
\* its place in the loop needs.
TypeOK ==
  /\ sequences \subseteq Key
  /\ DOMAIN proofs \subseteq Key /\ proofs \in [DOMAIN proofs -> Row]
  /\ provers \in [Prover -> ProverState]
  /\ \A p \in Prover :
       /\ provers[p].pc \in {"build", "send", "proving", "unlock"} => Len(provers[p].mine) = 1
       /\ provers[p].pc = "aggregating" => Len(provers[p].mine) = 2
       /\ provers[p].pc \in {"idle", "aggregate", "generate"} => provers[p].mine = <<>>
  /\ sender \in [pc : {"boot", "recv", "got", "add", "pending"}, msg : SUBSET Key]
  /\ sender.pc \in {"got", "add"} => \E k \in Key : sender.msg = {k}
  /\ sender.pc = "recv" => sender.msg = {}
  /\ sender.pc \in {"boot", "pending"} => \A k \in sender.msg : monitored[k] = "done"
  /\ monitored \in [Key -> {"none", "created", "confirmed", "done"}]
  /\ clock \in [due : BOOLEAN, verifying : BOOLEAN]
  /\ verified \in 0..MaxBatch /\ synced \in 0..verified
  /\ faults \in [left : 0..MaxFaults, seen : SUBSET Kinds]

\* No batch is in two proofs of the table, so no prover repeats another's work
\* and every proof can be aggregated with its neighbours, as long as no lock
\* outlasts the threshold.
NoOverlap ==
  "slow" \notin faults.seen =>
    \A k, j \in DOMAIN proofs : k # j => k.to < j.from \/ j.to < k.from

Holds(p, k) == \E i \in DOMAIN provers[p].mine : provers[p].mine[i] = k

\* An unlocked row has its proof: what is taken from the table to build a final
\* proof, which does not look at the column, is never a batch nobody proved.
\* A locked row has somebody who will unlock or delete it: a prover, the sender
\* or a request that is waiting for L1.  No lock is left behind, whatever fails
\* except the reading of the batch in sendFinalProof.
RowsProvedOrOwned ==
  \A k \in DOMAIN proofs :
    IF Unlocked(k) THEN proofs[k].proof
    ELSE sender.pc # "boot" /\ "lost" \notin faults.seen =>
      \/ \E p \in Prover : Holds(p, k)
      \/ k \in sender.msg
      \/ monitored[k] \in {"created", "confirmed"}

\* L1 is only asked to verify whole sequences, as the contract wants it, also
\* when the proof grew or sequences arrived while it was being made.
WholeSequences ==
  \A k \in Key : monitored[k] # "none" => CheckProofContainsCompleteSequences(k)

\* Every virtual batch is verified and the state knows it, although provers
\* and requests fail, as long as the aggregator does not die, no lock is lost
\* or outlasts the threshold, and nobody else verifies batches.
EventuallyVerified ==
  \A b \in 1..MaxBatch :
    b \in Virtual ~>
      synced >= b \/ faults.seen \cap {"crash", "lost", "slow", "elsewhere"} # {}
=============================================================================

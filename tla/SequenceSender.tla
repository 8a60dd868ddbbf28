--------------------------- MODULE SequenceSender ---------------------------
(***************************************************************************)
(* The sequence sender on top of the Ethereum transaction manager: it      *)
(* collects closed batches and has them sequenced on L1, one request at a  *)
(* time.  The id of a request, "sequence-from-a-to-b", is the record       *)
(* [from, to].                                                             *)
(*                                                                         *)
(* The call data holds the batches without their numbers: the contract     *)
(* numbers them in the order in which it gets them.  So everything rests   *)
(* on sending each batch once and in order, which the sender can only tell *)
(* from what the synchronizer has read back from L1.                       *)
(***************************************************************************)
EXTENDS EthTxManager

CONSTANTS
  MaxBatch,    \* bound: batches the sequencer closes
  Upgrades     \* what the configuration may give as ForkUpgradeBatchNumber

\* Only the sequence sender asks for sequences, of any range of batches.  The
\* reset after an L1 reorganisation is not part of this module, nor is a
\* receipt that cannot be fetched.
ASSUME SenderAssumption ==
  /\ \E w \in Owner : Owner = {w}
  /\ MaxBatch \in Nat /\ Upgrades \subseteq Nat
  /\ Id = {r \in [from : 1..MaxBatch, to : 1..MaxBatch] : r.from <= r.to}
  /\ Kinds \cap {"receipt", "reorg"} = {}

VARIABLES
  closed,    \* batches 1..closed are closed in the trusted state
  plan,      \* what getSequencesToSend returned: none or one id
  ForkUpgradeBatchNumber   \* last batch of the fork, 0 if no upgrade is near

senderVars == <<closed, plan, ForkUpgradeBatchNumber>>
allVars == <<vars, senderVars>>

\* The batches the contract has after the blocks of c: those of the call data
\* of every successful transaction, told apart by the block; and their number.
Batches(c) ==
  UNION {{i} \X (c[i].tx.id.from .. c[i].tx.id.to) :
           i \in {j \in DOMAIN c : c[j].tx # NoTx /\ c[j].ok}}
Sequenced(c) == Cardinality(Batches(c))

GetLastVirtualBatchNum == Sequenced(synced)

SenderInit == Init /\ closed = 0 /\ plan = {} /\ ForkUpgradeBatchNumber \in Upgrades

\* The sequencer closes a batch.
CloseBatch ==
  /\ closed < MaxBatch
  /\ closed' = closed + 1
  /\ UNCHANGED <<vars, plan, ForkUpgradeBatchNumber>>

\* The work-in-progress batch is part of the trusted state.
isSynced ==
  \/ closed + 1 > GetLastVirtualBatchNum
  \/ GetLastVirtualBatchNum >= Sequenced(chain)

\* Faulty variant: the last closed batch is taken for the open one.
Candidates_SkipsLast ==
  LET from == GetLastVirtualBatchNum + 1
  IN  {[from |-> from, to |-> to] :
         to \in {t \in from..(closed - 1) :
                   ForkUpgradeBatchNumber # 0 =>
                     /\ from # ForkUpgradeBatchNumber + 1
                     /\ from <= ForkUpgradeBatchNumber => t <= ForkUpgradeBatchNumber}}

\* The sequences start after the last virtual batch and end before the first
\* open batch, at the upgrade, or where L1 would not take one more.  There is
\* nothing to send past an upgrade that is not finished.
Candidates ==
  LET from == GetLastVirtualBatchNum + 1
  IN  {[from |-> from, to |-> to] :
         to \in {t \in from..closed :
                   ForkUpgradeBatchNumber # 0 =>
                     /\ from # ForkUpgradeBatchNumber + 1
                     /\ from <= ForkUpgradeBatchNumber => t <= ForkUpgradeBatchNumber}}

getSequencesToSend(w) ==
  /\ owners[w].pc = "work" /\ plan = {}
  /\ isSynced
  /\ \E id \in Candidates : plan' = {id}
  /\ UNCHANGED <<vars, closed, ForkUpgradeBatchNumber>>

\* Not synced, or not worth sending yet: the next cycle begins.
WaitTick(w) ==
  /\ owners[w].pc = "work" /\ plan = {}
  /\ owners' = [owners EXCEPT ![w] = AtWork]
  /\ UNCHANGED <<rows, gos, l1Vars, synced, faults, senderVars>>

\* A request with the id of an earlier one is refused.
tryToSendSequence(w) ==
  /\ plan # {}
  /\ \A id \in plan :
       \/ Insert(id)
       \/ rows[id].status # "absent" /\ UNCHANGED rows
  /\ plan' = {}
  /\ owners' = [owners EXCEPT ![w] = AtWork]
  /\ UNCHANGED <<gos, l1Vars, synced, faults, closed, ForkUpgradeBatchNumber>>

Send == \E w \in Owner : getSequencesToSend(w) \/ tryToSendSequence(w)

-----------------------------------------------------------------------------
Unchanged == UNCHANGED <<faults, senderVars>>

SenderNext ==
  \/ CloseBatch
  \/ Send
  \/ \E w \in Owner : WaitTick(w)
  \/ /\ Manager \/ L1 \/ SyncBlock \/ \E w \in Owner : ProcessPendingMonitoredTxs(w)
     /\ Unchanged
  \/ Faulty /\ UNCHANGED senderVars
  \/ Fault("crash") /\ Crash /\ plan' = {} /\ UNCHANGED <<closed, ForkUpgradeBatchNumber>>

\* Sending is worth it again and again, and everything the manager needs runs.
SenderSpec ==
  /\ SenderInit /\ [][SenderNext]_allVars
  /\ SF_allVars(Send)
  /\ WF_allVars(Manager /\ Unchanged) /\ WF_allVars(SyncBlock /\ Unchanged)
  /\ \A w \in Owner : WF_allVars(ProcessPendingMonitoredTxs(w) /\ Unchanged)
  /\ WF_allVars(L1 /\ Unchanged)

-----------------------------------------------------------------------------
\* The contract gives every batch the number it has in the trusted state: it
\* gets the batches in order, none twice and none left out, although sending,
\* failing, sending again, crashing and reading back from L1 overlap.
SequencedInOrder ==
  \A i \in DOMAIN chain :
    chain[i].tx # NoTx /\ chain[i].ok =>
      chain[i].tx.id.from = Sequenced(SubSeq(chain, 1, i - 1)) + 1

\* The sender, the manager, L1 and the synchronizer together do what
\* BatchStages promises, whatever fails as long as L1 is not reorganised.
Stages == INSTANCE BatchStages WITH
  trusted <- closed, sequenced <- Sequenced(chain), virtual <- Sequenced(synced)
ImplementsBatchStages == Stages!Spec

\* Every closed batch up to an upgrade becomes a virtual one, although calls
\* fail, L1 forgets transactions and the process dies, as long as L1 reverts
\* none.
ClosedIsSequenced ==
  \A n \in 1..MaxBatch :
    closed >= n /\ (ForkUpgradeBatchNumber # 0 => n <= ForkUpgradeBatchNumber)
      ~> GetLastVirtualBatchNum >= n \/ "revert" \in faults.seen
=============================================================================

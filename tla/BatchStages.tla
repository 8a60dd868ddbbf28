---------------------------- MODULE BatchStages -----------------------------
(***************************************************************************)
(* What the node promises about a batch: first the sequencer closes it,    *)
(* then L1 has it sequenced, then the node's own state knows it as a       *)
(* virtual batch.  Batches pass each stage in the order of their numbers   *)
(* and never go back.                                                      *)
(***************************************************************************)
EXTENDS Naturals

VARIABLES
  trusted,     \* batches 1..trusted are closed
  sequenced,   \* batches 1..sequenced are sequenced on L1
  virtual      \* batches 1..virtual are virtual batches of the state

stages == <<trusted, sequenced, virtual>>

Init == trusted = 0 /\ sequenced = 0 /\ virtual = 0

Trust == trusted' = trusted + 1 /\ UNCHANGED <<sequenced, virtual>>

Sequence ==
  /\ sequenced' \in (sequenced + 1)..trusted
  /\ UNCHANGED <<trusted, virtual>>

Virtualize ==
  /\ virtual' \in (virtual + 1)..sequenced
  /\ UNCHANGED <<trusted, sequenced>>

Next == Trust \/ Sequence \/ Virtualize

Spec == Init /\ [][Next]_stages
=============================================================================

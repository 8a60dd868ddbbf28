-------------------------- MODULE MCSequenceSender --------------------------
(* One sender; every range of batches may be asked for.                     *)
EXTENDS SequenceSender

CONSTANT sequencer

MCId == {[from |-> r[1], to |-> r[2]] : r \in {p \in (1..MaxBatch) \X (1..MaxBatch) : p[1] <= p[2]}}
MCOwnerOf == [id \in Id |-> sequencer]
=============================================================================

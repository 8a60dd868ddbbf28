--------------------------- MODULE MCSynchronizer ---------------------------
\* Synchronizer on a small instance.
EXTENDS Synchronizer

\* A forced batch with a transaction, and one without any that counts.
MCForced == {<<"f">>}
MCForcedEmpty == {<<>>}
=============================================================================

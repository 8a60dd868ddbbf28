CONSTANTS
  alice = alice
  bob = bob
  a1 = a1
  a2 = a2
  a3 = a3
  b1 = b1
  bad = bad
  Nil = Nil
  Addr = {alice, bob}
  Tx = {a1, a2, a3, b1, bad}
  From <- MCFrom
  Nonce <- MCNonce
  GasPrice <- MCGasPrice
  Cost <- MCCost
  Nonces = {0, 1, 2}
  Balances = {1, 2}
  Counters = {1, 2}
  MaxCounters = 2
  PoolCounters <- MCPoolCounters
  InvalidIP = {bad}
  ForcedTx = {bad}
  RemeasuredTx = {b1}
  MaxPending = 0
SPECIFICATION Spec
INVARIANTS
  BestFittingIsBest
  TypeOK
  ListIsReady
  SliceIsSorted
  QueueFollowsNonces
  NewQueueOverwritesNothing
PROPERTY
  FutureTxsAreKept
CHECK_DEADLOCK FALSE

------------------------- MODULE PendingStoreProofs -------------------------
(***************************************************************************)
(* Proofs about the way of an executed transaction to the database, for    *)
(* every number of transactions, batches, flush ids, executors and faults: *)
(* what is stored is a prefix of what was executed, none twice, batches    *)
(* are closed complete, the worker knows what is on its way, and nothing   *)
(* is stored before the executor has flushed it.                           *)
(***************************************************************************)
EXTENDS PendingStore, SequenceTheorems, TLAPS

-----------------------------------------------------------------------------
(***************************************************************************)
(* The inductive invariant, in parts.                                      *)
(***************************************************************************)

\* What the storing goroutine holds and has not stored.
Unstored == IF spc \in {"wait", "asleep", "woken", "store"} THEN hand ELSE <<>>

\* What is stored, u, and what follows on the way to the database.
Behind(u) == stored \o (u \o (channel \o cur))

\* The goroutines' places: the storing one keeps its transaction when it halts,
\* leaves only when the context is done and forgets a transaction only when it
\* is stored; the responses of one execution are all of a forced batch, or none
\* is.
Places ==
  /\ spc = "halted" => hand # <<>>
  /\ spc \in {"drain", "exit"} => cancelled
  /\ spc = "drop" => hand[1] \in ToSet(stored)
  /\ \A i \in DOMAIN cur : cur[i].forced = cur[1].forced

Counted == wg = Len(hand) + Len(channel) + (IF fpc = "send" THEN 1 ELSE 0)

\* Batch numbers grow; the open batch is not closed while the finalizer may
\* execute transactions of the pool in it.
Numbered ==
  /\ \A c \in closed : c <= batch
  /\ \A i \in DOMAIN executed : executed[i].batch <= batch
  /\ \/ fpc \in {"loop", "close", "stopped"}
     \/ cur # <<>> /\ ~cur[1].forced
     => batch \notin closed

\* Nothing that was executed is lost or reordered on its way.  A goroutine that
\* halted may or may not have stored what it holds.
InFlight ==
  ~cancelled =>
    IF spc = "halted" THEN executed = Behind(<<>>) \/ executed = Behind(hand)
    ELSE executed = Behind(Unstored)

\* Every transaction was executed once.
Once ==
  /\ forcedDone <= Len(ForcedBatches)
  /\ \A i \in DOMAIN executed :
       \/ executed[i].tx \in Tx
       \/ \E n \in 1..forcedDone : executed[i].tx \in ToSet(ForcedBatches[n])
  /\ \A i, j \in DOMAIN executed : executed[i].tx = executed[j].tx => i = j

Complete ==
  \A i \in DOMAIN executed :
    executed[i].batch \in closed /\ ~executed[i].forced
      => executed[i] \in ToSet(stored)

\* The worker knows what the channel and the storing goroutine hold.
Known ==
  ~cancelled =>
    /\ \A i \in DOMAIN channel : channel[i].tx \in inWorker
    /\ hand # <<>> /\ spc # "done" => hand[1].tx \in inWorker
    /\ fpc = "send" => cur[1].tx \in inWorker

\* Before the first restart of the executor: everything on its way is of the
\* first executor, and what the goroutines know of its flush ids is true.
Flushed ==
  prover = 1 =>
    /\ \A i \in DOMAIN cur : cur[i].prover = 1
    /\ \A i \in DOMAIN channel : channel[i].prover = 1
    /\ \A i \in DOMAIN hand : hand[i].prover = 1
    /\ storedFlushID <= flushed[1] /\ got.flush <= flushed[1]
    /\ spc = "store" => hand[1].flush <= flushed[1]

IInv ==
  /\ TypeOK /\ Places /\ Counted /\ Numbered /\ InFlight /\ IsPrefix(stored, executed)
  /\ Once /\ Complete /\ Known /\ Flushed /\ StoredIsFlushed

FaultsType == faults \in [left : 0..MaxFaults, seen : SUBSET Kinds]

-----------------------------------------------------------------------------
(***************************************************************************)
(* Sequences.                                                              *)
(***************************************************************************)

\* A prefix, element by element.
LEMMA PrefixElements ==
  ASSUME NEW S, NEW s \in Seq(S), NEW t \in Seq(S)
  PROVE  IsPrefix(s, t) <=> Len(s) <= Len(t) /\ \A i \in 1..Len(s) : s[i] = t[i]
<1>1. SubSeq(s, 1, Len(s)) = s
  BY SubSeqFull
<1>2. CASE Len(s) <= Len(t)
  <2> DEFINE p == SubSeq(t, 1, Len(s))
  <2>1. /\ p \in Seq(S) /\ Len(p) = Len(s)
        /\ \A i \in 1..Len(s) : p[i] = t[i]
    <3>1. \A i \in 1..Len(s) : t[i] \in S
      BY <1>2
    <3> QED BY <3>1, SubSeqProperties
  <2> HIDE DEF p
  <2>2. s = p <=> \A i \in 1..Len(s) : s[i] = p[i]
    BY <2>1, SeqEqual
  <2> QED BY <1>1, <1>2, <2>1, <2>2 DEF IsPrefix, p
<1> QED BY <1>2 DEF IsPrefix

\* A sequence is a prefix of what continues it.
LEMMA PrefixOfConcat ==
  ASSUME NEW S, NEW s \in Seq(S), NEW t \in Seq(S)
  PROVE  s \o t \in Seq(S) /\ IsPrefix(s, s \o t)
<1>1. /\ s \o t \in Seq(S) /\ Len(s \o t) = Len(s) + Len(t)
      /\ \A i \in 1..Len(s) : (s \o t)[i] = s[i]
  BY ConcatProperties
<1>2. Len(s) <= Len(s \o t) /\ \A i \in 1..Len(s) : s[i] = (s \o t)[i]
  BY <1>1
<1> QED BY <1>1, <1>2, PrefixElements

\* The elements of a concatenation.
LEMMA ConcatElements ==
  ASSUME NEW S, NEW s \in Seq(S), NEW t \in Seq(S)
  PROVE  /\ \A i \in DOMAIN (s \o t) :
              \/ i \in DOMAIN s /\ (s \o t)[i] = s[i]
              \/ i - Len(s) \in DOMAIN t /\ (s \o t)[i] = t[i - Len(s)]
         /\ \A i \in DOMAIN s : i \in DOMAIN (s \o t) /\ (s \o t)[i] = s[i]
         /\ \A i \in DOMAIN t : /\ i + Len(s) \in DOMAIN (s \o t)
                                /\ (s \o t)[i + Len(s)] = t[i]
         /\ ToSet(s \o t) = ToSet(s) \cup ToSet(t)
<1>1. /\ s \o t \in Seq(S) /\ Len(s \o t) = Len(s) + Len(t)
      /\ \A i \in 1..Len(s) + Len(t) :
           (s \o t)[i] = IF i <= Len(s) THEN s[i] ELSE t[i - Len(s)]
  BY ConcatProperties
<1>2. \A i \in DOMAIN (s \o t) :
        \/ i \in DOMAIN s /\ (s \o t)[i] = s[i]
        \/ i - Len(s) \in DOMAIN t /\ (s \o t)[i] = t[i - Len(s)]
  BY <1>1
<1>3. \A i \in DOMAIN s : i \in DOMAIN (s \o t) /\ (s \o t)[i] = s[i]
  BY <1>1
<1>4. \A i \in DOMAIN t : i + Len(s) \in DOMAIN (s \o t) /\ (s \o t)[i + Len(s)] = t[i]
  BY <1>1
<1>5. ToSet(s \o t) = ToSet(s) \cup ToSet(t)
  <2>1. ASSUME NEW x \in ToSet(s \o t) PROVE x \in ToSet(s) \cup ToSet(t)
    BY <1>2 DEF ToSet
  <2>2. ASSUME NEW x \in ToSet(s) PROVE x \in ToSet(s \o t)
    BY <1>3 DEF ToSet
  <2>3. ASSUME NEW x \in ToSet(t) PROVE x \in ToSet(s \o t)
    BY <1>4 DEF ToSet
  <2> QED BY <2>1, <2>2, <2>3
<1> QED BY <1>2, <1>3, <1>4, <1>5

\* The first element of b goes from b to the end of a.
LEMMA HandOver ==
  ASSUME NEW S, NEW a \in Seq(S), NEW b \in Seq(S), b # <<>>
  PROVE  Append(a, Head(b)) \o Tail(b) = a \o b
BY SequenceEmptyOrAppend, HeadTailProperties

\* Regrouping.
LEMMA Regroup ==
  ASSUME NEW s \in Seq(Rec), NEW t \in Seq(Rec), NEW u \in Seq(Rec)
  PROVE  \A w, x : w = s \o t /\ x = t \o u => w \o u = s \o x
<1>1. (s \o t) \o u = s \o (t \o u)
  BY ConcatAssociative
<1> QED BY <1>1, Zenon

\* A record of a sequence of them, and what it consists of.
LEMMA RecOf ==
  ASSUME NEW s \in Seq(Rec)
  PROVE  /\ \A i \in DOMAIN s :
              /\ i \in 1..Len(s) /\ s[i] \in Rec
              /\ s[i].tx \in AllTx /\ s[i].batch \in Nat /\ s[i].forced \in BOOLEAN
              /\ s[i].flush \in Nat /\ s[i].prover \in 1..MaxProvers
         /\ s # <<>> => /\ 1 \in DOMAIN s /\ Head(s) = s[1] /\ Head(s) \in Rec
                        /\ Tail(s) \in Seq(Rec) /\ Len(Tail(s)) = Len(s) - 1
                        /\ \A i \in DOMAIN Tail(s) : i + 1 \in DOMAIN s /\ Tail(s)[i] = s[i + 1]
<1>1. \A i \in DOMAIN s : i \in 1..Len(s) /\ s[i] \in Rec
  OBVIOUS
<1>2. \A r \in Rec : /\ r.tx \in AllTx /\ r.batch \in Nat /\ r.forced \in BOOLEAN
                     /\ r.flush \in Nat /\ r.prover \in 1..MaxProvers
  BY DEF Rec
<1>3. ASSUME s # <<>>
      PROVE  /\ 1 \in DOMAIN s /\ Head(s) = s[1] /\ Head(s) \in Rec
             /\ Tail(s) \in Seq(Rec) /\ Len(Tail(s)) = Len(s) - 1
             /\ \A i \in DOMAIN Tail(s) : i + 1 \in DOMAIN s /\ Tail(s)[i] = s[i + 1]
  BY <1>3, HeadTailProperties
<1> QED BY <1>1, <1>2, <1>3

\* The sequences are of records, and the database holds a prefix of what was
\* executed.
LEMMA SeqFacts ==
  ASSUME IInv
  PROVE  /\ cur \in Seq(Rec) /\ executed \in Seq(Rec) /\ hand \in Seq(Rec)
         /\ channel \in Seq(Rec) /\ stored \in Seq(Rec)
         /\ Len(stored) <= Len(executed)
         /\ \A i \in DOMAIN stored : i \in DOMAIN executed /\ stored[i] = executed[i]
<1>1. /\ cur \in Seq(Rec) /\ executed \in Seq(Rec) /\ hand \in Seq(Rec)
      /\ channel \in Seq(Rec) /\ stored \in Seq(Rec) /\ IsPrefix(stored, executed)
  BY DEF IInv, TypeOK
<1>2. Len(stored) <= Len(executed) /\ \A i \in 1..Len(stored) : stored[i] = executed[i]
  BY <1>1, PrefixElements
<1> QED BY <1>1, <1>2

-----------------------------------------------------------------------------
(***************************************************************************)
(* The finalizer.                                                          *)
(***************************************************************************)
USE DEF finalizerVars, updaterVars, storerVars, sharedVars, dbVars, executorVars, storerOnly

\* What is appended to the channel is appended to the whole.
LEMMA Lengthened ==
  ASSUME stored \in Seq(Rec), channel \in Seq(Rec), NEW u \in Seq(Rec), NEW recs \in Seq(Rec)
  PROVE  (stored \o (u \o channel)) \o recs = stored \o (u \o (channel \o recs))
<1>1. ASSUME NEW k \in Seq(Rec), NEW l \in Seq(Rec), NEW m \in Seq(Rec)
      PROVE  (k \o l) \o m = k \o (l \o m)
  OBVIOUS
<1>2. (u \o channel) \o recs = u \o (channel \o recs)
  BY <1>1, Zenon
<1>3. u \o channel \in Seq(Rec)
  BY ConcatProperties
<1>4. (stored \o (u \o channel)) \o recs = stored \o ((u \o channel) \o recs)
  BY <1>1, <1>3, Zenon
<1> QED BY <1>2, <1>4, Zenon

\* What is executed while the finalizer holds nothing comes last on the way.
LEMMA ExecutedLast ==
  ASSUME IInv, cur = <<>>, NEW recs \in Seq(Rec),
         executed' = executed \o recs, cur' = recs,
         UNCHANGED <<hand, channel, stored, spc, cancelled>>
  PROVE  /\ executed' \in Seq(Rec)
         /\ InFlight' /\ IsPrefix(stored, executed)'
<1> DEFINE Way(u) == stored \o (u \o (channel \o cur))
           NewWay(u) == stored \o (u \o (channel \o recs))
<1>1. /\ stored \in Seq(Rec) /\ channel \in Seq(Rec) /\ hand \in Seq(Rec)
      /\ executed \in Seq(Rec) /\ <<>> \in Seq(Rec)
  BY SeqFacts
<1>2. ASSUME NEW u \in Seq(Rec), executed = Way(u)
      PROVE  executed' = NewWay(u)
  <2>1. channel \o cur = channel
    BY <1>1, ConcatEmptySeq
  <2>2. executed = stored \o (u \o channel)
    BY <1>2, <2>1
  <2> QED BY <1>1, <2>2, Lengthened
<1> HIDE DEF Way, NewWay
<1>3. Unstored \in Seq(Rec) /\ Unstored' = Unstored
  BY <1>1 DEF Unstored
<1>4. \A u : Behind(u) = Way(u) /\ Behind(u)' = stored' \o (u' \o (channel' \o cur'))
  BY DEF Behind, Way
<1>5. ASSUME NEW u \in {<<>>, hand, Unstored}, executed = Behind(u)
      PROVE  executed' = NewWay(u)
  BY <1>1, <1>2, <1>3, <1>5 DEF Behind, Way
<1>6. InFlight'
  <2>1. ASSUME ~cancelled, spc = "halted"
        PROVE  executed' = Behind(<<>>)' \/ executed' = Behind(hand)'
    BY <1>5, <2>1 DEF IInv, InFlight, Behind, NewWay
  <2>2. ASSUME ~cancelled, spc # "halted"
        PROVE  executed' = Behind(Unstored)'
    BY <1>3, <1>5, <2>2 DEF IInv, InFlight, Behind, NewWay
  <2> QED BY <2>1, <2>2 DEF InFlight
<1>7. executed' \in Seq(Rec) /\ IsPrefix(executed, executed')
  BY <1>1, PrefixOfConcat
<1>8. IsPrefix(stored, executed')
  <2>1. /\ Len(executed) <= Len(executed')
        /\ \A i \in 1..Len(executed) : executed[i] = executed'[i]
    BY <1>1, <1>7, PrefixElements
  <2>2. /\ Len(stored) <= Len(executed')
        /\ \A i \in 1..Len(stored) : stored[i] = executed'[i]
    BY <1>1, <1>7, <2>1, SeqFacts
  <2> QED BY <1>1, <1>7, <2>2, PrefixElements
<1> QED BY <1>6, <1>7, <1>8

\* What holds of everything executed before and of what is executed now.
LEMMA Grown ==
  ASSUME executed \in Seq(Rec), NEW recs \in Seq(Rec), executed' = executed \o recs
  PROVE  \A i \in DOMAIN executed' :
           \/ i \in DOMAIN executed /\ executed'[i] = executed[i]
           \/ i - Len(executed) \in DOMAIN recs /\ executed'[i] = recs[i - Len(executed)]
BY ConcatElements

\* No transaction is executed twice.
LEMMA GrownOnce ==
  ASSUME IInv, NEW recs \in Seq(Rec), executed' = executed \o recs,
         \A i \in DOMAIN executed, k \in DOMAIN recs : executed[i].tx # recs[k].tx,
         \A k, l \in DOMAIN recs : recs[k].tx = recs[l].tx => k = l
  PROVE  \A i, j \in DOMAIN executed' : executed'[i].tx = executed'[j].tx => i = j
<1> SUFFICES ASSUME NEW i \in DOMAIN executed', NEW j \in DOMAIN executed',
                    executed'[i].tx = executed'[j].tx
             PROVE  i = j
  OBVIOUS
<1>1. executed \in Seq(Rec) /\ executed' \in Seq(Rec)
  BY SeqFacts, ConcatProperties
<1>2. i \in Nat /\ j \in Nat /\ Len(executed) \in Nat
  BY <1>1
<1>3. \A k \in {i, j} :
           \/ k \in DOMAIN executed /\ executed'[k] = executed[k]
           \/ k - Len(executed) \in DOMAIN recs /\ executed'[k] = recs[k - Len(executed)]
  BY <1>1, Grown
<1>4. CASE i \in DOMAIN executed /\ executed'[i] = executed[i]
  BY <1>3, <1>4 DEF IInv, Once
<1>5. CASE i - Len(executed) \in DOMAIN recs /\ executed'[i] = recs[i - Len(executed)]
  <2>1. CASE j \in DOMAIN executed /\ executed'[j] = executed[j]
    BY <1>5, <2>1
  <2>2. CASE j - Len(executed) \in DOMAIN recs /\ executed'[j] = recs[j - Len(executed)]
    <3>1. i - Len(executed) = j - Len(executed)
      BY <1>5, <2>2
    <3> QED BY <1>2, <3>1
  <2> QED BY <1>3, <2>1, <2>2
<1> QED BY <1>3, <1>4, <1>5

\* A transaction of the pool.
LEMMA processTransactionIInv ==
  ASSUME IInv, FaultsType', NEW tx \in Tx, processTransaction(tx)
  PROVE  IInv'
<1> DEFINE r == ToStore(tx, batch, FALSE)
           recs == <<r>>
<1>1. /\ fpc = "loop" /\ fpc' = "flush" /\ cur = <<>> /\ cur' = recs
      /\ executed' = executed \o recs /\ sent' = sent + 1 /\ ~cancelled
      /\ UNCHANGED <<batch, lastPendingFlushID, updaterVars, storerVars, sharedVars, dbVars,
                     prover, flushed, cancelled>>
  BY DEF processTransaction, Execute, IInv, TypeOK
<1>2. tx \notin Txs(executed)
  BY DEF processTransaction
<1>3. /\ r.tx = tx /\ r.batch = batch /\ r.forced = FALSE /\ r.prover = prover
      /\ r \in Rec
  BY DEF IInv, TypeOK, ToStore, Rec, AllTx
<1> HIDE DEF r
<1>4. /\ recs \in Seq(Rec) /\ Len(recs) = 1 /\ recs[1] = r /\ recs # <<>>
      /\ \A k \in DOMAIN recs : k = 1 /\ recs[k] = r
  BY <1>3
<1> HIDE DEF recs
<1>5. executed' \in Seq(Rec) /\ InFlight' /\ IsPrefix(stored, executed)'
  BY <1>1, <1>4, ExecutedLast
<1>6. \A i \in DOMAIN executed' :
        \/ i \in DOMAIN executed /\ executed'[i] = executed[i]
        \/ executed'[i] = r
  BY <1>1, <1>4, Grown, SeqFacts
<1>7. TypeOK'
  BY <1>1, <1>4, <1>5 DEF IInv, TypeOK, FaultsType
<1>8. Places' /\ Counted'
  BY <1>1, <1>4 DEF IInv, Places, Counted
<1>9. Numbered'
  <2>1. batch \notin closed
    BY <1>1 DEF IInv, Numbered
  <2>2. batch \in Nat
    BY DEF IInv, TypeOK
  <2> QED BY <1>1, <1>3, <1>4, <1>6, <2>1, <2>2 DEF IInv, Numbered
<1>10. Once'
  <2>1. \A i \in DOMAIN executed, k \in DOMAIN recs : executed[i].tx # recs[k].tx
    BY <1>2, <1>3, <1>4 DEF Txs
  <2>2. \A i, j \in DOMAIN executed' : executed'[i].tx = executed'[j].tx => i = j
    <3>1. \A k, l \in DOMAIN recs : recs[k].tx = recs[l].tx => k = l
      BY <1>4
    <3> QED BY <1>1, <1>4, <2>1, <3>1, GrownOnce
  <2>3. \A i \in DOMAIN executed' :
          \/ executed'[i].tx \in Tx
          \/ \E n \in 1..forcedDone : executed'[i].tx \in ToSet(ForcedBatches[n])
    BY <1>3, <1>6 DEF IInv, Once
  <2> QED BY <1>1, <2>2, <2>3 DEF IInv, Once
<1>11. Complete'
  <2>1. batch \notin closed
    BY <1>1 DEF IInv, Numbered
  <2> QED BY <1>1, <1>3, <1>6, <2>1 DEF IInv, Complete
<1>12. Known'
  BY <1>1 DEF IInv, Known
<1>13. Flushed' /\ StoredIsFlushed'
  BY <1>1, <1>3, <1>4 DEF IInv, Flushed, StoredIsFlushed, Durable
<1> QED BY <1>5, <1>7, <1>8, <1>9, <1>10, <1>11, <1>12, <1>13 DEF IInv

\* A forced batch: its transactions are not of the pool, and of no forced batch
\* before it.
LEMMA processForcedBatchIInv ==
  ASSUME IInv, FaultsType', processForcedBatch
  PROVE  IInv'
<1> DEFINE txs == ForcedBatches[forcedDone + 1]
           recs == [i \in DOMAIN txs |-> ToStore(txs[i], batch + 1, TRUE)]
<1>1. /\ fpc = "open" /\ fpc' = (IF txs = <<>> THEN "open" ELSE "flush")
      /\ cur = <<>> /\ cur' = recs /\ forcedDone < Len(ForcedBatches)
      /\ executed' = executed \o recs /\ sent' = sent + 1 /\ ~cancelled
      /\ batch' = batch + 1 /\ forcedDone' = forcedDone + 1
      /\ closed' = closed \cup {batch + 1}
      /\ UNCHANGED <<lastPendingFlushID, updaterVars, storerVars, sharedVars, stored,
                     prover, flushed, cancelled>>
  BY DEF processForcedBatch, Execute, IInv, TypeOK
<1>2. /\ forcedDone \in Nat /\ forcedDone + 1 \in DOMAIN ForcedBatches
      /\ batch \in Nat /\ sent \in Nat /\ prover \in 1..MaxProvers
  <2>1. forcedDone \in Nat /\ batch \in Nat /\ sent \in Nat /\ prover \in 1..MaxProvers
    BY DEF IInv, TypeOK
  <2>2. DOMAIN ForcedBatches = 1..Len(ForcedBatches) /\ Len(ForcedBatches) \in Nat
    BY PendingStoreAssumption
  <2>3. forcedDone < Len(ForcedBatches)
    BY <1>1
  <2> QED BY <2>1, <2>2, <2>3
<1>3. /\ txs \in Seq(ForcedTx)
      /\ \A i \in DOMAIN txs : txs[i] \in ForcedTx /\ txs[i] \notin Tx
  BY <1>2, PendingStoreAssumption
<1>4. \A n \in 1..forcedDone, i \in DOMAIN txs : txs[i] \notin ToSet(ForcedBatches[n])
  <2>1. \A n \in 1..forcedDone : n \in DOMAIN ForcedBatches /\ n # forcedDone + 1
    BY <1>2, PendingStoreAssumption
  <2> QED BY <1>2, <2>1, PendingStoreAssumption DEF ToSet
<1>5. \A i, j \in DOMAIN txs : txs[i] = txs[j] => i = j
  BY <1>2, PendingStoreAssumption
<1> HIDE DEF txs
<1>6. \A i \in DOMAIN txs :
        /\ recs[i] \in Rec /\ recs[i].tx = txs[i] /\ recs[i].batch = batch + 1
        /\ recs[i].forced = TRUE /\ recs[i].prover = prover
  BY <1>2, <1>3 DEF ToStore, Rec, AllTx
<1>7. /\ recs \in Seq(Rec) /\ DOMAIN recs = DOMAIN txs
      /\ (recs = <<>> <=> txs = <<>>)
  <2>1. DOMAIN recs = DOMAIN txs /\ DOMAIN txs = 1..Len(txs) /\ Len(txs) \in Nat
    BY <1>3
  <2>2. recs \in [1..Len(txs) -> Rec]
    BY <1>6, <2>1
  <2> HIDE DEF recs
  <2>3. recs \in Seq(Rec) /\ Len(recs) = Len(txs)
    BY <2>1, <2>2
  <2>4. recs = <<>> <=> Len(recs) = 0
    BY <2>3
  <2>5. txs = <<>> <=> Len(txs) = 0
    BY <1>3
  <2> QED BY <2>1, <2>3, <2>4, <2>5
<1> HIDE DEF recs
<1>8. executed' \in Seq(Rec) /\ InFlight' /\ IsPrefix(stored, executed)'
  BY <1>1, <1>7, ExecutedLast
<1>9. \A i \in DOMAIN executed' :
        \/ i \in DOMAIN executed /\ executed'[i] = executed[i]
        \/ \E k \in DOMAIN txs : executed'[i] = recs[k]
  BY <1>1, <1>7, Grown, SeqFacts
<1>10. TypeOK'
  BY <1>1, <1>2, <1>7, <1>8 DEF IInv, TypeOK, FaultsType
<1>11. Places'
  <2>1. \A i \in DOMAIN recs : recs[i].forced = recs[1].forced
    <3>1. \A i \in DOMAIN recs : 1 \in DOMAIN recs
      BY <1>7
    <3>2. \A i \in DOMAIN recs : recs[i].forced = TRUE
      BY <1>6, <1>7
    <3> QED BY <3>1, <3>2
  <2> QED BY <1>1, <2>1 DEF IInv, Places
<1>12. Counted'
  BY <1>1 DEF IInv, Counted
<1>13. Numbered'
  <2>1. \A c \in closed' : c <= batch'
    BY <1>1, <1>2 DEF IInv, Numbered, TypeOK
  <2>2. \A i \in DOMAIN executed' : executed'[i].batch <= batch'
    <3>1. \A i \in DOMAIN executed : executed[i].batch \in Nat /\ executed[i].batch <= batch
      BY SeqFacts, RecOf DEF IInv, Numbered
    <3>2. \A k \in DOMAIN txs : recs[k].batch = batch + 1
      BY <1>6
    <3>3. \A i \in DOMAIN executed' : executed'[i].batch \in Nat /\ executed'[i].batch <= batch + 1
      BY <1>2, <1>9, <3>1, <3>2
    <3> QED BY <1>1, <3>3
  <2>3. cur' # <<>> => cur'[1].forced
    BY <1>1, <1>3, <1>6, <1>7
  <2> QED BY <1>1, <2>1, <2>2, <2>3 DEF Numbered
<1>14. Once'
  <2>1. \A i \in DOMAIN executed, k \in DOMAIN recs : executed[i].tx # recs[k].tx
    BY <1>3, <1>4, <1>6, <1>7 DEF IInv, Once
  <2>2. \A k, l \in DOMAIN recs : recs[k].tx = recs[l].tx => k = l
    BY <1>5, <1>6, <1>7
  <2>3. \A i, j \in DOMAIN executed' : executed'[i].tx = executed'[j].tx => i = j
    BY <1>1, <1>7, <2>1, <2>2, GrownOnce
  <2>4. \A k \in DOMAIN txs : recs[k].tx \in ToSet(ForcedBatches[forcedDone + 1])
    BY <1>6 DEF ToSet, txs
  <2>5. \A n \in 1..forcedDone : n \in 1..forcedDone'
    BY <1>1, <1>2
  <2>6. forcedDone + 1 \in 1..forcedDone'
    BY <1>1, <1>2
  <2>7. \A i \in DOMAIN executed' :
          \/ executed'[i].tx \in Tx
          \/ \E n \in 1..forcedDone' : executed'[i].tx \in ToSet(ForcedBatches[n])
    <3> TAKE i \in DOMAIN executed'
    <3>1. CASE i \in DOMAIN executed /\ executed'[i] = executed[i]
      BY <2>5, <3>1 DEF IInv, Once
    <3>2. CASE \E k \in DOMAIN txs : executed'[i] = recs[k]
      BY <2>4, <2>6, <3>2
    <3> QED BY <1>9, <3>1, <3>2
  <2>8. forcedDone' <= Len(ForcedBatches)
    BY <1>1, <1>2, PendingStoreAssumption
  <2> QED BY <2>3, <2>7, <2>8 DEF Once
<1>15. Complete'
  <2>1. \A i \in DOMAIN executed : executed[i].batch # batch + 1
    <3>1. \A i \in DOMAIN executed : executed[i].batch \in Nat /\ executed[i].batch <= batch
      BY SeqFacts, RecOf DEF IInv, Numbered
    <3> QED BY <1>2, <3>1
  <2>2. \A k \in DOMAIN txs : recs[k].forced
    BY <1>6
  <2> QED BY <1>1, <1>9, <2>1, <2>2 DEF IInv, Complete
<1>16. Known'
  BY <1>1 DEF IInv, Known
<1>17. Flushed' /\ StoredIsFlushed'
  BY <1>1, <1>6, <1>7 DEF IInv, Flushed, StoredIsFlushed, Durable
<1> QED BY <1>8, <1>10, <1>11, <1>12, <1>13, <1>14, <1>15, <1>16, <1>17 DEF IInv

\* The finalizer publishes the flush id of what it executed.
LEMMA updateLastPendingFlushIDIInv ==
  ASSUME IInv, FaultsType', updateLastPendingFlushID
  PROVE  IInv'
<1> USE DEF updateLastPendingFlushID
<1>1. cur # <<>> /\ Head(cur).flush \in Nat
  <2>1. cur \in Seq(Rec) /\ cur # <<>>
    BY DEF IInv, TypeOK
  <2> QED BY <2>1, RecOf
<1>2. TypeOK'
  BY <1>1 DEF IInv, TypeOK, FaultsType
<1>3. Places' /\ Counted' /\ Numbered' /\ Once' /\ Complete' /\ IsPrefix(stored, executed)'
  BY <1>1 DEF IInv, Places, Counted, Numbered, Once, Complete, IsPrefix
<1>4. InFlight'
  BY DEF IInv, InFlight, Behind, Unstored
<1>5. Known' /\ Flushed' /\ StoredIsFlushed'
  BY DEF IInv, Known, Flushed, StoredIsFlushed, Durable
<1> QED BY <1>2, <1>3, <1>4, <1>5 DEF IInv

\* The transaction is noted as pending in the worker before it is sent.
LEMMA addPendingTxToStoreIInv ==
  ASSUME IInv, FaultsType', addPendingTxToStore
  PROVE  IInv'
<1> USE DEF addPendingTxToStore
<1>1. cur # <<>> /\ Head(cur) = cur[1] /\ Head(cur).tx \in AllTx
  <2>1. cur \in Seq(Rec) /\ cur # <<>>
    BY DEF IInv, TypeOK
  <2> QED BY <2>1, RecOf
<1>2. TypeOK'
  BY <1>1 DEF IInv, TypeOK, FaultsType
<1>3. Counted'
  BY DEF IInv, TypeOK, Counted
<1>4. Places' /\ Numbered' /\ Once' /\ Complete' /\ IsPrefix(stored, executed)'
  BY <1>1 DEF IInv, Places, Numbered, Once, Complete, IsPrefix
<1>5. InFlight'
  BY DEF IInv, InFlight, Behind, Unstored
<1>6. Known'
  BY <1>1 DEF IInv, Known
<1>7. Flushed' /\ StoredIsFlushed'
  BY DEF IInv, Flushed, StoredIsFlushed, Durable
<1> QED BY <1>2, <1>3, <1>4, <1>5, <1>6, <1>7 DEF IInv

\* The finalizer goes on to the next response.
LEMMA NextResponseFacts ==
  ASSUME IInv, fpc = "send", NextResponse
  PROVE  /\ cur # <<>> /\ Head(cur) = cur[1] /\ Head(cur) \in Rec /\ Head(cur).tx \in AllTx
         /\ cur' \in Seq(Rec)
         /\ cur' # <<>> <=> fpc' \in {"flush", "notify", "add", "send"}
         /\ fpc' \in {"flush", "open", "loop"}
         /\ \A i \in DOMAIN cur' : i + 1 \in DOMAIN cur /\ cur'[i] = cur[i + 1]
         /\ \A i \in DOMAIN cur' : cur'[i].forced = cur'[1].forced
         /\ Numbered'
<1>1. cur \in Seq(Rec) /\ cur # <<>>
  BY DEF IInv, TypeOK
<1>2. /\ 1 \in DOMAIN cur /\ Head(cur) = cur[1] /\ Head(cur) \in Rec
      /\ cur' \in Seq(Rec) /\ Len(cur') = Len(cur) - 1
      /\ \A i \in DOMAIN cur' : i + 1 \in DOMAIN cur /\ cur'[i] = cur[i + 1]
  BY <1>1, RecOf DEF NextResponse
<1>3. Head(cur).tx \in AllTx /\ Head(cur).forced \in BOOLEAN
  BY <1>2 DEF Rec
<1>4. cur' # <<>> <=> Len(cur) > 1
  BY <1>1, <1>2
<1>5. /\ cur' # <<>> <=> fpc' \in {"flush", "notify", "add", "send"}
      /\ fpc' \in {"flush", "open", "loop"}
  BY <1>4 DEF NextResponse
<1>6. \A i \in DOMAIN cur' : 1 \in DOMAIN cur'
  BY <1>2
<1>7. \A i \in DOMAIN cur' : cur'[i].forced = cur[1].forced /\ cur'[1].forced = cur[1].forced
  BY <1>2, <1>6 DEF IInv, Places
<1>8. Numbered'
  <2>1. UNCHANGED <<closed, batch, executed>>
    BY DEF NextResponse
  <2>2. fpc' = "loop" => ~cur[1].forced
    BY <1>2, <1>4 DEF NextResponse
  <2>3. cur' # <<>> /\ ~cur'[1].forced => ~cur[1].forced
    <3>1. cur' # <<>> => 1 \in DOMAIN cur'
      BY <1>2
    <3> QED BY <1>7, <3>1
  <2> QED BY <1>1, <1>5, <2>1, <2>2, <2>3 DEF IInv, Numbered
<1> QED BY <1>1, <1>2, <1>3, <1>5, <1>7, <1>8

\* The channel takes the transaction.
LEMMA SendIInv ==
  ASSUME IInv, FaultsType', Send
  PROVE  IInv'
<1>1. /\ fpc = "send" /\ channel' = Append(channel, Head(cur)) /\ cur' = Tail(cur)
      /\ UNCHANGED <<batch, lastPendingFlushID, executed, wg, inWorker, updaterVars,
                     storerVars, dbVars, executorVars, cancelled>>
  BY DEF Send, NextResponse
<1>2. /\ cur # <<>> /\ Head(cur) = cur[1] /\ Head(cur) \in Rec
      /\ cur' \in Seq(Rec)
      /\ cur' # <<>> <=> fpc' \in {"flush", "notify", "add", "send"}
      /\ fpc' \in {"flush", "open", "loop"}
      /\ \A i \in DOMAIN cur' : i + 1 \in DOMAIN cur /\ cur'[i] = cur[i + 1]
      /\ \A i \in DOMAIN cur' : cur'[i].forced = cur'[1].forced
      /\ Numbered'
  BY NextResponseFacts DEF Send
<1>3. channel \in Seq(Rec) /\ cur \in Seq(Rec)
  BY SeqFacts
<1>4. /\ channel' \in Seq(Rec) /\ Len(channel') = Len(channel) + 1
      /\ \A i \in DOMAIN channel' :
           \/ i \in DOMAIN channel /\ channel'[i] = channel[i]
           \/ channel'[i] = cur[1]
  <2> DEFINE h == Head(cur)
  <2>1. h \in Rec /\ channel' = Append(channel, h) /\ h = cur[1]
    BY <1>1, <1>2
  <2> HIDE DEF h
  <2> QED BY <1>3, <2>1
<1>5. TypeOK'
  BY <1>1, <1>2, <1>4 DEF IInv, TypeOK, FaultsType
<1>6. Places'
  BY <1>1, <1>2 DEF IInv, Places
<1>7. Counted'
  BY <1>1, <1>2, <1>3, <1>4 DEF IInv, TypeOK, Counted
<1>8. InFlight'
  <2>1. channel' \o cur' = channel \o cur
    BY <1>1, <1>2, <1>3, HandOver
  <2>2. Unstored' = Unstored
    BY <1>1 DEF Unstored
  <2>3. Behind(<<>>)' = Behind(<<>>)
    BY <1>1, <2>1, Zenon DEF Behind, storerVars, dbVars
  <2>4. Behind(hand)' = Behind(hand)
    BY <1>1, <2>1, Zenon DEF Behind, storerVars, dbVars
  <2>5. Behind(Unstored)' = Behind(Unstored)
    BY <1>1, <2>1, <2>2, Zenon DEF Behind, storerVars, dbVars
  <2> QED BY <1>1, <2>3, <2>4, <2>5 DEF IInv, InFlight
<1>9. Once' /\ Complete' /\ IsPrefix(stored, executed)'
  BY <1>1 DEF IInv, Once, Complete, IsPrefix
<1>10. Known'
  BY <1>1, <1>2, <1>4 DEF IInv, Known
<1>11. Flushed'
  <2>1. 1 \in DOMAIN cur
    BY <1>2, <1>3
  <2> QED BY <1>1, <1>2, <1>4, <2>1 DEF IInv, Flushed
<1>12. StoredIsFlushed'
  BY <1>1 DEF IInv, StoredIsFlushed, Durable
<1> QED BY <1>2, <1>5, <1>6, <1>7, <1>8, <1>9, <1>10, <1>11, <1>12 DEF IInv

\* The sender gives up when the context is done.
LEMMA SendCancelledIInv ==
  ASSUME IInv, FaultsType', SendCancelled
  PROVE  IInv'
<1>1. /\ fpc = "send" /\ cancelled /\ wg' = wg - 1 /\ cur' = Tail(cur)
      /\ inWorker' \subseteq inWorker
      /\ UNCHANGED <<batch, lastPendingFlushID, executed, channel, updaterVars,
                     storerVars, dbVars, executorVars, cancelled>>
  BY DEF SendCancelled, NextResponse
<1>2. /\ cur' \in Seq(Rec)
      /\ cur' # <<>> <=> fpc' \in {"flush", "notify", "add", "send"}
      /\ fpc' \in {"flush", "open", "loop"}
      /\ \A i \in DOMAIN cur' : i + 1 \in DOMAIN cur /\ cur'[i] = cur[i + 1]
      /\ \A i \in DOMAIN cur' : cur'[i].forced = cur'[1].forced
      /\ Numbered'
  BY NextResponseFacts DEF SendCancelled
<1>3. TypeOK'
  BY <1>1, <1>2 DEF IInv, TypeOK, FaultsType
<1>4. Places' /\ InFlight' /\ Known'
  BY <1>1, <1>2 DEF IInv, Places, InFlight, Known
<1>5. Counted'
  BY <1>1, <1>2 DEF IInv, TypeOK, Counted
<1>6. Once' /\ Complete' /\ IsPrefix(stored, executed)'
  BY <1>1 DEF IInv, Once, Complete, IsPrefix
<1>7. Flushed' /\ StoredIsFlushed'
  BY <1>1, <1>2 DEF IInv, Flushed, StoredIsFlushed, Durable
<1> QED BY <1>2, <1>3, <1>4, <1>5, <1>6, <1>7 DEF IInv

\* When the wait group is zero, nothing is on its way.
LEMMA closeBatchIInv ==
  ASSUME IInv, FaultsType', closeBatch
  PROVE  IInv'
<1>1. /\ fpc = "close" /\ fpc' = "open" /\ wg = 0 /\ ~cancelled
      /\ closed' = closed \cup {batch}
      /\ UNCHANGED <<cur, batch, lastPendingFlushID, executed, updaterVars, storerVars,
                     sharedVars, stored, forcedDone, executorVars, cancelled>>
  BY DEF closeBatch
<1>2. executed = stored
  <2>1. /\ hand \in Seq(Rec) /\ channel \in Seq(Rec) /\ cur = <<>> /\ stored \in Seq(Rec)
    BY <1>1 DEF IInv, TypeOK
  <2>2. Len(hand) = 0 /\ Len(channel) = 0
    BY <1>1, <2>1 DEF IInv, Counted
  <2>3. hand = <<>> /\ channel = <<>>
    BY <2>1, <2>2
  <2>4. executed = Behind(<<>>)
    BY <1>1, <2>3 DEF IInv, InFlight, Places, Unstored
  <2> QED BY <2>1, <2>3, <2>4, ConcatEmptySeq DEF Behind
<1>3. TypeOK' /\ Places' /\ Counted' /\ Known'
  BY <1>1 DEF IInv, TypeOK, FaultsType, Places, Counted, Known
<1>4. Numbered'
  BY <1>1 DEF IInv, TypeOK, Numbered
<1>5. InFlight'
  BY <1>1 DEF IInv, InFlight, Behind, Unstored
<1>6. Complete'
  BY <1>1, <1>2 DEF Complete, ToSet
<1>7. Once' /\ IsPrefix(stored, executed)' /\ Flushed' /\ StoredIsFlushed'
  BY <1>1 DEF IInv, Once, IsPrefix, Flushed, StoredIsFlushed, Durable
<1> QED BY <1>3, <1>4, <1>5, <1>6, <1>7 DEF IInv

\* A batch is opened.
LEMMA openWIPBatchIInv ==
  ASSUME IInv, FaultsType', openWIPBatch
  PROVE  IInv'
<1> USE DEF openWIPBatch
<1>1. TypeOK' /\ Places' /\ Counted' /\ Known'
  BY DEF IInv, TypeOK, FaultsType, Places, Counted, Known
<1>2. Numbered'
  <2>1. batch \in Nat /\ closed \in SUBSET Nat /\ cur = <<>>
    BY DEF IInv, TypeOK
  <2>2. \A i \in DOMAIN executed : executed[i].batch \in Nat /\ executed[i].batch <= batch
    BY SeqFacts, RecOf DEF IInv, Numbered
  <2>3. \A i \in DOMAIN executed : executed[i].batch <= batch + 1
    BY <2>1, <2>2
  <2>4. \A c \in closed : c <= batch + 1 /\ c # batch + 1
    BY <2>1 DEF IInv, Numbered
  <2> QED BY <2>1, <2>3, <2>4 DEF Numbered
<1>3. InFlight'
  BY DEF IInv, InFlight, Behind, Unstored
<1>4. Once' /\ Complete' /\ IsPrefix(stored, executed)' /\ Flushed' /\ StoredIsFlushed'
  BY DEF IInv, Once, Complete, IsPrefix, Flushed, StoredIsFlushed, Durable
<1> QED BY <1>1, <1>2, <1>3, <1>4 DEF IInv

\* The batch is to be closed; the wait group comes first.
LEMMA finalizeBatchIInv ==
  ASSUME IInv, FaultsType', finalizeBatch
  PROVE  IInv'
<1> USE DEF finalizeBatch
<1>1. TypeOK' /\ Places' /\ Counted' /\ Numbered'
  BY DEF IInv, TypeOK, FaultsType, Places, Counted, Numbered
<1>2. InFlight'
  BY DEF IInv, InFlight, Behind, Unstored
<1>3. Once' /\ Complete' /\ IsPrefix(stored, executed)'
  BY DEF IInv, Once, Complete, IsPrefix
<1>4. Known' /\ Flushed' /\ StoredIsFlushed'
  BY DEF IInv, Known, Flushed, StoredIsFlushed, Durable
<1> QED BY <1>1, <1>2, <1>3, <1>4 DEF IInv

\* The finalizer wakes whoever waits for a pending flush id.
LEMMA BroadcastPendingIInv ==
  ASSUME IInv, FaultsType', BroadcastPending
  PROVE  IInv'
<1> USE DEF BroadcastPending
<1>1. TypeOK' /\ Places' /\ Counted' /\ Numbered'
  BY DEF IInv, TypeOK, FaultsType, Places, Counted, Numbered
<1>2. InFlight'
  BY DEF IInv, InFlight, Behind, Unstored
<1>3. Once' /\ Complete' /\ IsPrefix(stored, executed)'
  BY DEF IInv, Once, Complete, IsPrefix
<1>4. Known' /\ Flushed' /\ StoredIsFlushed'
  BY DEF IInv, Known, Flushed, StoredIsFlushed, Durable
<1> QED BY <1>1, <1>2, <1>3, <1>4 DEF IInv

\* The finalizer stops when the context is done.
LEMMA StopIInv ==
  ASSUME IInv, FaultsType', Stop
  PROVE  IInv'
<1> USE DEF Stop
<1>1. TypeOK' /\ Places' /\ Counted' /\ Numbered'
  BY DEF IInv, TypeOK, FaultsType, Places, Counted, Numbered
<1>2. InFlight'
  BY DEF IInv, InFlight, Behind, Unstored
<1>3. Once' /\ Complete' /\ IsPrefix(stored, executed)'
  BY DEF IInv, Once, Complete, IsPrefix
<1>4. Known' /\ Flushed' /\ StoredIsFlushed'
  BY DEF IInv, Known, Flushed, StoredIsFlushed, Durable
<1> QED BY <1>1, <1>2, <1>3, <1>4 DEF IInv

-----------------------------------------------------------------------------
(***************************************************************************)
(* The goroutine that polls the executor.                                  *)
(***************************************************************************)

\* The stored flush id is read from the executor.
LEMMA GetStoredFlushIDIInv ==
  ASSUME IInv, FaultsType', GetStoredFlushID
  PROVE  IInv'
<1>1. /\ \/ got' = [flush |-> flushed[prover], prover |-> prover]
         \/ got' = got
      /\ upc' \in {"update", "poll", "check"}
      /\ UNCHANGED <<finalizerVars, storedFlushID, storerVars, sharedVars,
                     dbVars, executorVars, cancelled>>
  BY DEF GetStoredFlushID
<1>2. prover \in 1..MaxProvers /\ flushed[prover] \in Nat
  BY DEF IInv, TypeOK
<1>3. got' \in [flush : Nat, prover : 0..MaxProvers]
  <2>1. prover \in 0..MaxProvers
    BY <1>2, PendingStoreAssumption
  <2> QED BY <1>1, <1>2, <2>1 DEF IInv, TypeOK
<1>4. TypeOK' /\ Places' /\ Counted' /\ Numbered'
  BY <1>1, <1>3 DEF IInv, TypeOK, FaultsType, Places, Counted, Numbered
<1>5. InFlight'
  BY <1>1 DEF IInv, InFlight, Behind, Unstored
<1>6. Once' /\ Complete' /\ IsPrefix(stored, executed)' /\ Known'
  BY <1>1 DEF IInv, Once, Complete, IsPrefix, Known
<1>7. Flushed' /\ StoredIsFlushed'
  <2>1. prover = 1 => got'.flush <= flushed[1]
    BY <1>1, <1>2 DEF IInv, Flushed
  <2> QED BY <1>1, <2>1 DEF IInv, Flushed, StoredIsFlushed, Durable
<1> QED BY <1>4, <1>5, <1>6, <1>7 DEF IInv

\* The pending flush id is compared with the stored one.
LEMMA CheckPendingIInv ==
  ASSUME IInv, FaultsType', CheckPending
  PROVE  IInv'
<1> USE DEF CheckPending
<1>1. TypeOK' /\ Places' /\ Counted' /\ Numbered'
  BY DEF IInv, TypeOK, FaultsType, Places, Counted, Numbered
<1>2. InFlight'
  BY DEF IInv, InFlight, Behind, Unstored
<1>3. Once' /\ Complete' /\ IsPrefix(stored, executed)'
  BY DEF IInv, Once, Complete, IsPrefix
<1>4. Known' /\ Flushed' /\ StoredIsFlushed'
  BY DEF IInv, Known, Flushed, StoredIsFlushed, Durable
<1> QED BY <1>1, <1>2, <1>3, <1>4 DEF IInv

\* The goroutine has registered with the condition.
LEMMA WaitPendingIInv ==
  ASSUME IInv, FaultsType', WaitPending
  PROVE  IInv'
<1> USE DEF WaitPending
<1>1. TypeOK' /\ Places' /\ Counted' /\ Numbered'
  BY DEF IInv, TypeOK, FaultsType, Places, Counted, Numbered
<1>2. InFlight'
  BY DEF IInv, InFlight, Behind, Unstored
<1>3. Once' /\ Complete' /\ IsPrefix(stored, executed)'
  BY DEF IInv, Once, Complete, IsPrefix
<1>4. Known' /\ Flushed' /\ StoredIsFlushed'
  BY DEF IInv, Known, Flushed, StoredIsFlushed, Durable
<1> QED BY <1>1, <1>2, <1>3, <1>4 DEF IInv

\* The stored flush id is published.
LEMMA UpdateStoredIInv ==
  ASSUME IInv, FaultsType', UpdateStored
  PROVE  IInv'
<1> USE DEF UpdateStored
<1>1. TypeOK' /\ Places' /\ Counted' /\ Numbered'
  BY DEF IInv, TypeOK, FaultsType, Places, Counted, Numbered
<1>2. InFlight'
  BY DEF IInv, InFlight, Behind, Unstored
<1>3. Once' /\ Complete' /\ IsPrefix(stored, executed)'
  BY DEF IInv, Once, Complete, IsPrefix
<1>4. Known' /\ Flushed' /\ StoredIsFlushed'
  BY DEF IInv, Known, Flushed, StoredIsFlushed, Durable
<1> QED BY <1>1, <1>2, <1>3, <1>4 DEF IInv

-----------------------------------------------------------------------------
(***************************************************************************)
(* The storing goroutine.                                                  *)
(***************************************************************************)

\* The first of a sequence moves to the sequence before it.
LEMMA TakeFirst ==
  ASSUME NEW b \in Seq(Rec), b # <<>>, NEW c \in Seq(Rec)
  PROVE  <<Head(b)>> \o (Tail(b) \o c) = b \o c
<1> DEFINE h == <<Head(b)>>
           t == Tail(b)
<1>1. h \in Seq(Rec) /\ t \in Seq(Rec)
  BY HeadTailProperties
<1>2. h \o t = b
  BY HeadTailProperties
<1> HIDE DEF h, t
<1>3. (h \o t) \o c = h \o (t \o c)
  BY <1>1
<1> QED BY <1>2, <1>3, Zenon DEF h, t

\* The storer takes the first transaction from the channel.
LEMMA ReceiveIInv ==
  ASSUME IInv, FaultsType', Receive
  PROVE  IInv'
<1>1. /\ spc = "recv" /\ spc' = "wait" /\ channel # <<>> /\ hand = <<>>
      /\ hand' = <<Head(channel)>> /\ channel' = Tail(channel)
      /\ UNCHANGED <<finalizerVars, updaterVars, executorVars, cancelled, wg, inWorker, dbVars>>
  BY DEF Receive, IInv, TypeOK
<1>2. channel \in Seq(Rec) /\ cur \in Seq(Rec) /\ stored \in Seq(Rec)
  BY SeqFacts
<1>3. /\ 1 \in DOMAIN channel /\ Head(channel) = channel[1] /\ Head(channel) \in Rec
      /\ channel' \in Seq(Rec) /\ Len(channel') = Len(channel) - 1
      /\ \A i \in DOMAIN channel' : i + 1 \in DOMAIN channel /\ channel'[i] = channel[i + 1]
  BY <1>1, <1>2, RecOf
<1>4. /\ hand' \in Seq(Rec) /\ Len(hand') = 1 /\ hand'[1] = channel[1] /\ hand' # <<>>
      /\ \A i \in DOMAIN hand' : hand'[i] = channel[1]
  <2> DEFINE h == Head(channel)
  <2>1. h \in Rec /\ hand' = <<h>> /\ h = channel[1]
    BY <1>1, <1>3
  <2> HIDE DEF h
  <2> QED BY <2>1
<1>5. TypeOK'
  BY <1>1, <1>3, <1>4 DEF IInv, TypeOK, FaultsType
<1>6. Places' /\ Numbered' /\ Once' /\ Complete' /\ IsPrefix(stored, executed)'
  BY <1>1 DEF IInv, Places, Numbered, Once, Complete, IsPrefix
<1>7. Counted'
  <2>1. wg = Len(hand) + Len(channel) + (IF fpc = "send" THEN 1 ELSE 0)
    BY DEF IInv, Counted
  <2>2. Len(hand) = 0 /\ Len(channel) \in Nat /\ fpc' = fpc /\ wg' = wg
    BY <1>1, <1>2
  <2>3. wg = Len(hand') + Len(channel') + (IF fpc = "send" THEN 1 ELSE 0)
    BY <1>3, <1>4, <2>1, <2>2
  <2> QED BY <2>2, <2>3 DEF Counted
<1>8. InFlight'
  <2>1. hand' \o (channel' \o cur) = channel \o cur
    BY <1>1, <1>2, TakeFirst
  <2>2. <<>> \o (channel \o cur) = channel \o cur
    BY <1>2, ConcatEmptySeq, ConcatProperties
  <2>3. Unstored = <<>> /\ Unstored' = hand'
    BY <1>1 DEF Unstored
  <2>4. ~cancelled => executed = stored \o (channel \o cur)
    BY <1>1, <2>2, <2>3 DEF IInv, InFlight, Behind
  <2>5. Behind(Unstored)' = stored \o (hand' \o (channel' \o cur))
    BY <1>1, <2>3 DEF Behind
  <2> QED BY <1>1, <2>1, <2>4, <2>5 DEF InFlight
<1>9. Known'
  BY <1>1, <1>3, <1>4 DEF IInv, Known
<1>10. Flushed' /\ StoredIsFlushed'
  BY <1>1, <1>3, <1>4 DEF IInv, Flushed, StoredIsFlushed, Durable
<1> QED BY <1>5, <1>6, <1>7, <1>8, <1>9, <1>10 DEF IInv

\* The transaction in hand waits until its flush id is stored.
LEMMA WaitStoredIInv ==
  ASSUME IInv, FaultsType', WaitStored
  PROVE  IInv'
<1> USE DEF WaitStored
<1>1. TypeOK' /\ Places' /\ Counted' /\ Numbered'
  BY DEF IInv, TypeOK, FaultsType, Places, Counted, Numbered
<1>2. InFlight'
  BY DEF IInv, InFlight, Behind, Unstored
<1>3. Once' /\ Complete' /\ IsPrefix(stored, executed)' /\ Known' /\ StoredIsFlushed'
  BY DEF IInv, Once, Complete, IsPrefix, Known, StoredIsFlushed, Durable
<1>4. Flushed'
  <2>1. hand \in Seq(Rec) /\ hand # <<>> /\ storedFlushID \in Nat
    BY DEF IInv, TypeOK
  <2>2. hand[1].flush \in Nat
    BY <2>1, RecOf
  <2>3. prover = 1 => flushed[1] \in Nat
    BY DEF IInv, TypeOK
  <2> QED BY <2>1, <2>2, <2>3 DEF IInv, Flushed
<1> QED BY <1>1, <1>2, <1>3, <1>4 DEF IInv

\* The transaction in hand is the next one.
LEMMA StoreHand ==
  ASSUME IInv, spc = "store", ~cancelled
  PROVE  /\ stored \o hand \in Seq(Rec)
         /\ executed = (stored \o hand) \o (<<>> \o (channel \o cur))
         /\ IsPrefix(stored \o hand, executed)
         /\ ToSet(stored \o hand) = ToSet(stored) \cup ToSet(hand)
         /\ prover = 1 => \A i \in DOMAIN (stored \o hand) : Durable((stored \o hand)[i])
<1> DEFINE rest == channel \o cur
<1>1. /\ stored \in Seq(Rec) /\ hand \in Seq(Rec) /\ rest \in Seq(Rec)
  BY SeqFacts, ConcatProperties
<1>2. executed = stored \o (hand \o rest)
  BY DEF IInv, InFlight, Behind, Unstored
<1> HIDE DEF rest
<1>3. executed = (stored \o hand) \o rest
  BY <1>1, <1>2, Regroup
<1>4. <<>> \o rest = rest
  BY <1>1, ConcatEmptySeq
<1>5. stored \o hand \in Seq(Rec)
  BY <1>1, ConcatProperties
<1>6. IsPrefix(stored \o hand, executed)
  <2> DEFINE s == stored \o hand
  <2>1. s \in Seq(Rec) /\ executed = s \o rest
    BY <1>3, <1>5
  <2> HIDE DEF s
  <2>2. IsPrefix(s, executed)
    BY <1>1, <2>1, PrefixOfConcat
  <2> QED BY <2>2 DEF s
<1>7. ToSet(stored \o hand) = ToSet(stored) \cup ToSet(hand)
  BY <1>1, ConcatElements
<1>8. ASSUME prover = 1, NEW i \in DOMAIN (stored \o hand)
      PROVE  Durable((stored \o hand)[i])
  <2>1. \/ i \in DOMAIN stored /\ (stored \o hand)[i] = stored[i]
        \/ i - Len(stored) \in DOMAIN hand /\ (stored \o hand)[i] = hand[i - Len(stored)]
    BY <1>1, ConcatElements
  <2>2. CASE i \in DOMAIN stored /\ (stored \o hand)[i] = stored[i]
    BY <1>8, <2>2 DEF IInv, StoredIsFlushed
  <2>3. CASE i - Len(stored) \in DOMAIN hand /\ (stored \o hand)[i] = hand[i - Len(stored)]
    <3>1. Len(hand) <= 1
      BY DEF IInv, TypeOK
    <3>2. i - Len(stored) = 1
      BY <1>1, <2>3, <3>1
    <3>3. hand[1].prover = 1 /\ hand[1].flush <= flushed[1]
      BY <1>8, <2>3, <3>2 DEF IInv, Flushed
    <3> QED BY <2>3, <3>2, <3>3 DEF Durable
  <2> QED BY <2>1, <2>2, <2>3
<1> QED BY <1>3, <1>4, <1>5, <1>6, <1>7, <1>8 DEF rest

\* The transaction in hand is stored.
LEMMA storeProcessedTxIInv ==
  ASSUME IInv, FaultsType', storeProcessedTx
  PROVE  IInv'
<1>1. /\ spc = "store" /\ spc' = "drop" /\ ~cancelled /\ stored' = stored \o hand
      /\ UNCHANGED <<finalizerVars, updaterVars, executorVars, cancelled, hand, sharedVars,
                     closed, forcedDone>>
  BY DEF storeProcessedTx
<1>2. /\ stored' \in Seq(Rec) /\ executed = stored' \o (<<>> \o (channel \o cur))
      /\ IsPrefix(stored', executed)
      /\ ToSet(stored') = ToSet(stored) \cup ToSet(hand)
      /\ prover = 1 => \A i \in DOMAIN stored' : Durable(stored'[i])
  BY <1>1, StoreHand
<1>3. TypeOK'
  BY <1>1, <1>2 DEF IInv, TypeOK, FaultsType
<1>4. Places'
  <2>1. hand \in Seq(Rec) /\ hand # <<>>
    BY <1>1 DEF IInv, TypeOK
  <2>2. hand[1] \in ToSet(hand)
    BY <2>1 DEF ToSet
  <2> QED BY <1>1, <1>2, <2>1, <2>2 DEF IInv, Places
<1>5. Counted' /\ Numbered' /\ Once' /\ Known' /\ Flushed'
  BY <1>1 DEF IInv, Counted, Numbered, Once, Known, Flushed
<1>6. InFlight'
  <2>1. Unstored' = <<>>
    BY <1>1 DEF Unstored
  <2>2. Behind(Unstored)' = stored' \o (<<>> \o (channel \o cur))
    BY <1>1, <2>1 DEF Behind
  <2> QED BY <1>1, <1>2, <2>2 DEF InFlight
<1>7. IsPrefix(stored, executed)' /\ Complete' /\ StoredIsFlushed'
  BY <1>1, <1>2 DEF IInv, Complete, StoredIsFlushed, Durable
<1> QED BY <1>3, <1>4, <1>5, <1>6, <1>7 DEF IInv

\* Storing fails, before the commit or after it.
LEMMA StoreFailsIInv ==
  ASSUME IInv, FaultsType', StoreFails
  PROVE  IInv'
<1>1. /\ spc = "store" /\ spc' = "halted"
      /\ stored' = stored \/ (~cancelled /\ stored' = stored \o hand)
      /\ UNCHANGED <<finalizerVars, updaterVars, executorVars, cancelled, hand, sharedVars,
                     closed, forcedDone>>
  BY DEF StoreFails
<1>2. /\ hand # <<>>
      /\ stored' \in Seq(Rec) /\ IsPrefix(stored', executed)
      /\ ToSet(stored) \subseteq ToSet(stored')
      /\ prover = 1 => \A i \in DOMAIN stored' : Durable(stored'[i])
  BY <1>1, StoreHand DEF IInv, TypeOK, StoredIsFlushed
<1>3. TypeOK' /\ Places'
  BY <1>1, <1>2 DEF IInv, TypeOK, FaultsType, Places
<1>4. Counted' /\ Numbered' /\ Once' /\ Known' /\ Flushed'
  BY <1>1 DEF IInv, Counted, Numbered, Once, Known, Flushed
<1>5. InFlight'
  <2>1. CASE stored' = stored
    BY <1>1, <2>1 DEF IInv, InFlight, Behind, Unstored
  <2>2. CASE ~cancelled /\ stored' = stored \o hand
    <3>1. executed = stored' \o (<<>> \o (channel \o cur))
      BY <1>1, <2>2, StoreHand
    <3> QED BY <1>1, <3>1 DEF InFlight, Behind
  <2> QED BY <1>1, <2>1, <2>2
<1>6. IsPrefix(stored, executed)' /\ Complete' /\ StoredIsFlushed'
  BY <1>1, <1>2 DEF IInv, Complete, StoredIsFlushed, Durable
<1> QED BY <1>3, <1>4, <1>5, <1>6 DEF IInv

\* What is still on its way is not what the goroutine drops.
LEMMA OthersOnWay ==
  ASSUME IInv, spc = "drop", ~cancelled, NEW r \in ToSet(channel) \cup ToSet(cur)
  PROVE  r.tx # hand[1].tx
<1> DEFINE rest == channel \o cur
<1>1. channel \in Seq(Rec) /\ cur \in Seq(Rec) /\ stored \in Seq(Rec) /\ executed \in Seq(Rec)
  BY SeqFacts
<1>2. rest \in Seq(Rec) /\ r \in ToSet(rest)
  BY <1>1, ConcatElements, ConcatProperties
<1>3. executed = stored \o (<<>> \o rest)
  BY DEF IInv, InFlight, Behind, Unstored
<1> HIDE DEF rest
<1>4. executed = stored \o rest
  BY <1>2, <1>3, ConcatEmptySeq
<1>5. PICK j \in DOMAIN rest : rest[j] = r
  BY <1>2 DEF ToSet
<1>6. j + Len(stored) \in DOMAIN executed /\ executed[j + Len(stored)] = r
  BY <1>1, <1>2, <1>4, <1>5, ConcatElements
<1>7. PICK i \in DOMAIN stored : stored[i] = hand[1]
  BY DEF IInv, Places, ToSet
<1>8. i \in DOMAIN executed /\ executed[i] = hand[1]
  BY <1>7, SeqFacts
<1>9. i # j + Len(stored)
  BY <1>1, <1>2, <1>5, <1>7
<1> QED BY <1>6, <1>8, <1>9 DEF IInv, Once

\* The worker forgets the transaction that was stored.
LEMMA DeletePendingTxToStoreIInv ==
  ASSUME IInv, FaultsType', DeletePendingTxToStore
  PROVE  IInv'
<1> USE DEF DeletePendingTxToStore
<1>1. TypeOK'
  BY DEF IInv, TypeOK, FaultsType
<1>2. Places' /\ Counted' /\ Numbered' /\ Once' /\ Complete' /\ IsPrefix(stored, executed)'
  BY DEF IInv, Places, Counted, Numbered, Once, Complete, IsPrefix
<1>3. InFlight'
  BY DEF IInv, InFlight, Behind, Unstored
<1>4. Known'
  <2>1. ASSUME ~cancelled, NEW i \in DOMAIN channel
        PROVE  channel[i].tx \in inWorker'
    <3>1. channel[i] \in ToSet(channel)
      BY DEF ToSet
    <3>2. channel[i].tx # hand[1].tx
      BY <2>1, <3>1, OthersOnWay
    <3> QED BY <2>1, <3>2 DEF IInv, Known
  <2>2. ASSUME ~cancelled, fpc = "send"
        PROVE  cur[1].tx \in inWorker'
    <3>1. cur \in Seq(Rec) /\ cur # <<>>
      BY <2>2 DEF IInv, TypeOK
    <3>2. cur[1] \in ToSet(cur)
      BY <3>1 DEF ToSet
    <3>3. cur[1].tx # hand[1].tx
      BY <2>2, <3>2, OthersOnWay
    <3> QED BY <2>2, <3>3 DEF IInv, Known
  <2> QED BY <2>1, <2>2 DEF Known
<1>5. Flushed' /\ StoredIsFlushed'
  BY DEF IInv, Flushed, StoredIsFlushed, Durable
<1> QED BY <1>1, <1>2, <1>3, <1>4, <1>5 DEF IInv

\* The wait group counts the transaction as done.
LEMMA DoneIInv ==
  ASSUME IInv, FaultsType', Done
  PROVE  IInv'
<1> USE DEF Done
<1>1. TypeOK'
  BY DEF IInv, TypeOK, FaultsType
<1>2. Counted'
  BY DEF IInv, TypeOK, Counted
<1>3. Places' /\ Numbered' /\ Once' /\ Complete' /\ IsPrefix(stored, executed)'
  BY DEF IInv, Places, Numbered, Once, Complete, IsPrefix
<1>4. InFlight'
  BY DEF IInv, InFlight, Behind, Unstored
<1>5. Known' /\ Flushed' /\ StoredIsFlushed'
  BY DEF IInv, Known, Flushed, StoredIsFlushed, Durable
<1> QED BY <1>1, <1>2, <1>3, <1>4, <1>5 DEF IInv

\* The storer is woken.
LEMMA WokenIInv ==
  ASSUME IInv, FaultsType', Woken
  PROVE  IInv'
<1> USE DEF Woken
<1>1. TypeOK' /\ Places' /\ Counted' /\ Numbered'
  BY DEF IInv, TypeOK, FaultsType, Places, Counted, Numbered
<1>2. InFlight'
  BY DEF IInv, InFlight, Behind, Unstored
<1>3. Once' /\ Complete' /\ IsPrefix(stored, executed)'
  BY DEF IInv, Once, Complete, IsPrefix
<1>4. Known' /\ Flushed' /\ StoredIsFlushed'
  BY DEF IInv, Known, Flushed, StoredIsFlushed, Durable
<1> QED BY <1>1, <1>2, <1>3, <1>4 DEF IInv

\* The storer waits for the wait group after the context is done.
LEMMA DrainIInv ==
  ASSUME IInv, FaultsType', Drain
  PROVE  IInv'
<1> USE DEF Drain
<1>1. TypeOK' /\ Places' /\ Counted' /\ Numbered'
  BY DEF IInv, TypeOK, FaultsType, Places, Counted, Numbered
<1>2. InFlight'
  BY DEF IInv, InFlight, Behind, Unstored
<1>3. Once' /\ Complete' /\ IsPrefix(stored, executed)'
  BY DEF IInv, Once, Complete, IsPrefix
<1>4. Known' /\ Flushed' /\ StoredIsFlushed'
  BY DEF IInv, Known, Flushed, StoredIsFlushed, Durable
<1> QED BY <1>1, <1>2, <1>3, <1>4 DEF IInv

-----------------------------------------------------------------------------
(***************************************************************************)
(* The executor, a stop and a crash.                                       *)
(***************************************************************************)

\* The executor stores the next flush id.
LEMMA FlushIInv ==
  ASSUME IInv, FaultsType', Flush
  PROVE  IInv'
<1>1. /\ flushed' = [flushed EXCEPT ![prover] = @ + 1]
      /\ UNCHANGED <<finalizerVars, updaterVars, storerVars, sharedVars, dbVars,
                     prover, sent, cancelled>>
  BY DEF Flush
<1>2. prover \in 1..MaxProvers /\ flushed \in [1..MaxProvers -> Nat]
  BY DEF IInv, TypeOK
<1>3. /\ flushed' \in [1..MaxProvers -> Nat]
      /\ \A p \in 1..MaxProvers : flushed[p] <= flushed'[p]
  BY <1>1, <1>2, PendingStoreAssumption
<1>4. TypeOK' /\ Places' /\ Counted' /\ Numbered'
  BY <1>1, <1>3 DEF IInv, TypeOK, FaultsType, Places, Counted, Numbered
<1>5. InFlight'
  BY <1>1 DEF IInv, InFlight, Behind, Unstored
<1>6. Once' /\ Complete' /\ IsPrefix(stored, executed)' /\ Known'
  BY <1>1 DEF IInv, Once, Complete, IsPrefix, Known
<1>7. Flushed'
  <2>1. storedFlushID \in Nat /\ got.flush \in Nat
    BY DEF IInv, TypeOK
  <2>2. spc = "store" => hand[1].flush \in Nat
    <3>1. spc = "store" => hand \in Seq(Rec) /\ hand # <<>>
      BY DEF IInv, TypeOK
    <3> QED BY <3>1, RecOf
  <2>3. prover = 1 => flushed[1] \in Nat /\ flushed'[1] \in Nat /\ flushed[1] <= flushed'[1]
    BY <1>2, <1>3
  <2> QED BY <1>1, <2>1, <2>2, <2>3 DEF IInv, Flushed
<1>8. StoredIsFlushed'
  <2> SUFFICES ASSUME prover = 1, NEW i \in DOMAIN stored
               PROVE  stored[i].flush <= flushed'[stored[i].prover]
    BY <1>1 DEF StoredIsFlushed, Durable
  <2>1. stored[i].flush \in Nat /\ stored[i].prover \in 1..MaxProvers
    BY SeqFacts, RecOf
  <2>2. stored[i].flush <= flushed[stored[i].prover]
    BY DEF IInv, StoredIsFlushed, Durable
  <2> QED BY <1>2, <1>3, <2>1, <2>2
<1> QED BY <1>4, <1>5, <1>6, <1>7, <1>8 DEF IInv

\* Another executor takes over.
LEMMA ProverRestartIInv ==
  ASSUME IInv, FaultsType', ProverRestart
  PROVE  IInv'
<1>1. /\ prover' = prover + 1
      /\ UNCHANGED <<finalizerVars, updaterVars, storerVars, sharedVars, dbVars, cancelled>>
  BY DEF ProverRestart
<1>2. /\ prover \in Nat \ {0} /\ prover' \in 1..MaxProvers /\ prover' # 1
      /\ sent' \in Nat /\ flushed' \in [1..MaxProvers -> Nat]
  <2>1. /\ prover \in 1..MaxProvers /\ prover < MaxProvers /\ flushed \in [1..MaxProvers -> Nat]
    BY DEF IInv, TypeOK, ProverRestart
  <2>2. PICK n \in 0..MaxFlush :
          sent' = n /\ flushed' = [flushed EXCEPT ![prover + 1] = n]
    BY DEF ProverRestart
  <2>3. n \in Nat
    BY <2>2, PendingStoreAssumption
  <2> QED BY <1>1, <2>1, <2>2, <2>3, PendingStoreAssumption
<1>3. TypeOK' /\ Places' /\ Counted' /\ Numbered'
  BY <1>1, <1>2 DEF IInv, TypeOK, FaultsType, Places, Counted, Numbered
<1>4. InFlight'
  BY <1>1 DEF IInv, InFlight, Behind, Unstored
<1>5. Once' /\ Complete' /\ IsPrefix(stored, executed)' /\ Known'
  BY <1>1 DEF IInv, Once, Complete, IsPrefix, Known
<1>6. Flushed' /\ StoredIsFlushed'
  BY <1>2 DEF Flushed, StoredIsFlushed
<1> QED BY <1>3, <1>4, <1>5, <1>6 DEF IInv

\* The node crashes and starts again.
LEMMA CrashIInv ==
  ASSUME IInv, FaultsType', Crash
  PROVE  IInv'
<1>1. /\ batch' = (IF batch \in closed THEN batch + 1 ELSE batch)
      /\ fpc' = "loop" /\ cur' = <<>> /\ lastPendingFlushID' = 0
      /\ executed' = stored /\ cancelled' = FALSE
      /\ upc' = "check" /\ got' = [flush |-> 0, prover |-> 0] /\ storedFlushID' = 0
      /\ spc' = "recv" /\ hand' = <<>>
      /\ channel' = <<>> /\ wg' = 0 /\ inWorker' = {}
      /\ UNCHANGED <<dbVars, executorVars>>
  BY DEF Crash
<1>2. batch \in Nat /\ batch' \in Nat /\ stored \in Seq(Rec) /\ closed \in SUBSET Nat
  BY <1>1 DEF IInv, TypeOK
<1>3. TypeOK'
  <2>1. /\ cur' \in Seq(Rec) /\ executed' \in Seq(Rec) /\ channel' \in Seq(Rec)
        /\ hand' \in Seq(Rec) /\ Len(hand') <= 1
    BY <1>1, <1>2
  <2>2. got' \in [flush : Nat, prover : 0..MaxProvers]
    BY <1>1, PendingStoreAssumption
  <2>3. /\ stored' \in Seq(Rec) /\ closed' \in SUBSET Nat /\ forcedDone' \in Nat
        /\ prover' \in 1..MaxProvers /\ sent' \in Nat /\ flushed' \in [1..MaxProvers -> Nat]
    BY <1>1 DEF IInv, TypeOK
  <2>4. /\ inWorker' \in SUBSET AllTx
        /\ lastPendingFlushID' \in Nat /\ storedFlushID' \in Nat /\ wg' \in Int
    BY <1>1
  <2>5. cancelled' \in BOOLEAN
    BY <1>1, Zenon
  <2> QED BY <1>1, <1>2, <2>1, <2>2, <2>3, <2>4, <2>5 DEF TypeOK, FaultsType
<1>4. Places' /\ Counted'
  BY <1>1 DEF Places, Counted
<1>5. /\ \A i \in DOMAIN executed' : i \in DOMAIN executed /\ executed'[i] = executed[i]
      /\ \A i \in DOMAIN executed' : executed'[i] \in ToSet(stored')
  BY <1>1, SeqFacts DEF ToSet
<1>6. Numbered'
  <2>1. \A c \in closed : c <= batch' /\ c # batch'
    BY <1>1, <1>2 DEF IInv, Numbered
  <2>2. \A i \in DOMAIN executed : executed[i].batch \in Nat /\ executed[i].batch <= batch
    BY SeqFacts, RecOf DEF IInv, Numbered
  <2>3. batch <= batch'
    BY <1>1, <1>2
  <2>4. \A i \in DOMAIN executed' : executed'[i].batch <= batch'
    BY <1>2, <1>5, <2>2, <2>3
  <2> QED BY <1>1, <2>1, <2>4 DEF Numbered
<1>7. InFlight' /\ IsPrefix(stored, executed)'
  <2>1. Behind(Unstored)' = stored
    BY <1>1, <1>2, ConcatEmptySeq DEF Behind, Unstored
  <2>2. IsPrefix(stored, stored)
    BY <1>2, PrefixElements
  <2> QED BY <1>1, <2>1, <2>2 DEF InFlight
<1>8. Once'
  <2>1. \A i, j \in DOMAIN executed' : executed'[i].tx = executed'[j].tx => i = j
    BY <1>5 DEF IInv, Once
  <2>2. \A i \in DOMAIN executed' :
          \/ executed'[i].tx \in Tx
          \/ \E n \in 1..forcedDone : executed'[i].tx \in ToSet(ForcedBatches[n])
    BY <1>5 DEF IInv, Once
  <2> QED BY <1>1, <2>1, <2>2 DEF IInv, Once
<1>9. Complete' /\ Known'
  BY <1>1, <1>5 DEF Complete, Known
<1>10. Flushed'
  <2>1. prover = 1 => flushed[1] \in Nat
    BY DEF IInv, TypeOK
  <2> QED BY <1>1, <2>1 DEF Flushed
<1>11. StoredIsFlushed'
  BY <1>1 DEF IInv, StoredIsFlushed, Durable
<1> QED BY <1>3, <1>4, <1>6, <1>7, <1>8, <1>9, <1>10, <1>11 DEF IInv

\* Another client of the executor uses a flush id.
LEMMA OtherClientIInv ==
  ASSUME IInv, FaultsType', OtherClient
  PROVE  IInv'
<1> USE DEF OtherClient
<1>1. TypeOK' /\ Places' /\ Counted' /\ Numbered'
  BY DEF IInv, TypeOK, FaultsType, Places, Counted, Numbered
<1>2. InFlight'
  BY DEF IInv, InFlight, Behind, Unstored
<1>3. Once' /\ Complete' /\ IsPrefix(stored, executed)'
  BY DEF IInv, Once, Complete, IsPrefix
<1>4. Known' /\ Flushed' /\ StoredIsFlushed'
  BY DEF IInv, Known, Flushed, StoredIsFlushed, Durable
<1> QED BY <1>1, <1>2, <1>3, <1>4 DEF IInv

\* The context is cancelled.
LEMMA CancelIInv ==
  ASSUME IInv, FaultsType', Cancel
  PROVE  IInv'
<1> USE DEF Cancel
<1>1. TypeOK' /\ Places' /\ Counted' /\ Numbered'
  BY DEF IInv, TypeOK, FaultsType, Places, Counted, Numbered
<1>2. InFlight'
  BY DEF IInv, InFlight, Behind, Unstored
<1>3. Once' /\ Complete' /\ IsPrefix(stored, executed)'
  BY DEF IInv, Once, Complete, IsPrefix
<1>4. Known' /\ Flushed' /\ StoredIsFlushed'
  BY DEF IInv, Known, Flushed, StoredIsFlushed, Durable
<1> QED BY <1>1, <1>2, <1>3, <1>4 DEF IInv

-----------------------------------------------------------------------------
(***************************************************************************)
(* The theorems.                                                           *)
(***************************************************************************)

\* The invariant holds when the node starts.
LEMMA InitIInv == Init => IInv
<1> SUFFICES ASSUME Init PROVE IInv
  OBVIOUS
<1> USE DEF Init
<1>1. TypeOK
  <2>1. cancelled \in BOOLEAN
    BY Zenon
  <2>2. <<>> \in Seq(Rec) /\ Len(<<>>) <= 1
    OBVIOUS
  <2>3. /\ got \in [flush : Nat, prover : 0..MaxProvers]
        /\ flushed \in [1..MaxProvers -> Nat] /\ prover \in 1..MaxProvers
        /\ faults \in [left : 0..MaxFaults, seen : SUBSET Kinds]
    BY PendingStoreAssumption
  <2> QED BY <2>1, <2>2, <2>3 DEF TypeOK
<1>2. Places /\ Counted /\ Numbered /\ Complete /\ Known
  BY DEF Places, Counted, Numbered, Complete, Known
<1>3. Once
  BY PendingStoreAssumption DEF Once
<1>4. InFlight /\ IsPrefix(stored, executed)
  <2>1. stored \in Seq(Rec) /\ executed \in Seq(Rec)
    OBVIOUS
  <2>2. IsPrefix(stored, executed)
    <3>1. \A s \in Seq(Rec) : IsPrefix(s, s)
      BY PrefixElements
    <3>2. stored = executed
      OBVIOUS
    <3> QED BY <2>1, <3>1, <3>2, Zenon
  <2> QED BY <2>2, ConcatEmptySeq DEF InFlight, Behind, Unstored
<1>5. Flushed /\ StoredIsFlushed
  BY PendingStoreAssumption DEF Flushed, StoredIsFlushed
<1> QED BY <1>1, <1>2, <1>3, <1>4, <1>5 DEF IInv

\* Every step keeps the invariant.
LEMMA NextIInv ==
  ASSUME IInv, [Next]_vars
  PROVE  IInv'
<1>1. FaultsType'
  <2>1. FaultsType
    BY DEF IInv, TypeOK, FaultsType
  <2>2. CASE UNCHANGED faults
    BY <2>1, <2>2 DEF FaultsType
  <2>3. ASSUME NEW kind, Fault(kind)
        PROVE  FaultsType'
    BY <2>1, <2>3, PendingStoreAssumption DEF FaultsType, Fault
  <2> QED BY <2>2, <2>3 DEF Next, vars
<1>2. CASE UNCHANGED vars
  <2> USE <1>2 DEF vars
  <2>1. TypeOK' /\ Places' /\ Counted' /\ Numbered'
    BY DEF IInv, TypeOK, Places, Counted, Numbered
  <2>2. InFlight'
    BY DEF IInv, InFlight, Behind, Unstored
  <2>3. Once' /\ Complete' /\ IsPrefix(stored, executed)'
    BY DEF IInv, Once, Complete, IsPrefix
  <2>4. Known' /\ Flushed' /\ StoredIsFlushed'
    BY DEF IInv, Known, Flushed, StoredIsFlushed, Durable
  <2> QED BY <2>1, <2>2, <2>3, <2>4 DEF IInv
<1>3. ASSUME NEW tx \in Tx, processTransaction(tx)
      PROVE  IInv'
  BY <1>1, <1>3, processTransactionIInv
<1>4. CASE finalizeBatch
  BY <1>1, <1>4, finalizeBatchIInv
<1>5. CASE processForcedBatch
  BY <1>1, <1>5, processForcedBatchIInv
<1>6. CASE Finalizer
  BY <1>1, <1>6, updateLastPendingFlushIDIInv, BroadcastPendingIInv, addPendingTxToStoreIInv,
     SendIInv, SendCancelledIInv, closeBatchIInv, openWIPBatchIInv, StopIInv DEF Finalizer
<1>7. CASE Updater
  BY <1>1, <1>7, CheckPendingIInv, WaitPendingIInv, GetStoredFlushIDIInv, UpdateStoredIInv
     DEF Updater
<1>8. CASE Storer
  BY <1>1, <1>8, ReceiveIInv, WaitStoredIInv, WokenIInv, storeProcessedTxIInv,
     DeletePendingTxToStoreIInv, DoneIInv, DrainIInv DEF Storer
<1>9. CASE Flush \/ OtherClient
  BY <1>1, <1>9, FlushIInv, OtherClientIInv
<1>10. CASE ProverRestart \/ StoreFails \/ Cancel \/ Crash
  BY <1>1, <1>10, ProverRestartIInv, StoreFailsIInv, CancelIInv, CrashIInv
<1> QED BY <1>2, <1>3, <1>4, <1>5, <1>6, <1>7, <1>8, <1>9, <1>10 DEF Next

\* The invariant holds throughout, whatever fails and in whatever order the
\* three goroutines, the executor and its other clients take their steps.
THEOREM Invariance == Spec => []IInv
BY InitIInv, NextIInv, PTL DEF Spec

\* Every variable of the storing pipeline keeps its type, and a goroutine
\* holds a transaction exactly where finalizer.go works on one.
THEOREM TypeCorrect == Spec => []TypeOK
<1>1. IInv => TypeOK
  BY DEF IInv
<1> QED BY <1>1, Invariance, PTL

\* The database holds what the finalizer executed, in the order of execution,
\* without a gap and none twice, in spite of the channel, the waiting and the
\* crashes between execution and storeProcessedTx.
THEOREM PendingStoredInOrder == Spec => []StoredInOrder
<1>1. IInv => StoredInOrder
  <2> SUFFICES ASSUME IInv PROVE StoredInOrder
    OBVIOUS
  <2>1. IsPrefix(stored, executed)
    BY DEF IInv
  <2>2. \A i, j \in DOMAIN executed : executed[i].tx = executed[j].tx => i = j
    BY DEF IInv, Once
  <2>3. \A i, j \in DOMAIN stored : stored[i].tx = stored[j].tx => i = j
    BY <2>2, SeqFacts
  <2> QED BY <2>1, <2>3 DEF StoredInOrder
<1> QED BY <1>1, Invariance, PTL

\* closeBatch closes complete batches: the wait group it waits for counts the
\* transactions on their way, and is zero only when all are stored.
THEOREM PendingClosedIsStored == Spec => []ClosedIsStored
<1>1. IInv => ClosedIsStored
  BY DEF IInv, Counted, Complete, ClosedIsStored
<1> QED BY <1>1, Invariance, PTL

\* The worker knows every executed transaction that is not stored yet, from
\* addPendingTxToStore to DeletePendingTxToStore.
THEOREM PendingIsKnown == Spec => []WorkerKnowsPending
<1>1. IInv => WorkerKnowsPending
  <2> SUFFICES ASSUME IInv, ~cancelled, NEW i \in DOMAIN executed,
                      executed[i] \notin ToSet(stored) \cup ToSet(cur)
               PROVE  executed[i].tx \in inWorker
    BY DEF WorkerKnowsPending
  <2>1. /\ stored \in Seq(Rec) /\ channel \in Seq(Rec) /\ cur \in Seq(Rec)
        /\ hand \in Seq(Rec) /\ <<>> \in Seq(Rec)
    BY SeqFacts
  <2>2. PICK u \in {<<>>, hand} :
          executed = Behind(u) /\ (u # <<>> => hand # <<>> /\ spc # "done")
    BY DEF IInv, InFlight, Unstored, TypeOK
  <2> DEFINE rest == channel \o cur
             tail == u \o rest
  <2>3. /\ rest \in Seq(Rec) /\ ToSet(rest) = ToSet(channel) \cup ToSet(cur)
    BY <2>1, ConcatElements, ConcatProperties
  <2>4. executed = stored \o tail
    BY <2>2 DEF Behind
  <2> HIDE DEF rest
  <2>5. tail \in Seq(Rec) /\ ToSet(tail) = ToSet(u) \cup ToSet(rest)
    <3>1. u \in Seq(Rec) /\ rest \in Seq(Rec)
      BY <2>1, <2>2, <2>3
    <3> QED BY <3>1, ConcatElements, ConcatProperties
  <2> HIDE DEF tail
  <2>6. ToSet(executed) = ToSet(stored) \cup ToSet(tail)
    BY <2>1, <2>4, <2>5, ConcatElements
  <2>7. executed[i] \in ToSet(executed)
    BY DEF ToSet
  <2>8. CASE executed[i] \in ToSet(channel)
    BY <2>8 DEF IInv, Known, ToSet
  <2>9. CASE executed[i] \in ToSet(u)
    <3>1. u = hand /\ hand # <<>> /\ spc # "done"
      BY <2>2, <2>9 DEF ToSet
    <3>2. hand \in Seq(Rec) /\ Len(hand) <= 1
      BY DEF IInv, TypeOK
    <3>3. \A k \in DOMAIN hand : k = 1
      BY <3>2
    <3>4. executed[i] = hand[1]
      BY <2>9, <3>1, <3>3 DEF ToSet
    <3> QED BY <3>1, <3>4 DEF IInv, Known
  <2> QED BY <2>3, <2>5, <2>6, <2>7, <2>8, <2>9
<1> QED BY <1>1, Invariance, PTL

\* Until the executor is replaced, no transaction is in the database before
\* the executor has stored its state changes: storePendingTransactions waits
\* long enough.
THEOREM PendingStoredIsFlushed == Spec => []StoredIsFlushed
<1>1. IInv => StoredIsFlushed
  BY DEF IInv
<1> QED BY <1>1, Invariance, PTL
=============================================================================

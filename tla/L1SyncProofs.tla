---------------------------- MODULE L1SyncProofs ----------------------------
(***************************************************************************)
(* Theorems about the parallel reader of L1: the ranges of blocks that are *)
(* read never overlap, no block with events is skipped, and a consumer     *)
(* that stops as synchronised has stored them all.                         *)
(*                                                                         *)
(* The inductive invariant has three parts: one that holds always, one     *)
(* that holds until L1 is reorganised, and one until anything fails.       *)
(***************************************************************************)
EXTENDS L1Sync, SequenceTheorems, WellFoundedInduction, TLAPS

-----------------------------------------------------------------------------
(* The part that holds always                                              *)

Numbered(c) == Len(c) >= GenesisBlockNum /\ \A n \in DOMAIN c : c[n].n = n

\* On an L1 of t blocks, a range starts no higher than behind the last block,
\* and ends on L1.
Fits(t, r) == r.from <= t + 1 /\ (r.to = latestBlockNumber \/ r.to <= t)

SyncFits(t, s) ==
  /\ s.stored <= t /\ s.requested <= t /\ s.lastBlockOnL1 <= t
  /\ \A r \in s.processing : Fits(t, r)
  /\ \A i \in DOMAIN s.errors : Fits(t, s.errors[i])

WorkersFit(t, ws) ==
  \A w \in 1..NumWorkers : ws[w] # NoRequest => Fits(t, ws[w].range)

\* The blocks of an answer are no higher than L1.
AnswerFits(t, r) ==
  /\ Fits(t, r.range)
  /\ \A b \in r.blocks : b.n <= t
  /\ r.last # NoBlock => r.last.n <= t

AnswersFit(t, rs) == \A i \in DOMAIN rs : ~IsControl(rs[i]) => AnswerFits(t, rs[i])

CmdsFit(t, cs) == \A i \in DOMAIN cs : cs[i] <= t

Disjoint(s) ==
  /\ \A i, j \in DOMAIN s.errors : i # j => ~Overlaps(s.errors[i], s.errors[j])
  /\ \A q, r \in s.processing : q # r => ~Overlaps(q, r)
  /\ \A q \in s.processing, i \in DOMAIN s.errors : ~Overlaps(q, s.errors[i])

ReaderFits ==
  LET t == Len(chain)
  IN  /\ SyncFits(t, sync) /\ WorkersFit(t, workers)
      /\ AnswersFit(t, responses) /\ AnswersFit(t, filter.pending) /\ AnswersFit(t, channel)
      /\ CmdsFit(t, cmds)
      /\ filter.last <= t /\ consumer.processed <= t
      /\ main.to <= t

\* Genesis is stored, and so are the blocks the main loop goes by.
TableOK ==
  /\ \A b \in db : b.n <= Len(chain)
  /\ chain[GenesisBlockNum] \in db
  /\ main.last \in db
  /\ main.pc = "wait" => consumer.synced \in db

ControlOK ==
  /\ fork <= MaxFaults - faults.left
  /\ consumer.pc = "run" => main.pc = "wait"
  /\ main.pc \in {"reset", "queue"} => main.to >= 1
  /\ At("announce") => IsNodeFullySynchronizedWithL1(sync)

Always ==
  TypeOK /\ Numbered(chain) /\ ReaderFits /\ Disjoint(sync) /\ TableOK /\ ControlOK

-----------------------------------------------------------------------------
(* The part that holds until L1 is reorganised                             *)

\* Block b is on chain c.
OnL1(c, b) == b.n \in DOMAIN c /\ c[b.n] = b

\* An answer has the blocks of L1, and all those with events up to the highest
\* it accounts for.
Complete(c, r) ==
  /\ \A b \in r.blocks : OnL1(c, b) /\ r.range.from <= b.n /\ b.n <= r.range.to
  /\ \A n \in DOMAIN c :
       r.range.from <= n /\ n <= HighestIn(r) /\ c[n].event => c[n] \in r.blocks
  /\ r.last # NoBlock =>
       OnL1(c, r.last) /\ r.range.to # latestBlockNumber /\ r.last.n = r.range.to
  /\ r.prev # NoBlock => OnL1(c, r.prev)

AllComplete(c, rs) == \A i \in DOMAIN rs : ~IsControl(rs[i]) /\ rs[i].ok => Complete(c, rs[i])
AllOk(rs) == \A i \in DOMAIN rs : ~IsControl(rs[i]) => rs[i].ok

AnswersComplete ==
  /\ AllComplete(chain, responses) /\ AllComplete(chain, filter.pending)
  /\ AllComplete(chain, channel)
  /\ AllOk(filter.pending) /\ AllOk(channel)

\* The blocks of chain c with events up to block p are in table d.
StoredIn(c, d, p) == \A n \in GenesisBlockNum..p : c[n].event => c[n] \in d

TableOnL1(c, d, received) ==
  /\ \A b \in d : OnL1(c, b)
  /\ received # NoBlock => OnL1(c, received)
  /\ StoredIn(c, d, Highest(d).n)

\* A reset goes back to a stored block, or a lower one.
ResetsFit(top, cs, m) ==
  /\ CmdsFit(top, cs)
  /\ m.pc \in {"reset", "queue"} => m.to <= top

Data(ch, i) == i \in DOMAIN ch /\ ~IsControl(ch[i])

\* The block the range after an answer has to start with.
After(r) == IF HighestIn(r) = invalidBlockNumber THEN r.range.from ELSE HighestIn(r) + 1

\* The answers in the channel follow one another, and the filter the last one.
Linked(ch, last) ==
  /\ \A i, j \in DOMAIN ch :
       Data(ch, i) /\ Data(ch, j) /\ i < j /\ (\A k \in DOMAIN ch : i < k /\ k < j => ~Data(ch, k)) =>
         ch[j].range.from = After(ch[i])
  /\ \A i \in DOMAIN ch :
       Data(ch, i) /\ (\A k \in DOMAIN ch : i < k => ~Data(ch, k)) => last + 1 = After(ch[i])

\* The first answer in the channel starts with block f, or the next one will.
NextIs(ch, last, f) ==
  \/ \E j \in DOMAIN ch :
       Data(ch, j) /\ (\A k \in DOMAIN ch : k < j => ~Data(ch, k)) /\ f = ch[j].range.from
  \/ (\A k \in DOMAIN ch : ~Data(ch, k)) /\ f = last + 1

\* A failure of the consumer is waiting to be handled.
Recovering(m, k) == m.pc = "reset" \/ (m.pc = "wait" /\ k.pc = "failed")

\* The events up to the consumer's position are stored.
PlaceStored(c, d, ch, last, k) ==
  /\ k.processed # 0 => StoredIn(c, d, k.processed)
  /\ k.processed = 0 => \A f \in Nat : NextIs(ch, last, f) => StoredIn(c, d, f - 1)

WhileSameChain ==
  /\ AnswersComplete
  /\ TableOnL1(chain, db, consumer.received)
  /\ ResetsFit(GetLastBlock.n, cmds, main)
  /\ Linked(channel, filter.last)
  /\ ~Recovering(main, consumer) => PlaceStored(chain, db, channel, filter.last, consumer)

-----------------------------------------------------------------------------
(* The part that holds until anything fails                                *)

NothingFailed ==
  /\ main.pc \in {"check", "wait"} /\ consumer.pc # "failed"
  /\ status # "reseting" /\ sync.errors = <<>>
  /\ AllOk(responses)

\* Before the producer has taken its first command.
Booting ==
  cmds # <<>> =>
    /\ cmds = <<GenesisBlockNum>> /\ GetLastBlock.n = GenesisBlockNum
    /\ status = "idle" /\ prod.pc \in {"select", "idle"}
    /\ sync.stored = 0 /\ sync.requested = 0 /\ sync.processing = {}
    /\ filter.last = 0 /\ filter.pending = <<>>
    /\ responses = <<>> /\ channel = <<>>
    /\ \A w \in 1..NumWorkers : workers[w] = NoRequest

\* What comes next is behind what is stored.
StoresNew ==
  /\ consumer.processed # 0 => GetLastBlock.n <= consumer.processed
  /\ consumer.processed = 0 /\ cmds = <<>> =>
       \A f \in Nat : NextIs(channel, filter.last, f) => GetLastBlock.n < f
  /\ main.pc = "check" => GetLastBlock.n <= main.last.n
  /\ main.pc = "wait" => GetLastBlock.n <= consumer.synced.n

\* Every range is read by one worker or has one answer.
InFlight(s, ws, rs) ==
  /\ \A w \in 1..NumWorkers : ws[w] # NoRequest => ws[w].range \in s.processing
  /\ \A i \in DOMAIN rs : rs[i].range \in s.processing
  /\ \A v, w \in 1..NumWorkers : v # w /\ ws[v] # NoRequest => ws[v].range # ws[w].range
  /\ \A i, j \in DOMAIN rs : i # j => rs[i].range # rs[j].range
  /\ \A w \in 1..NumWorkers, i \in DOMAIN rs : ws[w].range # rs[i].range

\* The ranges that are read or answered reach up to p.
Below(s, p) ==
  \/ p <= s.stored
  \/ \E q \in s.processing : q.to # latestBlockNumber /\ p <= q.to

\* What the filter waits for is read or answered, without gaps.
Tiled(s, fl) ==
  \A p \in Nat :
    fl.last < p /\ Below(s, p) =>
      \/ \E i \in DOMAIN fl.pending :
           fl.pending[i].range.from <= p /\ p <= HighestIn(fl.pending[i])
      \/ \E q \in s.processing : q.from <= p /\ p <= q.to

\* The range up to the latest block starts where the others end.
LatestIsLast(s) ==
  \A q \in s.processing :
    q.to = latestBlockNumber => ~Below(s, q.from) /\ Below(s, q.from - 1)

\* The events up to the highest block asked for are within the other ranges,
\* or the range up to the latest block is being read.
EventsCovered(c, s) ==
  \A n \in DOMAIN c :
    c[n].event /\ n <= s.requested /\ ~Below(s, n) =>
      \E q \in s.processing : q.to = latestBlockNumber

\* The answer to the range up to the latest block has these events.
LatestHasEvents(c, s, rs) ==
  \A i \in DOMAIN rs, n \in DOMAIN c :
    (/\ rs[i].range.to = latestBlockNumber
     /\ rs[i].range.from <= n /\ n <= s.requested /\ c[n].event) => c[n] \in rs[i].blocks

PendingPlaces(s, fl) ==
  /\ fl.last <= s.stored
  /\ \A q \in s.processing : fl.last < q.from
  /\ \A i \in DOMAIN fl.pending :
       /\ fl.last < fl.pending[i].range.from
       /\ HighestIn(fl.pending[i]) <= s.stored
       /\ Below(s, fl.pending[i].range.from - 1)

\* Answer a starts within answer b.
StartsWithin(a, b) == b.range.from <= a.range.from /\ a.range.from <= HighestIn(b)

\* A pending answer starts within another one only when it starts with it, and
\* is before it: then it is an empty one.
PendingApart(pending) ==
  \A i, j \in DOMAIN pending :
    i # j /\ StartsWithin(pending[i], pending[j]) =>
      pending[j].range.from = pending[i].range.from /\ i < j

\* The ranges that are read and the pending answers are apart in the same way.
ReadApart(s, pending) ==
  \A q \in s.processing, i \in DOMAIN pending :
    /\ q.from <= pending[i].range.from /\ pending[i].range.from <= q.to =>
         q.from = pending[i].range.from
    /\ ~(pending[i].range.from <= q.from /\ q.from <= HighestIn(pending[i]))

AllSent(p, fl) ==
  p.pc # "send" => \A i \in DOMAIN fl.pending : fl.pending[i].range.from # fl.last + 1

\* An announcement comes when the events are in the channel or stored.
AnnouncedIsSent(c, ch, last) ==
  \A i \in DOMAIN ch :
    IsControl(ch[i]) =>
      /\ ch[i].upTo <= Len(c)
      /\ \A n \in DOMAIN c : n <= ch[i].upTo /\ c[n].event => n <= last

Delivery ==
  /\ InFlight(sync, workers, responses)
  /\ Tiled(sync, filter) /\ LatestIsLast(sync)
  /\ EventsCovered(chain, sync) /\ LatestHasEvents(chain, sync, responses)
  /\ PendingPlaces(sync, filter) /\ PendingApart(filter.pending)
  /\ ReadApart(sync, filter.pending) /\ AllSent(prod, filter)
  /\ AnnouncedIsSent(chain, channel, filter.last)

WhileNothingFails == NothingFailed /\ Booting /\ StoresNew /\ Delivery

IInv ==
  /\ Always
  /\ "reorg" \notin faults.seen => WhileSameChain
  /\ faults.seen = {} => WhileNothingFails

-----------------------------------------------------------------------------
(* Numbers, sets and sequences                                             *)

\* A non-empty set of numbers has a least one.
LEMMA LeastNumber ==
  ASSUME NEW I, I \subseteq Nat, I # {}
  PROVE  \E i \in I : \A j \in I : i <= j
<1> DEFINE R == OpToRel(<, Nat)
<1>1. IsWellFoundedOn(R, Nat)
  BY NatLessThanWellFounded
<1>2. ASSUME NEW i \in Nat, NEW j \in Nat, j < i
      PROVE  <<j, i>> \in R
  BY <1>2 DEF OpToRel
<1> HIDE DEF R
<1>3. \E i \in I : \A j \in I : ~(<<j, i>> \in R)
  BY <1>1, WFMin
<1>4. PICK i \in I : \A j \in I : ~(<<j, i>> \in R)
  BY <1>3
<1>5. ASSUME NEW j \in I
      PROVE  i <= j
  <2>1. i \in Nat /\ j \in Nat
    OBVIOUS
  <2>2. ~(j < i)
    BY <2>1, <1>2, <1>4, Zenon
  <2> QED BY <2>1, <2>2
<1> QED BY <1>5

\* Min of a non-empty set of numbers.
LEMMA MinIs ==
  ASSUME NEW I, I \subseteq Nat, I # {}
  PROVE  Min(I) \in I /\ \A j \in I : Min(I) <= j
<1>1. PICK i \in I : \A j \in I : i <= j
  BY LeastNumber
<1> QED BY <1>1 DEF Min

\* A non-empty set of numbers with a bound has a greatest one.
LEMMA GreatestNumber ==
  ASSUME NEW k \in Nat, NEW I, I \subseteq 0..k, I # {}
  PROVE  \E i \in I : \A j \in I : j <= i
<1> DEFINE J == {k - i : i \in I}
<1>1. J \subseteq Nat /\ J # {}
  <2>1. \A i \in I : i \in 0..k
    OBVIOUS
  <2>2. \A i \in I : k - i \in Nat
    BY <2>1
  <2> QED BY <2>2
<1>2. PICK m \in J : \A j \in J : m <= j
  BY <1>1, LeastNumber
<1>3. PICK i \in I : m = k - i
  OBVIOUS
<1>4. ASSUME NEW j \in I
      PROVE  j <= i
  <2>1. k - j \in J
    OBVIOUS
  <2>2. m <= k - j
    BY <1>2, <2>1
  <2> QED BY <2>2, <1>3
<1> QED BY <1>4

\* Max of a non-empty set of numbers with a bound.
LEMMA MaxIs ==
  ASSUME NEW k \in Nat, NEW I, I \subseteq 0..k, I # {}
  PROVE  Max(I) \in I /\ \A j \in I : j <= Max(I)
<1>1. PICK i \in I : \A j \in I : j <= i
  BY GreatestNumber
<1>2. \A j \in I : i >= j
  BY <1>1
<1>3. Max(I) \in I /\ \A j \in I : Max(I) >= j
  BY <1>2 DEF Max
<1> QED BY <1>3

\* Max and Min of two numbers.
LEMMA MaxOfTwo ==
  ASSUME NEW a \in Nat, NEW b \in Nat
  PROVE  Max({a, b}) = IF a <= b THEN b ELSE a
<1> DEFINE m == IF a <= b THEN b ELSE a
<1>1. m \in {a, b} /\ \A y \in {a, b} : m >= y
  OBVIOUS
<1>2. \A x \in {a, b} : (\A y \in {a, b} : x >= y) => x = m
  OBVIOUS
<1> QED BY <1>1, <1>2 DEF Max

LEMMA MinOfTwo ==
  ASSUME NEW a \in Nat, NEW b \in Nat
  PROVE  Min({a, b}) = IF a <= b THEN a ELSE b
<1> DEFINE m == IF a <= b THEN a ELSE b
<1>1. m \in {a, b} /\ \A y \in {a, b} : m <= y
  OBVIOUS
<1>2. \A x \in {a, b} : (\A y \in {a, b} : x <= y) => x = m
  OBVIOUS
<1> QED BY <1>1, <1>2 DEF Min

\* The constants.
LEMMA Constants ==
  /\ GenesisBlockNum \in Nat \ {0} /\ StartLen \in Nat \ {0} /\ MaxBlock \in Nat \ {0}
  /\ NumWorkers \in Nat \ {0} /\ ChannelSize \in Nat \ {0} /\ CmdsSize \in Nat \ {0}
  /\ SyncChunkSize \in Nat /\ MaxDistance \in Nat /\ Width \in Nat /\ MaxFaults \in Nat
  /\ GenesisBlockNum <= StartLen /\ StartLen <= MaxBlock
  /\ latestBlockNumber \in Nat /\ MaxBlock + SyncChunkSize < latestBlockNumber
BY L1SyncAssumption DEF latestBlockNumber

\* The highest of some blocks.
LEMMA HighestIs ==
  ASSUME NEW S, S \subseteq Block, S # {}
  PROVE  /\ Highest(S) \in S /\ Highest(S) \in Block
         /\ \A c \in S : c.n <= Highest(S).n
<1> DEFINE I == {c.n : c \in S}
<1>1. \A c \in S : c.n \in 1..MaxBlock
  BY DEF Block
<1>2. I \subseteq 0..MaxBlock /\ I # {}
  BY <1>1, Constants
<1>3. PICK m \in I : \A j \in I : j <= m
  BY <1>2, Constants, GreatestNumber
<1>4. PICK b \in S : m = b.n
  OBVIOUS
<1>5. \A c \in S : c.n <= b.n
  BY <1>3, <1>4
<1>6. Highest(S) \in S /\ \A c \in S : c.n <= Highest(S).n
  BY <1>5 DEF Highest
<1> QED BY <1>6

\* The tail of a sequence, and a sequence with one more element.
LEMMA TailElements ==
  ASSUME NEW S, NEW s \in Seq(S), s # <<>>
  PROVE  /\ Head(s) \in S /\ Head(s) = s[1] /\ 1 \in DOMAIN s
         /\ Tail(s) \in Seq(S) /\ Len(Tail(s)) = Len(s) - 1
         /\ \A i \in DOMAIN Tail(s) : i + 1 \in DOMAIN s /\ Tail(s)[i] = s[i + 1]
OBVIOUS

LEMMA AppendElements ==
  ASSUME NEW S, NEW s \in Seq(S), NEW e \in S
  PROVE  LET a == Append(s, e)
         IN  /\ a \in Seq(S) /\ Len(a) = Len(s) + 1
             /\ \A i \in DOMAIN s : i \in DOMAIN a /\ a[i] = s[i]
             /\ a[Len(s) + 1] = e
             /\ \A i \in DOMAIN a : i \in DOMAIN s \/ i = Len(s) + 1
OBVIOUS

\* RemoveAt, element by element.
LEMMA RemoveAtElements ==
  ASSUME NEW S, NEW s \in Seq(S), NEW i \in DOMAIN s
  PROVE  LET r == RemoveAt(s, i)
         IN  /\ r \in Seq(S) /\ Len(r) = Len(s) - 1
             /\ \A k \in DOMAIN r : r[k] = IF k < i THEN s[k] ELSE s[k + 1]
<1> DEFINE front == SubSeq(s, 1, i - 1)
           back  == SubSeq(s, i + 1, Len(s))
<1>0. i \in 1..Len(s) /\ Len(s) \in Nat
  OBVIOUS
<1>1. /\ front \in Seq(S) /\ Len(front) = i - 1
      /\ \A k \in 1..(i - 1) : front[k] = s[k]
  <2>1. \A k \in 1..(i - 1) : s[k] \in S
    OBVIOUS
  <2> QED BY <2>1, SubSeqProperties
<1>2. /\ back \in Seq(S) /\ Len(back) = Len(s) - i
      /\ \A k \in 1..(Len(s) - i) : back[k] = s[i + k]
  <2>1. \A k \in (i + 1)..Len(s) : s[k] \in S
    OBVIOUS
  <2> QED BY <2>1, SubSeqProperties
<1> HIDE DEF front, back
<1>3. RemoveAt(s, i) = front \o back
  BY DEF RemoveAt, front, back
<1>4. /\ front \o back \in Seq(S) /\ Len(front \o back) = Len(s) - 1
      /\ \A k \in 1..(Len(s) - 1) :
           (front \o back)[k] = IF k <= i - 1 THEN front[k] ELSE back[k - (i - 1)]
  <2>1. /\ front \o back \in Seq(S) /\ Len(front \o back) = Len(front) + Len(back)
        /\ \A k \in 1..(Len(front) + Len(back)) :
             (front \o back)[k] = IF k <= Len(front) THEN front[k] ELSE back[k - Len(front)]
    BY <1>1, <1>2, ConcatProperties
  <2>2. Len(front) + Len(back) = Len(s) - 1 /\ Len(front) = i - 1
    BY <1>0, <1>1, <1>2
  <2> HIDE DEF front, back
  <2> QED BY <2>1, <2>2
<1>5. ASSUME NEW k \in 1..(Len(s) - 1)
      PROVE  (front \o back)[k] = IF k < i THEN s[k] ELSE s[k + 1]
  <2>1. CASE k < i
    <3>1. k <= i - 1 /\ k \in 1..(i - 1)
      BY <2>1
    <3> QED BY <3>1, <2>1, <1>1, <1>4
  <2>2. CASE ~(k < i)
    <3>1. ~(k <= i - 1) /\ k - (i - 1) \in 1..(Len(s) - i) /\ i + (k - (i - 1)) = k + 1
      BY <2>2
    <3> QED BY <3>1, <2>2, <1>2, <1>4
  <2> QED BY <2>1, <2>2
<1>6. DOMAIN (front \o back) = 1..(Len(s) - 1)
  BY <1>4
<1> QED BY <1>3, <1>4, <1>5, <1>6

\* Taking the first element out, and one that is not there.
LEMMA RemoveHead ==
  ASSUME NEW S, NEW s \in Seq(S), s # <<>>
  PROVE  removeBlockRange(s, Head(s)) = Tail(s)
<1> DEFINE I == {i \in DOMAIN s : s[i] = Head(s)}
<1>1. 1 \in I /\ I \subseteq Nat
  OBVIOUS
<1>2. Min(I) = 1
  <2>1. Min(I) \in I /\ Min(I) <= 1
    BY <1>1, MinIs
  <2>2. \A i \in I : i >= 1
    OBVIOUS
  <2>3. Min(I) \in Nat /\ Min(I) >= 1
    BY <1>1, <2>1, <2>2
  <2> QED BY <2>1, <2>3
<1>3. removeBlockRange(s, Head(s)) = RemoveAt(s, 1)
  BY <1>1, <1>2 DEF removeBlockRange
<1>4. /\ RemoveAt(s, 1) \in Seq(S) /\ Len(RemoveAt(s, 1)) = Len(s) - 1
      /\ \A k \in DOMAIN RemoveAt(s, 1) : RemoveAt(s, 1)[k] = IF k < 1 THEN s[k] ELSE s[k + 1]
  BY RemoveAtElements
<1>5. /\ Tail(s) \in Seq(S) /\ Len(Tail(s)) = Len(s) - 1
      /\ \A k \in DOMAIN Tail(s) : Tail(s)[k] = s[k + 1]
  OBVIOUS
<1>6. \A k \in 1..Len(Tail(s)) : RemoveAt(s, 1)[k] = Tail(s)[k]
  BY <1>4, <1>5
<1>7. RemoveAt(s, 1) = Tail(s)
  BY <1>4, <1>5, <1>6, SeqEqual
<1> QED BY <1>3, <1>7

LEMMA RemoveNone ==
  ASSUME NEW S, NEW s \in Seq(S), NEW e, \A i \in DOMAIN s : s[i] # e
  PROVE  removeBlockRange(s, e) = s
BY DEF removeBlockRange

-----------------------------------------------------------------------------
(* The operators of the reader                                             *)

LEMMA RangeIs ==
  ASSUME NEW r \in RangeType
  PROVE  /\ r.from \in Nat /\ r.to \in Nat /\ r.from >= 1 /\ r.from <= MaxBlock + 1
         /\ r.to >= 1 /\ r.from <= r.to /\ r.to <= latestBlockNumber
         /\ r.to # latestBlockNumber => r.to <= MaxBlock
         /\ r # NoRange /\ r = [from |-> r.from, to |-> r.to]
BY Constants DEF RangeType, NoRange

LEMMA NoRangeIsNoRange == NoRange \notin RangeType
BY DEF RangeType, NoRange

LEMMA ResponseIs ==
  ASSUME NEW r \in Response
  PROVE  /\ r.range \in RangeType /\ r.ok \in BOOLEAN /\ r.blocks \subseteq Block
         /\ r.last \in Block \cup {NoBlock} /\ r.prev \in Block \cup {NoBlock}
         /\ ~IsControl(r)
BY NoRangeIsNoRange DEF Response, IsControl

LEMMA BlockIs ==
  ASSUME NEW b \in Block
  PROVE  b.n \in Nat /\ b.n >= 1 /\ b.n <= MaxBlock /\ b # NoBlock
BY Constants DEF Block, NoBlock

\* getHighestBlockNumberInResponse is a block of the answer, or none.
LEMMA HighestInIs ==
  ASSUME NEW r \in Response
  PROVE  /\ HighestIn(r) \in 0..MaxBlock
         /\ r.range.to # latestBlockNumber => HighestIn(r) = r.range.to
         /\ r.range.to = latestBlockNumber =>
              /\ r.blocks = {} => HighestIn(r) = 0
              /\ r.blocks # {} =>
                   /\ \E b \in r.blocks : b.n = HighestIn(r)
                   /\ \A b \in r.blocks : b.n <= HighestIn(r)
<1>1. r.range \in RangeType /\ r.blocks \subseteq Block
  BY ResponseIs
<1>2. CASE r.range.to # latestBlockNumber
  BY <1>1, <1>2, RangeIs, Constants DEF HighestIn
<1>3. CASE r.range.to = latestBlockNumber /\ r.blocks = {}
  BY <1>3, Constants DEF HighestIn, invalidBlockNumber
<1>4. CASE r.range.to = latestBlockNumber /\ r.blocks # {}
  <2>1. /\ Highest(r.blocks) \in r.blocks /\ Highest(r.blocks) \in Block
        /\ \A c \in r.blocks : c.n <= Highest(r.blocks).n
    BY <1>1, <1>4, HighestIs
  <2>2. Highest(r.blocks).n \in 0..MaxBlock
    BY <2>1, BlockIs, Constants
  <2>3. HighestIn(r) = Highest(r.blocks).n
    BY <1>4 DEF HighestIn
  <2> QED BY <1>4, <2>1, <2>2, <2>3
<1> QED BY <1>2, <1>3, <1>4

LEMMA SyncIs ==
  ASSUME NEW s \in SyncStatus
  PROVE  /\ s.stored \in Nat /\ s.stored <= MaxBlock
         /\ s.requested \in Nat /\ s.requested <= MaxBlock
         /\ s.lastBlockOnL1 \in Nat /\ s.lastBlockOnL1 <= MaxBlock
         /\ s.processing \subseteq RangeType /\ s.errors \in Seq(RangeType)
BY Constants DEF SyncStatus

\* Discard takes at most the first failed range.
LEMMA DiscardIs ==
  ASSUME NEW s \in SyncStatus
  PROVE  LET d == Discard(s)
         IN  /\ d \in SyncStatus
             /\ d.stored = s.stored /\ d.requested = s.requested
             /\ d.lastBlockOnL1 = s.lastBlockOnL1 /\ d.processing = s.processing
             /\ d.errors = s.errors \/ (s.errors # <<>> /\ d.errors = Tail(s.errors))
             /\ s.errors = <<>> \/ Head(s.errors).to # latestBlockNumber => d = s
<1>1. s.errors \in Seq(RangeType)
  BY SyncIs
<1>2. CASE s.errors # <<>> /\ Head(s.errors).to = latestBlockNumber
  <2>1. Discard(s) = [s EXCEPT !.errors = Tail(s.errors)]
    BY <1>2 DEF Discard
  <2>2. Tail(s.errors) \in Seq(RangeType)
    BY <1>1, <1>2
  <2> QED BY <1>2, <2>1, <2>2 DEF SyncStatus
<1>3. CASE ~(s.errors # <<>> /\ Head(s.errors).to = latestBlockNumber)
  BY <1>3 DEF Discard
<1> QED BY <1>2, <1>3

\* getHighestBlockRequested bounds the ranges that are asked for.
LEMMA RequestedIs ==
  ASSUME NEW s \in SyncStatus
  PROVE  LET h == getHighestBlockRequested(s)
         IN  /\ h \in Nat /\ h <= latestBlockNumber
             /\ \A q \in s.processing : q.to <= h
             /\ \A i \in DOMAIN s.errors : s.errors[i].to <= h
             /\ \/ h = 0
                \/ \E q \in s.processing : h = q.to
                \/ \E i \in DOMAIN s.errors : h = s.errors[i].to
<1> DEFINE T == {0} \cup {r.to : r \in s.processing} \cup {r.to : r \in ToSet(s.errors)}
<1>1. \A i \in DOMAIN s.errors : s.errors[i] \in RangeType
  BY SyncIs
<1>2. ToSet(s.errors) = {s.errors[i] : i \in DOMAIN s.errors}
  BY DEF ToSet
<1>3. \A r \in s.processing : r \in RangeType
  BY SyncIs
<1>4. \A r \in RangeType : r.to \in 0..latestBlockNumber
  BY RangeIs, Constants
<1>5. T \subseteq 0..latestBlockNumber /\ T # {}
  BY <1>1, <1>2, <1>3, <1>4, Constants
<1>6. Max(T) \in T /\ \A j \in T : j <= Max(T)
  BY <1>5, Constants, MaxIs
<1>7. getHighestBlockRequested(s) = Max(T)
  BY DEF getHighestBlockRequested
<1>8. Max(T) \in Nat /\ Max(T) <= latestBlockNumber
  BY <1>5, <1>6, Constants
<1>9. /\ \A q \in s.processing : q.to \in T
      /\ \A i \in DOMAIN s.errors : s.errors[i].to \in T
  BY <1>2
<1>10. \/ Max(T) = 0
       \/ \E q \in s.processing : Max(T) = q.to
       \/ \E i \in DOMAIN s.errors : Max(T) = s.errors[i].to
  BY <1>2, <1>6
<1> HIDE DEF T
<1> QED BY <1>6, <1>7, <1>8, <1>9, <1>10

\* A new range starts right behind every range that is asked for.
NewRangeFacts(s, d, r) ==
  /\ r \in RangeType
  /\ s.stored < r.from
  /\ \A q \in s.processing : q.to # latestBlockNumber /\ q.to < r.from
  /\ \A i \in DOMAIN d.errors : d.errors[i].to # latestBlockNumber /\ d.errors[i].to < r.from
  /\ \/ r.from - 1 = s.stored
     \/ \E q \in s.processing : r.from - 1 = q.to
     \/ \E i \in DOMAIN d.errors : r.from - 1 = d.errors[i].to
  /\ r.to = latestBlockNumber \/ r.to < s.lastBlockOnL1
  /\ s.requested < s.lastBlockOnL1

LEMMA NewRangeIs ==
  ASSUME NEW s \in SyncStatus, NewRange(s) # NoRange
  PROVE  NewRangeFacts(s, Discard(s), NewRange(s))
<1> DEFINE d    == Discard(s)
           high == getHighestBlockRequested(d)
           from == Max({s.stored, high}) + 1
           to   == Min({s.lastBlockOnL1, from + SyncChunkSize})
           r    == NewRange(s)
<1>1. d \in SyncStatus /\ d.processing = s.processing
  BY DiscardIs
<1>2. /\ high \in Nat /\ high <= latestBlockNumber
      /\ \A q \in s.processing : q.to <= high
      /\ \A i \in DOMAIN d.errors : d.errors[i].to <= high
      /\ \/ high = 0
         \/ \E q \in s.processing : high = q.to
         \/ \E i \in DOMAIN d.errors : high = d.errors[i].to
  BY <1>1, RequestedIs
<1>3. /\ s.stored \in Nat /\ s.stored <= MaxBlock /\ s.lastBlockOnL1 \in Nat
      /\ s.lastBlockOnL1 <= MaxBlock /\ s.requested \in Nat
      /\ d.errors \in Seq(RangeType) /\ s.processing \subseteq RangeType
  BY <1>1, SyncIs
<1>4. /\ s.lastBlockOnL1 # 0 /\ ~(s.lastBlockOnL1 <= s.requested)
      /\ high # latestBlockNumber
      /\ r = [from |-> from, to |-> IF to = s.lastBlockOnL1 THEN latestBlockNumber ELSE to]
  BY DEF NewRange, invalidBlockNumber
<1>5. \A i \in DOMAIN d.errors : d.errors[i] \in RangeType
  BY <1>3
<1> HIDE DEF d, high, r
<1>6. high <= MaxBlock
  <2>1. \A q \in RangeType : q.to <= MaxBlock \/ q.to = latestBlockNumber
    BY Constants DEF RangeType
  <2>2. CASE high = 0
    BY <2>2, Constants
  <2>3. CASE \E q \in s.processing : high = q.to
    BY <2>1, <2>3, <1>3, <1>4
  <2>4. CASE \E i \in DOMAIN d.errors : high = d.errors[i].to
    BY <2>1, <2>4, <1>4, <1>5
  <2> QED BY <1>2, <2>2, <2>3, <2>4
<1>7. from = (IF s.stored <= high THEN high ELSE s.stored) + 1
  BY <1>2, <1>3, MaxOfTwo
<1>8. from \in Nat /\ from >= 1 /\ from <= MaxBlock + 1 /\ s.stored < from /\ high < from
  BY <1>2, <1>3, <1>6, <1>7, Constants
<1> HIDE DEF from
<1>9. to = IF s.lastBlockOnL1 <= from + SyncChunkSize THEN s.lastBlockOnL1 ELSE from + SyncChunkSize
  BY <1>3, <1>8, Constants, MinOfTwo
<1> HIDE DEF to
<1>10. \/ r.to = latestBlockNumber
       \/ r.to = from + SyncChunkSize /\ r.to < s.lastBlockOnL1
  BY <1>3, <1>4, <1>8, <1>9, Constants
<1>11. r \in RangeType /\ r.from = from
  <2>1. r.from = from /\ r = [from |-> r.from, to |-> r.to]
    BY <1>4
  <2>2. r.to \in (1..MaxBlock) \cup {latestBlockNumber} /\ from <= r.to
    BY <1>3, <1>8, <1>10, Constants
  <2>3. from \in 1..MaxBlock + 1
    BY <1>8, Constants
  <2> QED BY <2>1, <2>2, <2>3 DEF RangeType
<1>12. ASSUME NEW q \in s.processing
       PROVE  q.to # latestBlockNumber /\ q.to < from
  <2>1. q.to \in Nat /\ q.to <= high
    BY <1>2, <1>3, RangeIs
  <2> QED BY <2>1, <1>2, <1>6, <1>8, Constants
<1>13. \A i \in DOMAIN d.errors : d.errors[i].to # latestBlockNumber /\ d.errors[i].to < from
  BY <1>2, <1>5, <1>6, <1>8, RangeIs, Constants
<1>14. \/ from - 1 = s.stored
       \/ \E q \in s.processing : from - 1 = q.to
       \/ \E i \in DOMAIN d.errors : from - 1 = d.errors[i].to
  BY <1>2, <1>3, <1>7
<1>15. r.to = latestBlockNumber \/ r.to < s.lastBlockOnL1
  BY <1>10
<1>16. s.requested < s.lastBlockOnL1
  BY <1>3, <1>4
<1>17. NewRangeFacts(s, d, r)
  BY <1>8, <1>11, <1>12, <1>13, <1>14, <1>15, <1>16 DEF NewRangeFacts
<1> QED BY <1>17 DEF d, r

\* GetNextRange offers the first failed range, or a new one.
LEMMA NextRangeIs ==
  ASSUME NEW s \in SyncStatus, NEW a \in BOOLEAN, GetNextRange(s, a) # NoRange
  PROVE  LET r == GetNextRange(s, a)
         IN  /\ r \in RangeType
             /\ \/ /\ s.errors # <<>> /\ r = Head(s.errors) /\ Discard(s) = s
                   /\ r.to # latestBlockNumber
                \/ r = NewRange(s) /\ NewRangeFacts(s, Discard(s), r)
<1> DEFINE retry == GetNextRangeOnlyRetries(s)
<1>1. s.errors \in Seq(RangeType)
  BY SyncIs
<1>2. CASE retry = NoRange
  <2>1. GetNextRange(s, a) = NewRange(s)
    BY <1>2 DEF GetNextRange
  <2> QED BY <2>1, NewRangeIs DEF NewRangeFacts
<1>3. CASE retry # NoRange
  <2>1. GetNextRange(s, a) = retry
    BY <1>3 DEF GetNextRange
  <2>2. s.errors # <<>> /\ Head(s.errors).to # latestBlockNumber /\ retry = Head(s.errors)
    BY <1>3 DEF GetNextRangeOnlyRetries
  <2>3. Head(s.errors) \in RangeType
    BY <1>1, <2>2
  <2> QED BY <2>1, <2>2, <2>3, DiscardIs
<1> QED BY <1>2, <1>3

-----------------------------------------------------------------------------
(* Always: L1                                                              *)

Msg == Response \cup {FullySynced(n) : n \in 1..MaxBlock}

LEMMA ChainIs ==
  ASSUME Always
  PROVE  /\ chain \in Seq(Block) /\ Len(chain) \in Nat /\ DOMAIN chain = 1..Len(chain)
         /\ GenesisBlockNum <= Len(chain) /\ Len(chain) <= MaxBlock
         /\ \A n \in DOMAIN chain : chain[n] \in Block /\ chain[n].n = n
<1>1. chain \in Seq(Block) /\ GenesisBlockNum <= Len(chain)
  BY DEF Always, TypeOK, Numbered
<1>2. Len(chain) \in DOMAIN chain
  BY <1>1, Constants
<1>3. chain[Len(chain)].n = Len(chain) /\ chain[Len(chain)] \in Block
  BY <1>1, <1>2 DEF Always, Numbered
<1>4. \A n \in DOMAIN chain : chain[n] \in Block /\ chain[n].n = n
  BY <1>1 DEF Always, Numbered
<1> QED BY <1>1, <1>3, <1>4, BlockIs

LEMMA FitsUp ==
  ASSUME NEW t \in Nat, NEW u \in Nat, t <= u
  PROVE  /\ \A s \in SyncStatus : SyncFits(t, s) => SyncFits(u, s)
         /\ \A ws \in [1..NumWorkers -> Request \cup {NoRequest}] :
              WorkersFit(t, ws) => WorkersFit(u, ws)
         /\ \A cs \in Seq(1..MaxBlock) : CmdsFit(t, cs) => CmdsFit(u, cs)
         /\ \A rs \in Seq(Response \cup {FullySynced(n) : n \in 1..MaxBlock}) :
              AnswersFit(t, rs) => AnswersFit(u, rs)
<1>1. \A r \in RangeType : Fits(t, r) => Fits(u, r)
  BY RangeIs DEF Fits
<1>2. ASSUME NEW s \in SyncStatus, SyncFits(t, s)
      PROVE  SyncFits(u, s)
  <2>1. \A i \in DOMAIN s.errors : s.errors[i] \in RangeType
    BY SyncIs
  <2>2. /\ \A r \in s.processing : Fits(u, r)
        /\ \A i \in DOMAIN s.errors : Fits(u, s.errors[i])
    BY <1>1, <1>2, <2>1, SyncIs DEF SyncFits
  <2>3. s.stored <= u /\ s.requested <= u /\ s.lastBlockOnL1 <= u
    BY <1>2, SyncIs DEF SyncFits
  <2> QED BY <2>2, <2>3 DEF SyncFits
<1>3. ASSUME NEW ws \in [1..NumWorkers -> Request \cup {NoRequest}], WorkersFit(t, ws)
      PROVE  WorkersFit(u, ws)
  <2>1. \A w \in 1..NumWorkers : ws[w] # NoRequest => ws[w].range \in RangeType
    BY DEF Request
  <2> QED BY <1>1, <1>3, <2>1 DEF WorkersFit
<1>4. ASSUME NEW cs \in Seq(1..MaxBlock), CmdsFit(t, cs)
      PROVE  CmdsFit(u, cs)
  <2>1. \A i \in DOMAIN cs : cs[i] \in Nat
    BY Constants
  <2> QED BY <1>4, <2>1 DEF CmdsFit
<1>5. ASSUME NEW rs \in Seq(Response \cup {FullySynced(n) : n \in 1..MaxBlock}), AnswersFit(t, rs)
      PROVE  AnswersFit(u, rs)
  <2> SUFFICES ASSUME NEW i \in DOMAIN rs, ~IsControl(rs[i])
               PROVE  AnswerFits(u, rs[i])
    BY DEF AnswersFit
  <2>1. rs[i] \in Response
    BY DEF FullySynced, IsControl
  <2>2. AnswerFits(t, rs[i])
    BY <1>5 DEF AnswersFit
  <2>3. \A b \in Block : b.n <= t => b.n <= u
    BY BlockIs
  <2> QED BY <1>1, <2>1, <2>2, <2>3, ResponseIs DEF AnswerFits
<1> QED BY <1>2, <1>3, <1>4, <1>5

\* What fits a short L1 fits a longer one.
LEMMA ReaderFitsUp ==
  ASSUME TypeOK, ReaderFits, chain' \in Seq(Block), Len(chain) <= Len(chain'),
         UNCHANGED <<prodVars, channel, consumer, main>>
  PROVE  ReaderFits'
<1> DEFINE t == Len(chain)
           u == Len(chain')
<1>1. t \in Nat /\ u \in Nat /\ t <= u
  BY DEF TypeOK
<1>2. /\ sync \in SyncStatus /\ workers \in [1..NumWorkers -> Request \cup {NoRequest}]
      /\ cmds \in Seq(1..MaxBlock)
      /\ filter.last \in Nat /\ consumer.processed \in Nat /\ main.to \in Nat
  BY Constants DEF TypeOK
<1>3. responses \in Seq(Msg) /\ filter.pending \in Seq(Msg) /\ channel \in Seq(Msg)
  <2>1. Seq(Response) \subseteq Seq(Msg)
    BY SeqMonotonic DEF Msg
  <2> QED BY <2>1 DEF TypeOK, Msg
<1>4. SyncFits(u, sync) /\ WorkersFit(u, workers) /\ CmdsFit(u, cmds)
  BY <1>1, <1>2, FitsUp DEF ReaderFits
<1>5. AnswersFit(u, responses) /\ AnswersFit(u, filter.pending) /\ AnswersFit(u, channel)
  BY <1>1, <1>3, FitsUp DEF ReaderFits, Msg
<1>6. filter.last <= u /\ consumer.processed <= u /\ main.to <= u
  BY <1>1, <1>2 DEF ReaderFits
<1> QED BY <1>4, <1>5, <1>6 DEF ReaderFits, prodVars

LEMMA NewL1BlockAlways ==
  ASSUME Always, NewL1Block
  PROVE  Always'
<1> DEFINE b == NewBlock(Len(chain) + 1, fork, pattern)
<1>1. /\ chain' = Append(chain, b) /\ Len(chain) < MaxBlock
      /\ UNCHANGED <<pattern, fork, db, prodVars, channel, consumer, main, faults>>
  BY DEF NewL1Block
<1>2. b \in Block /\ b.n = Len(chain) + 1
  <2>1. Len(chain) \in Nat /\ fork \in 0..MaxFaults
    BY DEF Always, TypeOK
  <2> QED BY <1>1, <2>1, Constants DEF Block, NewBlock
<1> HIDE DEF b
<1>3. chain \in Seq(Block) /\ Len(chain) \in Nat
  BY DEF Always, TypeOK
<1>4. /\ chain' \in Seq(Block) /\ Len(chain') = Len(chain) + 1
      /\ \A n \in DOMAIN chain : n \in DOMAIN chain' /\ chain'[n] = chain[n]
      /\ chain'[Len(chain) + 1] = b
      /\ \A n \in DOMAIN chain' : n \in DOMAIN chain \/ n = Len(chain) + 1
  BY <1>1, <1>2, <1>3, AppendElements
<1>5. TypeOK'
  BY <1>1, <1>4 DEF Always, TypeOK, prodVars
<1>6. Numbered(chain)'
  BY <1>2, <1>3, <1>4, Constants DEF Always, Numbered
<1>7. ReaderFits'
  BY <1>1, <1>3, <1>4, ReaderFitsUp DEF Always
<1>8. TableOK'
  <2>1. GenesisBlockNum \in DOMAIN chain
    BY <1>3, Constants DEF Always, Numbered
  <2>2. \A c \in db : c.n \in Nat
    BY BlockIs DEF Always, TypeOK
  <2>3. \A c \in db : c.n <= Len(chain')
    BY <1>3, <1>4, <2>2 DEF Always, TableOK
  <2> QED BY <1>1, <1>4, <2>1, <2>3 DEF Always, TableOK
<1>9. Disjoint(sync)' /\ ControlOK'
  BY <1>1 DEF Always, ControlOK, prodVars, At
<1> QED BY <1>5, <1>6, <1>7, <1>8, <1>9 DEF Always

LEMMA FaultIs ==
  ASSUME TypeOK, NEW kind, Fault(kind)
  PROVE  /\ kind \in Kinds /\ faults.left \in Nat /\ faults.left > 0
         /\ faults'.left = faults.left - 1 /\ faults'.seen = faults.seen \cup {kind}
         /\ faults' \in [left : 0..MaxFaults, seen : SUBSET Kinds]
<1>1. faults.left \in 0..MaxFaults /\ faults.seen \in SUBSET Kinds
  BY DEF TypeOK
<1>2. /\ kind \in Kinds /\ faults.left > 0
      /\ faults' = [left |-> faults.left - 1, seen |-> faults.seen \cup {kind}]
  BY DEF Fault
<1> QED BY <1>1, <1>2, Constants

LEMMA L1ReorgAlways ==
  ASSUME Always, NEW h \in GenesisBlockNum..MaxBlock - 1, L1Reorg(h)
  PROVE  Always'
<1>1. /\ Fault("reorg") /\ fork' = fork + 1
      /\ chain' = [n \in DOMAIN chain |->
                     IF n <= h THEN chain[n] ELSE NewBlock(n, fork + 1, pattern)]
      /\ UNCHANGED <<pattern, db, prodVars, channel, consumer, main>>
  BY DEF L1Reorg
<1>2. /\ faults.left \in Nat /\ faults.left > 0 /\ faults'.left = faults.left - 1
      /\ faults' \in [left : 0..MaxFaults, seen : SUBSET Kinds]
  BY <1>1, FaultIs DEF Always
<1>3. fork \in 0..MaxFaults /\ fork + 1 \in 0..MaxFaults /\ fork + 1 <= MaxFaults - faults'.left
  <2>1. fork \in 0..MaxFaults /\ fork <= MaxFaults - faults.left
    BY DEF Always, TypeOK, ControlOK
  <2> QED BY <1>2, <2>1, Constants
<1>4. chain \in Seq(Block) /\ Len(chain) \in Nat /\ DOMAIN chain = 1..Len(chain) /\ Len(chain) <= MaxBlock
  BY ChainIs
<1>5. \A n \in DOMAIN chain : NewBlock(n, fork + 1, pattern) \in Block /\ NewBlock(n, fork + 1, pattern).n = n
  BY <1>3, <1>4, Constants DEF NewBlock, Block
<1>6. \A n \in 1..Len(chain) : chain'[n] \in Block /\ chain'[n].n = n
  BY <1>1, <1>4, <1>5 DEF Always, Numbered
<1>7. chain' \in Seq(Block) /\ Len(chain') = Len(chain) /\ DOMAIN chain' = DOMAIN chain
  <2>1. chain' = [n \in 1..Len(chain) |-> chain'[n]]
    BY <1>1, <1>4
  <2>2. chain' \in [1..Len(chain) -> Block]
    BY <1>6, <2>1
  <2>3. chain' \in Seq(Block)
    BY <1>4, <2>2
  <2>4. DOMAIN chain' = 1..Len(chain)
    BY <2>2
  <2>5. Len(chain') = Len(chain)
    BY <1>4, <2>3, <2>4
  <2> QED BY <1>4, <2>3, <2>4, <2>5
<1>8. TypeOK'
  BY <1>1, <1>2, <1>3, <1>7 DEF Always, TypeOK, prodVars
<1>9. Numbered(chain)'
  BY <1>4, <1>6, <1>7 DEF Always, Numbered
<1>10. ReaderFits'
  BY <1>1, <1>4, <1>7, ReaderFitsUp DEF Always
<1>11. TableOK'
  <2>1. GenesisBlockNum \in DOMAIN chain /\ GenesisBlockNum <= h
    BY <1>4, Constants DEF Always, Numbered
  <2>2. chain'[GenesisBlockNum] = chain[GenesisBlockNum]
    BY <1>1, <2>1
  <2> QED BY <1>1, <1>7, <2>2 DEF Always, TableOK
<1>12. Disjoint(sync)' /\ ControlOK'
  BY <1>1, <1>3 DEF Always, ControlOK, prodVars, At
<1> QED BY <1>8, <1>9, <1>10, <1>11, <1>12 DEF Always

-----------------------------------------------------------------------------
(* Always: the workers and the producer                                    *)

SyncOK(t, s) == s \in SyncStatus /\ SyncFits(t, s) /\ Disjoint(s)
FilterOK(t, fl) ==
  fl \in [last : 0..MaxBlock, pending : Seq(Response)] /\ AnswersFit(t, fl.pending) /\ fl.last <= t
ChannelOK(t, ch) == ch \in Seq(Msg) /\ Len(ch) <= ChannelSize /\ AnswersFit(t, ch)
CmdsOK(t, cs) == cs \in Seq(1..MaxBlock) /\ Len(cs) <= CmdsSize /\ CmdsFit(t, cs)
WorkersOK(t, ws) == ws \in [1..NumWorkers -> Request \cup {NoRequest}] /\ WorkersFit(t, ws)
ResponsesOK(t, rs) == rs \in Seq(Response) /\ AnswersFit(t, rs)
StatusOK(st) == st \in {"idle", "working", "synchronized", "reseting"}
ProdOK(p) ==
  p \in [pc : {"select", "send", "switch", "idle", "launch", "announce"},
         round : 0..3, allowNew : BOOLEAN, launched : BOOLEAN]

ReaderOK(t) ==
  /\ SyncOK(t, sync) /\ FilterOK(t, filter) /\ ChannelOK(t, channel)
  /\ CmdsOK(t, cmds) /\ WorkersOK(t, workers) /\ ResponsesOK(t, responses)
  /\ StatusOK(status) /\ ProdOK(prod)
  /\ At("announce") => IsNodeFullySynchronizedWithL1(sync)

LEMMA AlwaysReader == Always => ReaderOK(Len(chain))
BY DEF Always, TypeOK, ReaderFits, ControlOK, ReaderOK, SyncOK, FilterOK, ChannelOK, CmdsOK,
       WorkersOK, ResponsesOK, StatusOK, ProdOK, Msg

\* A step of the reader that leaves the rest alone.
LEMMA ReaderStep ==
  ASSUME Always, ReaderOK(Len(chain))', UNCHANGED <<l1Vars, db, consumer, main>>,
         faults' \in [left : 0..MaxFaults, seen : SUBSET Kinds], faults'.left <= faults.left
  PROVE  Always'
<1>1. UNCHANGED <<chain, pattern, fork, db, consumer, main>>
  BY DEF l1Vars
<1>2. TypeOK'
  BY <1>1 DEF Always, TypeOK, ReaderOK, SyncOK, FilterOK, ChannelOK, CmdsOK, WorkersOK,
              ResponsesOK, StatusOK, ProdOK, Msg
<1>3. ReaderFits' /\ Disjoint(sync)'
  BY <1>1 DEF Always, ReaderFits, ReaderOK, SyncOK, FilterOK, ChannelOK, CmdsOK, WorkersOK, ResponsesOK
<1>4. Numbered(chain)' /\ TableOK'
  BY <1>1 DEF Always, TableOK
<1>5. ControlOK'
  <2>1. fork \in Nat /\ faults.left \in Nat /\ faults'.left \in Nat /\ fork <= MaxFaults - faults.left
    BY DEF Always, TypeOK, ControlOK
  <2>2. fork' <= MaxFaults - faults'.left
    BY <1>1, <2>1, Constants
  <2> QED BY <1>1, <2>2 DEF Always, ControlOK, ReaderOK
<1> QED BY <1>2, <1>3, <1>4, <1>5 DEF Always

LEMMA FaultsSame ==
  ASSUME Always, UNCHANGED faults
  PROVE  faults' \in [left : 0..MaxFaults, seen : SUBSET Kinds] /\ faults'.left <= faults.left
<1>1. faults \in [left : 0..MaxFaults, seen : SUBSET Kinds]
  BY DEF Always, TypeOK
<1> QED BY <1>1, Constants

LEMMA FaultTypes ==
  ASSUME Always, NEW kind, Fault(kind)
  PROVE  faults' \in [left : 0..MaxFaults, seen : SUBSET Kinds] /\ faults'.left <= faults.left
<1>1. TypeOK
  BY DEF Always
<1> QED BY <1>1, FaultIs

\* One more answer, one answer less.
LEMMA AppendFits ==
  ASSUME NEW t, NEW rs \in Seq(Msg), AnswersFit(t, rs), NEW r \in Msg,
         ~IsControl(r) => AnswerFits(t, r)
  PROVE  AnswersFit(t, Append(rs, r))
<1> SUFFICES ASSUME NEW i \in DOMAIN Append(rs, r), ~IsControl(Append(rs, r)[i])
             PROVE  AnswerFits(t, Append(rs, r)[i])
  BY DEF AnswersFit
<1>1. CASE i \in DOMAIN rs
  <2>1. Append(rs, r)[i] = rs[i]
    BY <1>1, AppendElements
  <2> QED BY <1>1, <2>1 DEF AnswersFit
<1>2. CASE i = Len(rs) + 1
  <2>1. Append(rs, r)[i] = r
    BY <1>2, AppendElements
  <2> QED BY <2>1
<1> QED BY <1>1, <1>2, AppendElements

LEMMA TailFits ==
  ASSUME NEW t, NEW rs \in Seq(Msg), AnswersFit(t, rs), rs # <<>>
  PROVE  AnswersFit(t, Tail(rs)) /\ (~IsControl(Head(rs)) => AnswerFits(t, Head(rs)))
BY TailElements DEF AnswersFit

LEMMA ResponsesAreMsgs == Seq(Response) \subseteq Seq(Msg)
BY SeqMonotonic DEF Msg

LEMMA AnsweredAlways ==
  ASSUME Always, NEW w \in 1..NumWorkers, NEW r \in Response, AnswerFits(Len(chain), r),
         Answered(w, r),
         faults' \in [left : 0..MaxFaults, seen : SUBSET Kinds], faults'.left <= faults.left
  PROVE  Always'
<1> DEFINE t == Len(chain)
<1>1. /\ workers' = [workers EXCEPT ![w] = NoRequest]
      /\ responses' = Append(responses, r)
      /\ UNCHANGED <<l1Vars, db, status, prod, sync, filter, cmds, channel, consumer, main>>
  BY DEF Answered
<1>2. ReaderOK(t)
  BY AlwaysReader
<1>3. WorkersOK(t, workers')
  BY <1>1, <1>2 DEF ReaderOK, WorkersOK, WorkersFit
<1>4. ResponsesOK(t, responses')
  <2>1. responses \in Seq(Response) /\ responses \in Seq(Msg) /\ r \in Msg /\ AnswersFit(t, responses)
    BY <1>2, ResponsesAreMsgs DEF ReaderOK, ResponsesOK, Msg
  <2>2. AnswersFit(t, Append(responses, r))
    BY <2>1, AppendFits
  <2>3. Append(responses, r) \in Seq(Response)
    BY <2>1
  <2> QED BY <1>1, <2>2, <2>3 DEF ResponsesOK
<1>5. chain' = chain
  BY <1>1 DEF l1Vars
<1>6. ReaderOK(Len(chain))'
  BY <1>1, <1>2, <1>3, <1>4, <1>5 DEF ReaderOK, At
<1> QED BY <1>1, <1>6, ReaderStep

LEMMA RequestIs ==
  ASSUME Always, NEW w \in 1..NumWorkers, workers[w] # NoRequest
  PROVE  /\ workers[w] \in Request /\ workers[w].range \in RangeType
         /\ workers[w].unsafe \in BOOLEAN /\ Fits(Len(chain), workers[w].range)
<1>1. workers[w] \in Request
  BY DEF Always, TypeOK
<1>2. Fits(Len(chain), workers[w].range)
  BY DEF Always, ReaderFits, WorkersFit
<1> QED BY <1>1, <1>2 DEF Request

LEMMA BlocksOfIs ==
  ASSUME Always, NEW r \in RangeType
  PROVE  /\ BlocksOf(r) \subseteq Block
         /\ \A b \in BlocksOf(r) : /\ b.n \in DOMAIN chain /\ chain[b.n] = b
                                   /\ b.n <= Len(chain)
                                   /\ r.from <= b.n /\ b.n <= r.to
         /\ \A n \in DOMAIN chain :
              r.from <= n /\ n <= r.to /\ chain[n].event => chain[n] \in BlocksOf(r)
<1>1. \A n \in DOMAIN chain : chain[n] \in Block /\ chain[n].n = n /\ n <= Len(chain)
  BY ChainIs
<1> QED BY <1>1 DEF BlocksOf

\* The answer of a worker.
Reply(q) ==
  [range |-> q.range, ok |-> TRUE, blocks |-> BlocksOf(q.range),
   last |-> IF mustRequestLastBlock(q, BlocksOf(q.range)) THEN chain[q.range.to] ELSE NoBlock,
   prev |-> IF q.unsafe /\ q.range.from > 2 THEN chain[q.range.from - 1] ELSE NoBlock]

LEMMA ReplyIs ==
  ASSUME Always, NEW q \in Request, Fits(Len(chain), q.range)
  PROVE  /\ Reply(q) \in Response /\ AnswerFits(Len(chain), Reply(q))
         /\ Reply(q).last # NoBlock =>
              /\ q.range.to # latestBlockNumber /\ q.range.to \in DOMAIN chain
              /\ Reply(q).last = chain[q.range.to]
         /\ Reply(q).prev # NoBlock =>
              q.range.from - 1 \in DOMAIN chain /\ Reply(q).prev = chain[q.range.from - 1]
<1>1. q.range \in RangeType /\ q.unsafe \in BOOLEAN
  BY DEF Request
<1>2. /\ q.range.from \in Nat /\ q.range.to \in Nat /\ q.range.from >= 1 /\ q.range.to >= 1
      /\ q.range.from <= Len(chain) + 1
      /\ q.range.to # latestBlockNumber => q.range.to <= Len(chain)
  BY <1>1, RangeIs DEF Fits
<1>3. /\ Len(chain) \in Nat /\ DOMAIN chain = 1..Len(chain)
      /\ \A n \in DOMAIN chain : chain[n] \in Block /\ chain[n].n = n
  BY ChainIs
<1>4. Reply(q).last # NoBlock =>
        /\ q.range.to # latestBlockNumber /\ q.range.to \in DOMAIN chain
        /\ Reply(q).last = chain[q.range.to]
  BY <1>2, <1>3 DEF Reply, mustRequestLastBlock
<1>5. Reply(q).prev # NoBlock =>
        q.range.from - 1 \in DOMAIN chain /\ Reply(q).prev = chain[q.range.from - 1]
  BY <1>2, <1>3 DEF Reply
<1>6. BlocksOf(q.range) \subseteq Block /\ \A b \in BlocksOf(q.range) : b.n <= Len(chain)
  BY <1>1, BlocksOfIs
<1>7. Reply(q).last \in Block \cup {NoBlock} /\ Reply(q).prev \in Block \cup {NoBlock}
  BY <1>3, <1>4, <1>5
<1>8. /\ Reply(q).range = q.range /\ Reply(q).blocks = BlocksOf(q.range)
      /\ Reply(q) = [range |-> q.range, ok |-> TRUE, blocks |-> BlocksOf(q.range),
                     last |-> Reply(q).last, prev |-> Reply(q).prev]
  BY DEF Reply
<1>9. Reply(q) \in Response
  <2>1. \A l, p \in Block \cup {NoBlock} :
          [range |-> q.range, ok |-> TRUE, blocks |-> BlocksOf(q.range), last |-> l, prev |-> p]
            \in Response
    BY <1>1, <1>6 DEF Response
  <2> QED BY <1>7, <1>8, <2>1, Zenon
<1>10. AnswerFits(Len(chain), Reply(q))
  <2>1. Reply(q).last # NoBlock => Reply(q).last.n = q.range.to /\ q.range.to <= Len(chain)
    BY <1>2, <1>3, <1>4
  <2>2. Reply(q).last # NoBlock => Reply(q).last.n <= Len(chain)
    BY <2>1, Zenon
  <2> QED BY <1>6, <1>8, <2>2, Zenon DEF AnswerFits
<1> QED BY <1>4, <1>5, <1>9, <1>10

LEMMA ExecuteAlways ==
  ASSUME Always, NEW w \in 1..NumWorkers, executeRequestRollupInfoByBlockRange(w)
  PROVE  Always'
<1>1. workers[w] # NoRequest /\ Answered(w, Reply(workers[w])) /\ UNCHANGED faults
  BY DEF executeRequestRollupInfoByBlockRange, Reply
<1>2. workers[w] \in Request /\ Fits(Len(chain), workers[w].range)
  BY <1>1, RequestIs
<1>3. Reply(workers[w]) \in Response /\ AnswerFits(Len(chain), Reply(workers[w]))
  BY <1>2, ReplyIs
<1> QED BY <1>1, <1>3, AnsweredAlways, FaultsSame

\* The answer of a worker that fails.
Failure(q) ==
  [range |-> q.range, ok |-> FALSE, blocks |-> {}, last |-> NoBlock, prev |-> NoBlock]

LEMMA RequestFailsAlways ==
  ASSUME Always, NEW w \in 1..NumWorkers, RequestFails(w)
  PROVE  Always'
<1>1. workers[w] # NoRequest /\ Answered(w, Failure(workers[w])) /\ Fault("rpc")
  BY DEF RequestFails, Failure
<1>2. workers[w].range \in RangeType /\ Fits(Len(chain), workers[w].range)
  BY <1>1, RequestIs
<1>3. Failure(workers[w]) \in Response
  BY <1>2 DEF Failure, Response
<1>4. AnswerFits(Len(chain), Failure(workers[w]))
  BY <1>2 DEF Failure, AnswerFits
<1> QED BY <1>1, <1>3, <1>4, AnsweredAlways, FaultTypes

-----------------------------------------------------------------------------
(* Always: the producer                                                    *)

LEMMA GotoIs ==
  ASSUME NEW pc \in {"select", "send", "switch", "idle", "launch", "announce"}, Goto(pc)
  PROVE  ProdOK(prod') /\ prod'.pc = pc
<1>1. prod' = [pc |-> pc, round |-> 0, allowNew |-> FALSE, launched |-> FALSE]
  BY DEF Goto, IdleProducer
<1> QED BY <1>1 DEF ProdOK

LEMMA LaunchInIs ==
  ASSUME NEW round \in 1..3, LaunchIn(round)
  PROVE  ProdOK(prod') /\ prod'.pc = "launch"
<1>1. canISendNewRequests \in BOOLEAN
  BY DEF canISendNewRequests
<1>2. prod' = [pc |-> "launch", round |-> round, allowNew |-> canISendNewRequests, launched |-> FALSE]
  BY DEF LaunchIn
<1> QED BY <1>1, <1>2 DEF ProdOK

LEMMA HighestInFits ==
  ASSUME NEW t \in Nat, NEW r \in Response, AnswerFits(t, r)
  PROVE  HighestIn(r) \in Nat /\ HighestIn(r) <= t /\ HighestIn(r) <= MaxBlock
<1>1. r.range \in RangeType
  BY ResponseIs
<1>2. HighestIn(r) \in Nat /\ HighestIn(r) <= MaxBlock
  BY HighestInIs, Constants
<1>3. CASE r.range.to # latestBlockNumber
  BY <1>1, <1>2, <1>3, HighestInIs DEF AnswerFits, Fits
<1>4. CASE r.range.to = latestBlockNumber /\ r.blocks = {}
  BY <1>2, <1>4, HighestInIs
<1>5. CASE r.range.to = latestBlockNumber /\ r.blocks # {}
  BY <1>2, <1>5, HighestInIs DEF AnswerFits
<1> QED BY <1>2, <1>3, <1>4, <1>5

\* The empty sequences and sets.
LEMMA EmptyFits ==
  ASSUME NEW t
  PROVE  /\ AnswersFit(t, <<>>) /\ <<>> \in Seq(Response) /\ <<>> \in Seq(Msg)
         /\ CmdsFit(t, <<>>)
BY DEF AnswersFit, CmdsFit

LEMMA ResetUnsafeAlways ==
  ASSUME Always, resetUnsafe
  PROVE  Always'
<1> DEFINE t == Len(chain)
           n == Head(cmds)
<1>1. /\ cmds # <<>> /\ sync' = ResetSync(sync, n)
      /\ filter' = [last |-> n, pending |-> <<>>]
      /\ channel' = <<>> /\ status' = "idle" /\ cmds' = Tail(cmds) /\ Goto("switch")
      /\ UNCHANGED <<others, workers, responses>>
  BY DEF resetUnsafe
<1>2. ReaderOK(t) /\ t \in Nat
  BY AlwaysReader, ChainIs
<1>3. n \in 1..MaxBlock /\ n <= t /\ CmdsOK(t, cmds')
  <2>1. cmds \in Seq(1..MaxBlock) /\ Len(cmds) <= CmdsSize /\ CmdsFit(t, cmds)
    BY <1>2 DEF ReaderOK, CmdsOK
  <2>2. /\ n \in 1..MaxBlock /\ n = cmds[1] /\ 1 \in DOMAIN cmds
        /\ Tail(cmds) \in Seq(1..MaxBlock) /\ Len(Tail(cmds)) = Len(cmds) - 1
        /\ \A i \in DOMAIN Tail(cmds) : i + 1 \in DOMAIN cmds /\ Tail(cmds)[i] = cmds[i + 1]
    BY <1>1, <2>1, TailElements
  <2>3. n <= t /\ CmdsFit(t, Tail(cmds))
    BY <2>1, <2>2 DEF CmdsFit
  <2>4. Len(Tail(cmds)) <= CmdsSize
    BY <2>1, <2>2, Constants
  <2> QED BY <1>1, <2>2, <2>3, <2>4 DEF CmdsOK
<1> HIDE DEF n
<1>4. SyncOK(t, sync')
  <2>1. sync \in SyncStatus /\ SyncFits(t, sync) /\ Disjoint(sync)
    BY <1>2 DEF ReaderOK, SyncOK
  <2>2. /\ sync' \in SyncStatus /\ sync'.stored = n /\ sync'.requested = n
        /\ sync'.lastBlockOnL1 = sync.lastBlockOnL1
        /\ sync'.processing = {} /\ sync'.errors = sync.errors
    <3>1. n \in 0..MaxBlock
      BY <1>3, Constants
    <3>2. sync' = [sync EXCEPT !.stored = n, !.requested = n, !.processing = {}]
      BY <1>1 DEF ResetSync
    <3>3. /\ sync = [stored |-> sync.stored, requested |-> sync.requested,
                     lastBlockOnL1 |-> sync.lastBlockOnL1, processing |-> sync.processing,
                     errors |-> sync.errors]
          /\ sync.lastBlockOnL1 \in 0..MaxBlock /\ sync.errors \in Seq(RangeType)
      BY <2>1 DEF SyncStatus
    <3>4. sync' = [stored |-> n, requested |-> n, lastBlockOnL1 |-> sync.lastBlockOnL1,
                   processing |-> {}, errors |-> sync.errors]
      BY <3>2, <3>3
    <3> QED BY <3>1, <3>3, <3>4 DEF SyncStatus
  <2>3. SyncFits(t, sync')
    BY <1>3, <2>1, <2>2 DEF SyncFits
  <2>4. Disjoint(sync')
    BY <2>1, <2>2 DEF Disjoint
  <2> QED BY <2>2, <2>3, <2>4 DEF SyncOK
<1>5. FilterOK(t, filter')
  BY <1>1, <1>3, EmptyFits, Constants DEF FilterOK
<1>6. ChannelOK(t, channel')
  BY <1>1, EmptyFits, Constants DEF ChannelOK
<1>7. ProdOK(prod') /\ prod'.pc = "switch"
  BY <1>1, GotoIs
<1>8. ReaderOK(Len(chain))'
  <2>1. chain' = chain
    BY <1>1 DEF others, l1Vars
  <2> QED BY <1>1, <1>2, <1>3, <1>4, <1>5, <1>6, <1>7, <2>1 DEF ReaderOK, At, StatusOK
<1>9. UNCHANGED <<l1Vars, db, consumer, main>> /\ UNCHANGED faults
  BY <1>1 DEF others
<1> QED BY <1>8, <1>9, ReaderStep, FaultsSame

LEMMA HeadResponse ==
  ASSUME Always, responses # <<>>
  PROVE  /\ Head(responses) \in Response /\ AnswerFits(Len(chain), Head(responses))
         /\ ResponsesOK(Len(chain), Tail(responses))
<1>1. responses \in Seq(Response) /\ responses \in Seq(Msg) /\ AnswersFit(Len(chain), responses)
  BY AlwaysReader, ResponsesAreMsgs DEF ReaderOK, ResponsesOK
<1>2. Head(responses) \in Response /\ Tail(responses) \in Seq(Response)
  BY <1>1, TailElements
<1>3. AnswersFit(Len(chain), Tail(responses)) /\ AnswerFits(Len(chain), Head(responses))
  BY <1>1, <1>2, TailFits, ResponseIs
<1> QED BY <1>2, <1>3 DEF ResponsesOK

LEMMA OnResponseAlways ==
  ASSUME Always, onResponseRollupInfo
  PROVE  Always'
<1> DEFINE t == Len(chain)
           r == Head(responses)
<1>1. /\ responses # <<>> /\ r.range \in sync.processing
      /\ sync' = [sync EXCEPT !.processing = @ \ {r.range}, !.stored = Max({@, HighestIn(r)})]
      /\ filter' = [filter EXCEPT !.pending = Append(@, r)]
      /\ responses' = Tail(responses) /\ Goto("send")
      /\ UNCHANGED <<others, status, cmds, workers, channel>>
  BY DEF onResponseRollupInfo, Ignored
<1>2. ReaderOK(t) /\ t \in Nat
  BY AlwaysReader, ChainIs
<1>3. r \in Response /\ AnswerFits(t, r) /\ ResponsesOK(t, responses')
  BY <1>1, HeadResponse
<1>4. HighestIn(r) \in Nat /\ HighestIn(r) <= t /\ HighestIn(r) <= MaxBlock
  BY <1>2, <1>3, HighestInFits
<1> HIDE DEF r
<1>5. SyncOK(t, sync')
  <2>1. sync \in SyncStatus /\ SyncFits(t, sync) /\ Disjoint(sync)
    BY <1>2 DEF ReaderOK, SyncOK
  <2>2. sync.stored \in Nat /\ sync.stored <= MaxBlock /\ sync.stored <= t
    BY <2>1, SyncIs DEF SyncFits
  <2>3. /\ Max({sync.stored, HighestIn(r)}) \in 0..MaxBlock
        /\ Max({sync.stored, HighestIn(r)}) <= t
    BY <1>4, <2>2, MaxOfTwo, Constants
  <2>4. /\ sync' \in SyncStatus /\ sync'.stored <= t /\ sync'.requested = sync.requested
        /\ sync'.lastBlockOnL1 = sync.lastBlockOnL1
        /\ sync'.processing \subseteq sync.processing /\ sync'.errors = sync.errors
    BY <1>1, <2>1, <2>3 DEF SyncStatus
  <2>5. SyncFits(t, sync')
    BY <2>1, <2>4 DEF SyncFits
  <2>6. Disjoint(sync')
    BY <2>1, <2>4 DEF Disjoint
  <2> QED BY <2>4, <2>5, <2>6 DEF SyncOK
<1>6. FilterOK(t, filter')
  <2>1. /\ filter \in [last : 0..MaxBlock, pending : Seq(Response)]
        /\ AnswersFit(t, filter.pending) /\ filter.last <= t
    BY <1>2 DEF ReaderOK, FilterOK
  <2>2. filter.pending \in Seq(Response) /\ filter.pending \in Seq(Msg) /\ r \in Msg
    BY <1>3, <2>1, ResponsesAreMsgs DEF Msg
  <2>3. AnswersFit(t, Append(filter.pending, r)) /\ Append(filter.pending, r) \in Seq(Response)
    BY <1>3, <2>1, <2>2, AppendFits
  <2>4. /\ filter' \in [last : 0..MaxBlock, pending : Seq(Response)]
        /\ filter'.last = filter.last /\ filter'.pending = Append(filter.pending, r)
    BY <1>1, <2>1, <2>3
  <2> QED BY <2>1, <2>3, <2>4 DEF FilterOK
<1>7. ProdOK(prod') /\ prod'.pc = "send"
  BY <1>1, GotoIs
<1>8. ReaderOK(Len(chain))'
  <2>1. chain' = chain
    BY <1>1 DEF others, l1Vars
  <2> QED BY <1>1, <1>2, <1>3, <1>5, <1>6, <1>7, <2>1 DEF ReaderOK, At
<1>9. UNCHANGED <<l1Vars, db, consumer, main>> /\ UNCHANGED faults
  BY <1>1 DEF others
<1> QED BY <1>8, <1>9, ReaderStep, FaultsSame

LEMMA OnResponseErrorAlways ==
  ASSUME Always, onResponseError
  PROVE  Always'
<1> DEFINE t == Len(chain)
           r == Head(responses)
<1>1. /\ responses # <<>> /\ r.range \in sync.processing
      /\ sync' = [sync EXCEPT !.processing = @ \ {r.range}, !.errors = Append(@, r.range)]
      /\ responses' = Tail(responses) /\ Goto("switch")
      /\ UNCHANGED <<others, status, filter, cmds, workers, channel>>
  BY DEF onResponseError, Ignored
<1>2. ReaderOK(t)
  BY AlwaysReader
<1>3. ResponsesOK(t, responses')
  BY <1>1, HeadResponse
<1> HIDE DEF r
<1>4. SyncOK(t, sync')
  <2> DEFINE x == r.range
             es == sync.errors
  <2>1. sync \in SyncStatus /\ SyncFits(t, sync) /\ Disjoint(sync)
    BY <1>2 DEF ReaderOK, SyncOK
  <2>2. x \in RangeType /\ es \in Seq(RangeType) /\ Append(es, x) \in Seq(RangeType)
    BY <1>1, <2>1, SyncIs
  <2> HIDE DEF x, es
  <2>3. /\ sync' \in SyncStatus /\ sync'.stored = sync.stored /\ sync'.requested = sync.requested
        /\ sync'.lastBlockOnL1 = sync.lastBlockOnL1
        /\ sync'.processing = sync.processing \ {x} /\ sync'.errors = Append(es, x)
    <3>1. sync' = [sync EXCEPT !.processing = sync.processing \ {x}, !.errors = Append(es, x)]
      BY <1>1 DEF x, es
    <3> QED BY <2>1, <2>2, <3>1 DEF SyncStatus
  <2>4. /\ \A i \in DOMAIN es : i \in DOMAIN Append(es, x) /\ Append(es, x)[i] = es[i]
        /\ Append(es, x)[Len(es) + 1] = x
        /\ \A i \in DOMAIN Append(es, x) : i \in DOMAIN es \/ i = Len(es) + 1
    BY <2>2, AppendElements
  <2>5. SyncFits(t, sync')
    <3>1. Fits(t, x) /\ \A i \in DOMAIN es : Fits(t, es[i])
      BY <1>1, <2>1 DEF SyncFits, x, es
    <3>2. \A i \in DOMAIN Append(es, x) : Fits(t, Append(es, x)[i])
      BY <2>4, <3>1
    <3> QED BY <2>1, <2>3, <3>2 DEF SyncFits
  <2>6. Disjoint(sync')
    <3>1. /\ \A i, j \in DOMAIN es : i # j => ~Overlaps(es[i], es[j])
          /\ \A q, s \in sync.processing : q # s => ~Overlaps(q, s)
          /\ \A q \in sync.processing, i \in DOMAIN es : ~Overlaps(q, es[i])
          /\ x \in sync.processing
      BY <1>1, <2>1 DEF Disjoint, x, es
    <3>2. \A q, s \in sync.processing : q # s => ~Overlaps(q, s) /\ ~Overlaps(s, q)
      BY <3>1
    <3>3. \A i \in DOMAIN es : ~Overlaps(es[i], x)
      BY <3>1 DEF Overlaps
    <3>4. \A i, j \in DOMAIN Append(es, x) : i # j => ~Overlaps(Append(es, x)[i], Append(es, x)[j])
      BY <2>4, <3>1, <3>3
    <3>5. \A q \in sync.processing \ {x}, i \in DOMAIN Append(es, x) : ~Overlaps(q, Append(es, x)[i])
      BY <2>4, <3>1
    <3> QED BY <2>3, <3>1, <3>4, <3>5 DEF Disjoint
  <2> QED BY <2>3, <2>5, <2>6 DEF SyncOK
<1>5. ProdOK(prod') /\ prod'.pc = "switch"
  BY <1>1, GotoIs
<1>6. ReaderOK(Len(chain))'
  <2>1. chain' = chain
    BY <1>1 DEF others, l1Vars
  <2> QED BY <1>1, <1>2, <1>3, <1>4, <1>5, <2>1 DEF ReaderOK, At
<1>7. UNCHANGED <<l1Vars, db, consumer, main>> /\ UNCHANGED faults
  BY <1>1 DEF others
<1> QED BY <1>6, <1>7, ReaderStep, FaultsSame

LEMMA OnResponseIgnoredAlways ==
  ASSUME Always, onResponseIgnored
  PROVE  Always'
<1>1. /\ responses # <<>> /\ responses' = Tail(responses) /\ Goto("switch")
      /\ UNCHANGED <<others, status, sync, filter, cmds, workers, channel>>
  BY DEF onResponseIgnored
<1>2. ReaderOK(Len(chain)) /\ ResponsesOK(Len(chain), responses')
  BY <1>1, AlwaysReader, HeadResponse
<1>3. ProdOK(prod') /\ prod'.pc = "switch"
  BY <1>1, GotoIs
<1>4. ReaderOK(Len(chain))'
  <2>1. chain' = chain
    BY <1>1 DEF others, l1Vars
  <2> QED BY <1>1, <1>2, <1>3, <2>1 DEF ReaderOK, At
<1>5. UNCHANGED <<l1Vars, db, consumer, main>> /\ UNCHANGED faults
  BY <1>1 DEF others
<1> QED BY <1>4, <1>5, ReaderStep, FaultsSame

-----------------------------------------------------------------------------
LEMMA SyncRecord ==
  ASSUME NEW s \in SyncStatus
  PROVE  /\ s = [stored |-> s.stored, requested |-> s.requested,
                 lastBlockOnL1 |-> s.lastBlockOnL1, processing |-> s.processing,
                 errors |-> s.errors]
         /\ s.stored \in 0..MaxBlock /\ s.requested \in 0..MaxBlock
         /\ s.lastBlockOnL1 \in 0..MaxBlock
         /\ s.processing \in SUBSET RangeType /\ s.errors \in Seq(RangeType)
BY DEF SyncStatus

\* Asking for the last block of L1.
LEMMA RenewOK ==
  ASSUME NEW t \in Nat, t <= MaxBlock, NEW s, SyncOK(t, s)
  PROVE  LET o == OnNewLastBlockOnL1(s, t)
         IN  /\ SyncOK(t, o) /\ o.stored = s.stored /\ o.requested = s.requested
             /\ o.processing = s.processing /\ o.errors = s.errors
<1> DEFINE o == OnNewLastBlockOnL1(s, t)
           m == Max({s.lastBlockOnL1, t})
<1>1. s \in SyncStatus /\ SyncFits(t, s) /\ Disjoint(s)
  BY DEF SyncOK
<1>2. s.lastBlockOnL1 \in Nat /\ s.lastBlockOnL1 <= MaxBlock /\ s.lastBlockOnL1 <= t
  BY <1>1, SyncIs DEF SyncFits
<1>3. m \in 0..MaxBlock /\ m <= t
  BY <1>2, MaxOfTwo, Constants
<1>4. o = [s EXCEPT !.lastBlockOnL1 = m]
  BY DEF OnNewLastBlockOnL1
<1> HIDE DEF m, o
<1>5. o = [stored |-> s.stored, requested |-> s.requested, lastBlockOnL1 |-> m,
           processing |-> s.processing, errors |-> s.errors]
  BY <1>1, <1>4, SyncRecord
<1>6. o \in SyncStatus
  BY <1>1, <1>3, <1>5, SyncRecord DEF SyncStatus
<1>7. /\ o.stored = s.stored /\ o.requested = s.requested /\ o.lastBlockOnL1 = m
      /\ o.processing = s.processing /\ o.errors = s.errors
  BY <1>5
<1>8. SyncFits(t, o)
  BY <1>1, <1>3, <1>7 DEF SyncFits
<1>9. Disjoint(o)
  BY <1>1, <1>7 DEF Disjoint
<1>10. SyncOK(t, o)
  BY <1>6, <1>8, <1>9 DEF SyncOK
<1> QED BY <1>7, <1>10 DEF o

\* Dropping the first failed range.
LEMMA DiscardOK ==
  ASSUME NEW t, NEW s, SyncOK(t, s)
  PROVE  SyncOK(t, Discard(s))
<1> DEFINE d == Discard(s)
<1>1. s \in SyncStatus /\ SyncFits(t, s) /\ Disjoint(s)
  BY DEF SyncOK
<1>2. /\ d \in SyncStatus
      /\ d.stored = s.stored /\ d.requested = s.requested
      /\ d.lastBlockOnL1 = s.lastBlockOnL1 /\ d.processing = s.processing
      /\ d.errors = s.errors \/ (s.errors # <<>> /\ d.errors = Tail(s.errors))
  BY <1>1, DiscardIs
<1>3. s.errors \in Seq(RangeType)
  BY <1>1, SyncIs
<1> HIDE DEF d
<1>4. SyncFits(t, d) /\ Disjoint(d)
  <2>1. CASE d.errors = s.errors
    BY <1>1, <1>2, <2>1 DEF SyncFits, Disjoint
  <2>2. CASE s.errors # <<>> /\ d.errors = Tail(s.errors)
    <3>1. \A i \in DOMAIN d.errors :
            i \in Nat /\ i + 1 \in DOMAIN s.errors /\ d.errors[i] = s.errors[i + 1]
      BY <1>3, <2>2, TailElements
    <3>2. SyncFits(t, d)
      BY <1>1, <1>2, <3>1 DEF SyncFits
    <3>3. \A i, j \in DOMAIN d.errors : i # j => ~Overlaps(d.errors[i], d.errors[j])
      <4>1. \A i, j \in DOMAIN s.errors : i # j => ~Overlaps(s.errors[i], s.errors[j])
        BY <1>1 DEF Disjoint
      <4>2. \A i, j \in Nat : i # j => i + 1 # j + 1
        OBVIOUS
      <4> QED BY <3>1, <4>1, <4>2
    <3>4. \A q \in d.processing, i \in DOMAIN d.errors : ~Overlaps(q, d.errors[i])
      BY <1>1, <1>2, <3>1 DEF Disjoint
    <3>5. \A q, r \in d.processing : q # r => ~Overlaps(q, r)
      BY <1>1, <1>2 DEF Disjoint
    <3> QED BY <3>2, <3>3, <3>4, <3>5 DEF Disjoint
  <2> QED BY <1>2, <2>1, <2>2
<1>5. SyncOK(t, d)
  BY <1>2, <1>4 DEF SyncOK
<1> QED BY <1>5 DEF d

\* Handing a range to a worker.
StartedFacts(s, d, o, r) ==
  /\ r \in RangeType
  /\ o.stored = s.stored /\ o.lastBlockOnL1 = s.lastBlockOnL1
  /\ o.processing = s.processing \cup {r}
  /\ o.requested \in Nat
  /\ r.to = latestBlockNumber => o.requested = s.lastBlockOnL1
  /\ r.to # latestBlockNumber =>
       o.requested = IF s.requested <= r.to THEN r.to ELSE s.requested
  /\ \A q \in s.processing : ~Overlaps(q, r)
  /\ \/ s.errors # <<>> /\ r = Head(s.errors) /\ d = s /\ o.errors = Tail(s.errors)
     \/ NewRangeFacts(s, d, r) /\ o.errors = d.errors

LEMMA StartedOK ==
  ASSUME NEW t \in Nat, t <= MaxBlock, NEW s, SyncOK(t, s), NEW a \in BOOLEAN,
         GetNextRange(s, a) # NoRange
  PROVE  LET r == GetNextRange(s, a)
             o == OnStartedNewWorker(Discard(s), r)
         IN  SyncOK(t, o) /\ StartedFacts(s, Discard(s), o, r) /\ Fits(t, r)
<1> DEFINE r == GetNextRange(s, a)
           d == Discard(s)
           o == OnStartedNewWorker(d, r)
           m == IF r.to = latestBlockNumber THEN d.lastBlockOnL1 ELSE Max({d.requested, r.to})
           es == removeBlockRange(d.errors, r)
<1>1. s \in SyncStatus /\ SyncFits(t, s) /\ Disjoint(s)
  BY DEF SyncOK
<1>2. /\ d \in SyncStatus /\ SyncFits(t, d) /\ Disjoint(d)
      /\ d.stored = s.stored /\ d.requested = s.requested
      /\ d.lastBlockOnL1 = s.lastBlockOnL1 /\ d.processing = s.processing
  BY <1>1, DiscardIs, DiscardOK DEF SyncOK
<1>3. /\ r \in RangeType
      /\ \/ s.errors # <<>> /\ r = Head(s.errors) /\ d = s
         \/ NewRangeFacts(s, d, r)
  BY <1>1, NextRangeIs
<1>4. o = [d EXCEPT !.errors = es, !.processing = d.processing \cup {r}, !.requested = m]
  BY DEF OnStartedNewWorker
<1> HIDE DEF r, d, o
<1>5. /\ s.errors \in Seq(RangeType) /\ d.errors \in Seq(RangeType)
      /\ \A i \in DOMAIN s.errors : s.errors[i] \in RangeType
      /\ \A i \in DOMAIN d.errors : d.errors[i] \in RangeType
      /\ \A q \in s.processing : q \in RangeType
  BY <1>1, <1>2, SyncIs
<1>6. /\ r.from \in Nat /\ r.to \in Nat /\ r.from >= 1 /\ r.from <= r.to
      /\ r.to # latestBlockNumber => r.to <= MaxBlock
  BY <1>3, RangeIs
<1>7. ASSUME s.errors # <<>>, r = Head(s.errors), d = s
      PROVE  /\ es \in Seq(RangeType) /\ Fits(t, r) /\ \A i \in DOMAIN es : Fits(t, es[i])
             /\ \A q \in s.processing : ~Overlaps(q, r)
             /\ \A i \in DOMAIN es : ~Overlaps(r, es[i])
             /\ \A i, j \in DOMAIN es : i # j => ~Overlaps(es[i], es[j])
             /\ \A q \in s.processing, i \in DOMAIN es : ~Overlaps(q, es[i])
             /\ es = Tail(s.errors)
  <2>1. /\ r = s.errors[1] /\ 1 \in DOMAIN s.errors
        /\ Tail(s.errors) \in Seq(RangeType)
        /\ \A i \in DOMAIN Tail(s.errors) :
             i \in Nat /\ i >= 1 /\ i + 1 \in DOMAIN s.errors /\ Tail(s.errors)[i] = s.errors[i + 1]
    BY <1>5, <1>7, TailElements
  <2>2. es = Tail(s.errors)
    BY <1>5, <1>7, RemoveHead
  <2>3. Fits(t, r) /\ \A i \in DOMAIN es : Fits(t, es[i])
    BY <1>1, <2>1, <2>2 DEF SyncFits
  <2>4. \A q \in s.processing : ~Overlaps(q, r)
    BY <1>1, <2>1 DEF Disjoint
  <2>5. \A i \in DOMAIN es : ~Overlaps(r, es[i])
    BY <1>1, <2>1, <2>2 DEF Disjoint
  <2>6. /\ \A i, j \in DOMAIN es : i # j => ~Overlaps(es[i], es[j])
        /\ \A q \in s.processing, i \in DOMAIN es : ~Overlaps(q, es[i])
    <3>1. ASSUME NEW i \in DOMAIN Tail(s.errors), NEW j \in DOMAIN Tail(s.errors), i # j
          PROVE  ~Overlaps(Tail(s.errors)[i], Tail(s.errors)[j])
      <4>1. i \in Nat /\ j \in Nat /\ i + 1 \in DOMAIN s.errors /\ j + 1 \in DOMAIN s.errors
        BY <2>1
      <4>2. i + 1 # j + 1
        BY <3>1, <4>1
      <4> QED BY <1>1, <2>1, <4>1, <4>2 DEF Disjoint
    <3>2. \A q \in s.processing, i \in DOMAIN Tail(s.errors) : ~Overlaps(q, Tail(s.errors)[i])
      BY <1>1, <2>1 DEF Disjoint
    <3> HIDE DEF es
    <3> QED BY <2>2, <3>1, <3>2
  <2> QED BY <1>7, <2>1, <2>2, <2>3, <2>4, <2>5, <2>6
<1>8. ASSUME NewRangeFacts(s, d, r)
      PROVE  /\ es \in Seq(RangeType) /\ Fits(t, r) /\ \A i \in DOMAIN es : Fits(t, es[i])
             /\ \A q \in s.processing : ~Overlaps(q, r)
             /\ \A i \in DOMAIN es : ~Overlaps(r, es[i])
             /\ \A i, j \in DOMAIN es : i # j => ~Overlaps(es[i], es[j])
             /\ \A q \in s.processing, i \in DOMAIN es : ~Overlaps(q, es[i])
             /\ es = d.errors
  <2>1. \A i \in DOMAIN d.errors : d.errors[i].to < r.from
    BY <1>8 DEF NewRangeFacts
  <2>2. \A i \in DOMAIN d.errors : d.errors[i] # r
    BY <1>6, <2>1
  <2>3. es = d.errors
    BY <1>5, <2>2, RemoveNone
  <2>4. Fits(t, r)
    <3>1. r.from - 1 <= t
      <4>1. CASE r.from - 1 = s.stored
        BY <1>1, <4>1 DEF SyncFits
      <4>2. CASE \E q \in s.processing : r.from - 1 = q.to
        <5>1. PICK q \in s.processing : r.from - 1 = q.to
          BY <4>2
        <5>2. q.to # latestBlockNumber /\ Fits(t, q)
          BY <1>1, <1>8 DEF NewRangeFacts, SyncFits
        <5> QED BY <5>1, <5>2 DEF Fits
      <4>3. CASE \E i \in DOMAIN d.errors : r.from - 1 = d.errors[i].to
        <5>1. PICK i \in DOMAIN d.errors : r.from - 1 = d.errors[i].to
          BY <4>3
        <5>2. d.errors[i].to # latestBlockNumber /\ Fits(t, d.errors[i])
          BY <1>2, <1>8 DEF NewRangeFacts, SyncFits
        <5> QED BY <5>1, <5>2 DEF Fits
      <4> QED BY <1>8, <4>1, <4>2, <4>3 DEF NewRangeFacts
    <3>2. r.to = latestBlockNumber \/ r.to < s.lastBlockOnL1
      BY <1>8 DEF NewRangeFacts
    <3>3. s.lastBlockOnL1 \in Nat /\ s.lastBlockOnL1 <= t
      BY <1>1, SyncIs DEF SyncFits
    <3> QED BY <1>6, <3>1, <3>2, <3>3 DEF Fits
  <2>5. \A q \in s.processing : ~Overlaps(q, r)
    <3>1. \A q \in s.processing : q.to < r.from /\ q.to \in Nat
      BY <1>5, <1>8, RangeIs DEF NewRangeFacts
    <3> QED BY <1>6, <3>1 DEF Overlaps
  <2>6. \A i \in DOMAIN es : ~Overlaps(r, es[i])
    <3>1. \A i \in DOMAIN d.errors : d.errors[i].to \in Nat
      BY <1>5, RangeIs
    <3> QED BY <1>6, <2>1, <2>3, <3>1 DEF Overlaps
  <2>7. /\ \A i, j \in DOMAIN es : i # j => ~Overlaps(es[i], es[j])
        /\ \A q \in s.processing, i \in DOMAIN es : ~Overlaps(q, es[i])
        /\ \A i \in DOMAIN es : Fits(t, es[i])
    BY <1>2, <2>3 DEF Disjoint, SyncFits
  <2> QED BY <1>5, <1>8, <2>3, <2>4, <2>5, <2>6, <2>7
<1>9. /\ es \in Seq(RangeType) /\ Fits(t, r) /\ \A i \in DOMAIN es : Fits(t, es[i])
      /\ \A q \in s.processing : ~Overlaps(q, r)
      /\ \A i \in DOMAIN es : ~Overlaps(r, es[i])
      /\ \A i, j \in DOMAIN es : i # j => ~Overlaps(es[i], es[j])
      /\ \A q \in s.processing, i \in DOMAIN es : ~Overlaps(q, es[i])
      /\ \/ s.errors # <<>> /\ r = Head(s.errors) /\ d = s /\ es = Tail(s.errors)
         \/ NewRangeFacts(s, d, r) /\ es = d.errors
  BY <1>3, <1>7, <1>8
<1> HIDE DEF es
<1>10. /\ m \in Nat /\ m <= MaxBlock /\ m <= t
       /\ r.to = latestBlockNumber => m = s.lastBlockOnL1
       /\ r.to # latestBlockNumber => m = IF s.requested <= r.to THEN r.to ELSE s.requested
  <2>1. /\ s.lastBlockOnL1 \in Nat /\ s.lastBlockOnL1 <= t /\ s.requested \in Nat /\ s.requested <= t
    BY <1>1, SyncIs DEF SyncFits
  <2>2. r.to # latestBlockNumber => r.to <= t
    BY <1>9 DEF Fits
  <2>3. Max({s.requested, r.to}) = IF s.requested <= r.to THEN r.to ELSE s.requested
    BY <1>6, <2>1, MaxOfTwo
  <2> QED BY <1>2, <1>6, <2>1, <2>2, <2>3, Constants
<1> HIDE DEF m
<1>11. o = [stored |-> s.stored, requested |-> m, lastBlockOnL1 |-> s.lastBlockOnL1,
            processing |-> s.processing \cup {r}, errors |-> es]
  <2>1. o = [stored |-> d.stored, requested |-> m, lastBlockOnL1 |-> d.lastBlockOnL1,
             processing |-> d.processing \cup {r}, errors |-> es]
    <3>1. d = [stored |-> d.stored, requested |-> d.requested,
               lastBlockOnL1 |-> d.lastBlockOnL1, processing |-> d.processing, errors |-> d.errors]
      BY <1>2, SyncRecord
    <3> QED BY <1>4, <3>1
  <2> QED BY <1>2, <2>1
<1>12. /\ o.stored = s.stored /\ o.requested = m /\ o.lastBlockOnL1 = s.lastBlockOnL1
       /\ o.processing = s.processing \cup {r} /\ o.errors = es
  BY <1>11
<1>13. o \in SyncStatus
  <2>1. m \in 0..MaxBlock /\ s.processing \cup {r} \in SUBSET RangeType
    BY <1>3, <1>5, <1>10, Constants
  <2> QED BY <1>1, <1>9, <1>11, <2>1, SyncRecord DEF SyncStatus
<1>14. SyncFits(t, o)
  BY <1>1, <1>9, <1>10, <1>12 DEF SyncFits
<1>15. Disjoint(o)
  <2>1. \A q \in s.processing : ~Overlaps(r, q)
    BY <1>9 DEF Overlaps
  <2>2. \A q, x \in s.processing : q # x => ~Overlaps(q, x)
    BY <1>1 DEF Disjoint
  <2> QED BY <1>9, <1>12, <2>1, <2>2 DEF Disjoint
<1>16. StartedFacts(s, d, o, r)
  BY <1>3, <1>9, <1>10, <1>12 DEF StartedFacts
<1>17. SyncOK(t, o) /\ Fits(t, r)
  BY <1>9, <1>13, <1>14, <1>15 DEF SyncOK
<1> QED BY <1>16, <1>17 DEF o, r, d

-----------------------------------------------------------------------------
\* The answer that is sent next is the first of those that start behind the
\* last one.
SendFacts(i, r) ==
  /\ i \in DOMAIN filter.pending /\ i \in Nat /\ r = filter.pending[i]
  /\ r \in Response /\ AnswerFits(Len(chain), r)
  /\ r.range.from = filter.last + 1
  /\ \A j \in DOMAIN filter.pending : filter.pending[j].range.from = filter.last + 1 => i <= j
  /\ HighestIn(r) \in Nat /\ HighestIn(r) <= Len(chain) /\ HighestIn(r) <= MaxBlock
  /\ filter' = [last |-> IF HighestIn(r) = 0 THEN filter.last ELSE HighestIn(r),
                pending |-> RemoveAt(filter.pending, i)]
  /\ channel' = Append(channel, r)

LEMMA SendIs ==
  ASSUME Always, sendResultIfPossible
  PROVE  \E i, r : SendFacts(i, r)
<1> DEFINE next == {j \in DOMAIN filter.pending : matchNextBlock(filter.pending[j])}
           i == Min(next)
           r == filter.pending[i]
<1>1. /\ next # {}
      /\ filter' = [last |-> IF HighestIn(r) = 0 THEN filter.last ELSE HighestIn(r),
                    pending |-> RemoveAt(filter.pending, i)]
      /\ channel' = Append(channel, r)
  BY DEF sendResultIfPossible, invalidBlockNumber
<1>2. filter.pending \in Seq(Response) /\ AnswersFit(Len(chain), filter.pending)
  BY AlwaysReader DEF ReaderOK, FilterOK
<1>3. next \subseteq Nat
  BY <1>2
<1>4. i \in next /\ \A j \in next : i <= j
  BY <1>1, <1>3, MinIs
<1>5. i \in DOMAIN filter.pending /\ matchNextBlock(r) /\ i \in Nat
  BY <1>3, <1>4
<1>6. \A j \in DOMAIN filter.pending : filter.pending[j].range.from = filter.last + 1 => i <= j
  BY <1>4 DEF matchNextBlock
<1> HIDE DEF next, i
<1>7. r \in Response
  BY <1>2, <1>5
<1>8. AnswerFits(Len(chain), r)
  BY <1>2, <1>5, <1>7, ResponseIs DEF AnswersFit
<1>9. HighestIn(r) \in Nat /\ HighestIn(r) <= Len(chain) /\ HighestIn(r) <= MaxBlock
  BY <1>7, <1>8, HighestInFits, ChainIs
<1>10. SendFacts(i, r)
  BY <1>1, <1>5, <1>6, <1>7, <1>8, <1>9 DEF SendFacts, matchNextBlock
<1> QED BY <1>10

\* An answer less, wherever it was.
LEMMA RemoveFits ==
  ASSUME NEW t, NEW rs \in Seq(Response), AnswersFit(t, rs), NEW i \in DOMAIN rs
  PROVE  RemoveAt(rs, i) \in Seq(Response) /\ AnswersFit(t, RemoveAt(rs, i))
<1> DEFINE o == RemoveAt(rs, i)
<1>1. /\ o \in Seq(Response) /\ Len(o) = Len(rs) - 1
      /\ \A k \in DOMAIN o : o[k] = IF k < i THEN rs[k] ELSE rs[k + 1]
  BY RemoveAtElements
<1> HIDE DEF o
<1>2. \A k \in DOMAIN o : k \in DOMAIN rs /\ k + 1 \in DOMAIN rs
  BY <1>1
<1>3. AnswersFit(t, o)
  BY <1>1, <1>2 DEF AnswersFit
<1> QED BY <1>1, <1>3 DEF o

LEMMA SendAlways ==
  ASSUME Always, sendResultIfPossible
  PROVE  Always'
<1> DEFINE t == Len(chain)
<1>1. PICK i, r : SendFacts(i, r)
  BY SendIs
<1>2. Len(channel) < ChannelSize /\ UNCHANGED <<others, status, prod, sync, cmds, workers, responses>>
  BY DEF sendResultIfPossible
<1>3. ReaderOK(t)
  BY AlwaysReader
<1>4. FilterOK(t, filter')
  <2>1. /\ filter.last \in 0..MaxBlock /\ filter.pending \in Seq(Response)
        /\ AnswersFit(t, filter.pending) /\ filter.last <= t
    BY <1>3 DEF ReaderOK, FilterOK
  <2>2. RemoveAt(filter.pending, i) \in Seq(Response) /\ AnswersFit(t, RemoveAt(filter.pending, i))
    BY <1>1, <2>1, RemoveFits DEF SendFacts
  <2> DEFINE l == IF HighestIn(r) = 0 THEN filter.last ELSE HighestIn(r)
  <2>3. l \in 0..MaxBlock /\ l <= t
    BY <1>1, <2>1, Constants DEF SendFacts
  <2> HIDE DEF l
  <2>4. filter' = [last |-> l, pending |-> RemoveAt(filter.pending, i)]
    BY <1>1 DEF SendFacts, l
  <2> QED BY <2>2, <2>3, <2>4 DEF FilterOK
<1>5. ChannelOK(t, channel')
  <2>1. channel \in Seq(Msg) /\ AnswersFit(t, channel) /\ r \in Msg /\ AnswerFits(t, r)
    BY <1>1, <1>3 DEF ReaderOK, ChannelOK, SendFacts, Msg
  <2>2. channel' \in Seq(Msg) /\ Len(channel') = Len(channel) + 1 /\ AnswersFit(t, channel')
    BY <1>1, <2>1, AppendElements, AppendFits DEF SendFacts
  <2>3. Len(channel) \in Nat
    BY <2>1
  <2> QED BY <1>2, <2>2, <2>3, Constants DEF ChannelOK
<1>6. ReaderOK(Len(chain))'
  <2>1. chain' = chain
    BY <1>2 DEF others, l1Vars
  <2> QED BY <1>2, <1>3, <1>4, <1>5, <2>1 DEF ReaderOK, At
<1>7. UNCHANGED <<l1Vars, db, consumer, main>> /\ UNCHANGED faults
  BY <1>2 DEF others
<1> QED BY <1>6, <1>7, ReaderStep, FaultsSame

\* A step of the producer that changes no more than syncStatus and its status.
LEMMA ProdStep ==
  ASSUME Always, SyncOK(Len(chain), sync'), StatusOK(status'), ProdOK(prod'),
         prod'.pc = "announce" => IsNodeFullySynchronizedWithL1(sync'),
         UNCHANGED <<others, filter, cmds, workers, responses, channel>>
  PROVE  Always'
<1>1. ReaderOK(Len(chain))
  BY AlwaysReader
<1>2. chain' = chain
  BY DEF others, l1Vars
<1>3. ReaderOK(Len(chain))'
  BY <1>1, <1>2 DEF ReaderOK, At, IsNodeFullySynchronizedWithL1
<1>4. UNCHANGED <<l1Vars, db, consumer, main>> /\ UNCHANGED faults
  BY DEF others
<1> QED BY <1>3, <1>4, ReaderStep, FaultsSame

LEMMA RenewedOK ==
  ASSUME Always, renewLastBlockOnL1IfNeeded
  PROVE  /\ SyncOK(Len(chain), sync')
         /\ sync'.stored = sync.stored /\ sync'.requested = sync.requested
         /\ sync'.processing = sync.processing /\ sync'.errors = sync.errors
<1>1. SyncOK(Len(chain), sync) /\ Len(chain) \in Nat /\ Len(chain) <= MaxBlock
  BY AlwaysReader, ChainIs DEF ReaderOK
<1>2. CASE sync' = sync
  BY <1>1, <1>2
<1>3. CASE sync' = OnNewLastBlockOnL1(sync, Len(chain))
  BY <1>1, <1>3, RenewOK
<1> QED BY <1>2, <1>3 DEF renewLastBlockOnL1IfNeeded

LEMMA SwitchAlways ==
  ASSUME Always, Switch
  PROVE  Always'
<1>1. UNCHANGED <<others, status, filter, cmds, workers, responses, channel>>
  BY DEF Switch
<1>2. ReaderOK(Len(chain))
  BY AlwaysReader
<1>3. StatusOK(status')
  BY <1>1, <1>2 DEF ReaderOK
<1>4. SyncOK(Len(chain), sync')
  BY <1>2, RenewedOK DEF Switch, ReaderOK
<1>5. ProdOK(prod') /\ prod'.pc # "announce"
  <2>1. \/ Goto("idle") \/ Goto("select") \/ LaunchIn(1) \/ LaunchIn(3)
    BY DEF Switch
  <2> QED BY <2>1, GotoIs, LaunchInIs
<1> QED BY <1>1, <1>3, <1>4, <1>5, ProdStep

LEMMA StepIdleAlways ==
  ASSUME Always, StepIdle
  PROVE  Always'
<1>1. UNCHANGED <<others, filter, cmds, workers, responses, channel>>
  BY DEF StepIdle
<1>2. StatusOK(status')
  <2>1. StatusOK(status)
    BY AlwaysReader DEF ReaderOK
  <2>2. status' = "working" \/ status' = status
    BY DEF StepIdle
  <2> QED BY <2>1, <2>2 DEF StatusOK
<1>3. SyncOK(Len(chain), sync')
  BY RenewedOK DEF StepIdle
<1>4. ProdOK(prod') /\ prod'.pc # "announce"
  BY GotoIs DEF StepIdle
<1> QED BY <1>1, <1>2, <1>3, <1>4, ProdStep

LEMMA LaunchedAllAlways ==
  ASSUME Always, LaunchedAll
  PROVE  Always'
<1>1. UNCHANGED <<others, filter, cmds, workers, responses, channel>>
  BY DEF LaunchedAll
<1>2. StatusOK(status')
  <2>1. StatusOK(status)
    BY AlwaysReader DEF ReaderOK
  <2>2. status' = "working" \/ status' = status
    BY DEF LaunchedAll
  <2> QED BY <2>1, <2>2 DEF StatusOK
<1>3. SyncOK(Len(chain), sync')
  <2>1. SyncOK(Len(chain), sync) /\ sync' = Discard(sync)
    BY AlwaysReader DEF LaunchedAll, ReaderOK
  <2> QED BY <2>1, DiscardOK
<1>4. ProdOK(prod') /\ prod'.pc # "announce"
  BY GotoIs DEF LaunchedAll
<1> QED BY <1>1, <1>2, <1>3, <1>4, ProdStep

\* What StepWorking leaves in syncStatus.
LEMMA StepWorkingSync ==
  ASSUME Always, StepWorking
  PROVE  /\ SyncOK(Len(chain), sync')
         /\ sync'.stored = sync.stored /\ sync'.requested = sync.requested
         /\ sync'.processing = sync.processing
         /\ sync.errors = <<>> => sync'.errors = <<>>
<1> DEFINE d == Discard(sync)
<1>1. SyncOK(Len(chain), sync) /\ Len(chain) \in Nat /\ Len(chain) <= MaxBlock /\ sync \in SyncStatus
  BY AlwaysReader, ChainIs DEF ReaderOK, SyncOK
<1>2. SyncOK(Len(chain), d)
  BY <1>1, DiscardOK
<1>3. /\ d.stored = sync.stored /\ d.requested = sync.requested
      /\ d.processing = sync.processing
      /\ sync.errors = <<>> => d = sync
  BY <1>1, DiscardIs
<1>4. sync' = d \/ sync' = OnNewLastBlockOnL1(d, Len(chain))
  BY DEF StepWorking
<1> HIDE DEF d
<1>5. CASE sync' = d
  BY <1>2, <1>3, <1>5
<1>6. CASE sync' = OnNewLastBlockOnL1(d, Len(chain))
  BY <1>1, <1>2, <1>3, <1>6, RenewOK
<1> QED BY <1>4, <1>5, <1>6

LEMMA StepWorkingAlways ==
  ASSUME Always, StepWorking
  PROVE  Always'
<1>1. UNCHANGED <<others, filter, cmds, workers, responses, channel>>
  BY DEF StepWorking
<1>2. SyncOK(Len(chain), sync')
  BY StepWorkingSync
<1>3. CASE IsNodeFullySynchronizedWithL1(sync')
  <2>1. status' = "synchronized" /\ (Goto("select") \/ Goto("announce"))
    BY <1>3 DEF StepWorking
  <2>2. ProdOK(prod')
    BY <2>1, GotoIs
  <2> QED BY <1>1, <1>2, <1>3, <2>1, <2>2, ProdStep DEF StatusOK
<1>4. CASE ~IsNodeFullySynchronizedWithL1(sync')
  <2>1. status' = status /\ LaunchIn(2)
    BY <1>4 DEF StepWorking
  <2>2. ProdOK(prod') /\ prod'.pc = "launch"
    BY <2>1, LaunchInIs
  <2>3. StatusOK(status')
    BY <2>1, AlwaysReader DEF ReaderOK
  <2> QED BY <1>1, <1>2, <2>2, <2>3, ProdStep
<1> QED BY <1>3, <1>4

\* The worker that gets a range is an idle one.
LaunchFacts(w, r, u) ==
  /\ w \in 1..NumWorkers /\ workers[w] = NoRequest
  /\ u \in BOOLEAN /\ r \in RangeType /\ Fits(Len(chain), r)
  /\ workers' = [workers EXCEPT ![w] = [range |-> r, unsafe |-> u]]
  /\ SyncOK(Len(chain), sync')
  /\ StartedFacts(sync, Discard(sync), sync', r)

LEMMA LaunchIs ==
  ASSUME Always, launchWork
  PROVE  \E w, r, u : LaunchFacts(w, r, u)
<1> DEFINE r == GetNextRange(sync, prod.allowNew)
           w == Min(IdleWorkers)
           u == BlockNumberIsInsideUnsafeArea(sync, r.from)
<1>1. /\ r # NoRange /\ IdleWorkers # {}
      /\ workers' = [workers EXCEPT ![w] = [range |-> r, unsafe |-> u]]
      /\ sync' = OnStartedNewWorker(Discard(sync), r)
  BY DEF launchWork
<1>2. w \in IdleWorkers
  <2>1. IdleWorkers \subseteq Nat
    BY Constants DEF IdleWorkers
  <2> QED BY <1>1, <2>1, MinIs
<1>3. w \in 1..NumWorkers /\ workers[w] = NoRequest
  BY <1>2 DEF IdleWorkers
<1>4. u \in BOOLEAN
  BY DEF BlockNumberIsInsideUnsafeArea
<1>5. prod.allowNew \in BOOLEAN /\ SyncOK(Len(chain), sync)
  BY AlwaysReader DEF ReaderOK, ProdOK
<1>6. Len(chain) \in Nat /\ Len(chain) <= MaxBlock
  BY ChainIs
<1>7. /\ SyncOK(Len(chain), sync') /\ StartedFacts(sync, Discard(sync), sync', r)
      /\ Fits(Len(chain), r)
  BY <1>1, <1>5, <1>6, StartedOK
<1>8. r \in RangeType
  BY <1>7 DEF StartedFacts
<1> HIDE DEF r, w, u
<1>9. LaunchFacts(w, r, u)
  BY <1>1, <1>3, <1>4, <1>7, <1>8 DEF LaunchFacts
<1> QED BY <1>9

LEMMA LaunchAlways ==
  ASSUME Always, launchWork
  PROVE  Always'
<1> DEFINE t == Len(chain)
<1>1. PICK w, r, u : LaunchFacts(w, r, u)
  BY LaunchIs
<1>2. /\ At("launch") /\ prod' = [prod EXCEPT !.launched = TRUE]
      /\ UNCHANGED <<others, status, filter, cmds, responses, channel>>
  BY DEF launchWork
<1>3. ReaderOK(t)
  BY AlwaysReader
<1>4. WorkersOK(t, workers')
  <2>1. [range |-> r, unsafe |-> u] \in Request
    BY <1>1 DEF LaunchFacts, Request
  <2> QED BY <1>1, <1>3, <2>1 DEF LaunchFacts, ReaderOK, WorkersOK, WorkersFit
<1>5. ProdOK(prod') /\ prod'.pc = "launch"
  BY <1>2, <1>3 DEF ReaderOK, ProdOK, At
<1>6. SyncOK(t, sync')
  BY <1>1 DEF LaunchFacts
<1>7. ReaderOK(Len(chain))'
  <2>1. chain' = chain
    BY <1>2 DEF others, l1Vars
  <2> QED BY <1>2, <1>3, <1>4, <1>5, <1>6, <2>1 DEF ReaderOK, At
<1>8. UNCHANGED <<l1Vars, db, consumer, main>> /\ UNCHANGED faults
  BY <1>2 DEF others
<1> QED BY <1>7, <1>8, ReaderStep, FaultsSame

LEMMA AnnounceAlways ==
  ASSUME Always, Announce
  PROVE  Always'
<1> DEFINE t == Len(chain)
           m == FullySynced(sync.lastBlockOnL1)
<1>1. /\ At("announce") /\ Len(channel) < ChannelSize /\ channel' = Append(channel, m)
      /\ Goto("select") /\ UNCHANGED <<others, status, sync, filter, cmds, workers, responses>>
  BY DEF Announce
<1>2. ReaderOK(t)
  BY AlwaysReader
<1>3. m \in Msg /\ IsControl(m)
  <2>1. sync.lastBlockOnL1 # 0 /\ sync.lastBlockOnL1 \in 0..MaxBlock
    BY <1>1, <1>2, SyncRecord DEF ReaderOK, SyncOK, IsNodeFullySynchronizedWithL1, invalidBlockNumber
  <2>2. sync.lastBlockOnL1 \in 1..MaxBlock
    BY <2>1, Constants
  <2> QED BY <2>2 DEF Msg, FullySynced, IsControl
<1> HIDE DEF m
<1>4. ChannelOK(t, channel')
  <2>1. channel \in Seq(Msg) /\ AnswersFit(t, channel)
    BY <1>2 DEF ReaderOK, ChannelOK
  <2>2. channel' \in Seq(Msg) /\ Len(channel') = Len(channel) + 1 /\ AnswersFit(t, channel')
    BY <1>1, <1>3, <2>1, AppendElements, AppendFits
  <2>3. Len(channel) \in Nat
    BY <2>1
  <2> QED BY <1>1, <2>2, <2>3, Constants DEF ChannelOK
<1>5. ProdOK(prod') /\ prod'.pc = "select"
  BY <1>1, GotoIs
<1>6. ReaderOK(Len(chain))'
  <2>1. chain' = chain
    BY <1>1 DEF others, l1Vars
  <2> QED BY <1>1, <1>2, <1>4, <1>5, <2>1 DEF ReaderOK, At
<1>7. UNCHANGED <<l1Vars, db, consumer, main>> /\ UNCHANGED faults
  BY <1>1 DEF others
<1> QED BY <1>6, <1>7, ReaderStep, FaultsSame

LEMMA ProducerAlways == Always /\ Producer => Always'
BY ResetUnsafeAlways, OnResponseAlways, OnResponseErrorAlways, OnResponseIgnoredAlways,
   SendAlways, SwitchAlways, StepIdleAlways, StepWorkingAlways, LaunchAlways,
   LaunchedAllAlways, AnnounceAlways DEF Producer

-----------------------------------------------------------------------------
(* Always: the consumer, the main loop, the start and a crash              *)

ConsumerType ==
  [pc : {"run", "ended", "failed"}, processed : 0..MaxBlock,
   synced : Block \cup {NoBlock}, received : Block \cup {NoBlock}]
MainType == [pc : {"check", "reset", "queue", "wait"}, last : Block, to : 0..MaxBlock]
FaultsType == [left : 0..MaxFaults, seen : SUBSET Kinds]

RestOK ==
  /\ StatusOK(status) /\ CmdsOK(Len(chain), cmds) /\ ChannelOK(Len(chain), channel)
  /\ db \in SUBSET Block /\ (\A b \in db : b.n <= Len(chain)) /\ chain[GenesisBlockNum] \in db
  /\ consumer \in ConsumerType /\ consumer.processed <= Len(chain)
  /\ main \in MainType /\ main.to <= Len(chain) /\ main.last \in db
  /\ main.pc = "wait" => consumer.synced \in db
  /\ consumer.pc = "run" => main.pc = "wait"
  /\ main.pc \in {"reset", "queue"} => main.to >= 1

L1OK ==
  /\ chain \in Seq(Block) /\ pattern \in Patterns /\ fork \in 0..MaxFaults /\ Numbered(chain)
  /\ faults \in FaultsType /\ fork <= MaxFaults - faults.left

LEMMA AlwaysParts == Always => L1OK /\ ReaderOK(Len(chain)) /\ RestOK
<1> SUFFICES ASSUME Always PROVE L1OK /\ ReaderOK(Len(chain)) /\ RestOK
  OBVIOUS
<1>1. L1OK
  BY DEF Always, TypeOK, ControlOK, L1OK, FaultsType
<1>2. ReaderOK(Len(chain))
  BY AlwaysReader
<1>3. RestOK
  BY <1>2 DEF Always, TypeOK, ReaderFits, TableOK, ControlOK, ReaderOK, RestOK, ConsumerType, MainType
<1> QED BY <1>1, <1>2, <1>3

LEMMA AlwaysFromParts == L1OK /\ ReaderOK(Len(chain)) /\ RestOK => Always
<1> SUFFICES ASSUME L1OK, ReaderOK(Len(chain)), RestOK PROVE Always
  OBVIOUS
<1>1. TypeOK
  BY DEF L1OK, RestOK, ReaderOK, TypeOK, SyncOK, FilterOK, ChannelOK, CmdsOK, WorkersOK,
         ResponsesOK, StatusOK, ProdOK, Msg, ConsumerType, MainType, FaultsType
<1>2. ReaderFits /\ Disjoint(sync)
  BY DEF RestOK, ReaderOK, ReaderFits, SyncOK, FilterOK, ChannelOK, CmdsOK, WorkersOK, ResponsesOK
<1>3. Numbered(chain) /\ TableOK /\ ControlOK
  BY DEF L1OK, RestOK, ReaderOK, TableOK, ControlOK
<1> QED BY <1>1, <1>2, <1>3 DEF Always

\* A step that leaves L1 and the producer's own state alone.
LEMMA RestStep ==
  ASSUME Always, RestOK', faults' \in FaultsType, faults'.left <= faults.left,
         UNCHANGED <<l1Vars, prod, sync, filter, workers, responses>>
  PROVE  Always'
<1>1. L1OK /\ ReaderOK(Len(chain))
  BY AlwaysParts
<1>2. UNCHANGED <<chain, pattern, fork>>
  BY DEF l1Vars
<1>3. L1OK'
  <2>1. fork \in Nat /\ faults.left \in Nat /\ faults'.left \in Nat /\ fork <= MaxFaults - faults.left
    BY <1>1 DEF L1OK, FaultsType
  <2>2. fork' <= MaxFaults - faults'.left
    BY <1>2, <2>1, Constants
  <2> QED BY <1>1, <1>2, <2>2 DEF L1OK
<1>4. ReaderOK(Len(chain))'
  BY <1>1, <1>2 DEF ReaderOK, RestOK, At
<1>5. RestOK'
  OBVIOUS
<1> QED BY <1>3, <1>4, <1>5, AlwaysFromParts, PTL

\* The last block of the table.
LEMMA LastIs ==
  ASSUME Always
  PROVE  /\ GetLastBlock \in db /\ GetLastBlock \in Block
         /\ \A b \in db : b \in Block /\ b.n \in Nat /\ b.n <= GetLastBlock.n
         /\ GetLastBlock.n \in 1..MaxBlock /\ GetLastBlock.n <= Len(chain)
         /\ GenesisBlockNum <= GetLastBlock.n
<1>1. db \subseteq Block /\ chain[GenesisBlockNum] \in db /\ \A b \in db : b.n <= Len(chain)
  BY AlwaysParts DEF RestOK
<1>2. /\ GetLastBlock \in db /\ GetLastBlock \in Block
      /\ \A b \in db : b.n <= GetLastBlock.n
  BY <1>1, HighestIs DEF GetLastBlock
<1>3. chain[GenesisBlockNum].n = GenesisBlockNum
  BY ChainIs, Constants
<1>4. GetLastBlock.n \in 1..MaxBlock
  BY <1>2 DEF Block
<1>5. \A b \in db : b \in Block /\ b.n \in Nat
  BY <1>1, BlockIs
<1> QED BY <1>1, <1>2, <1>3, <1>4, <1>5

\* The first message of the channel.
HeadFacts ==
  /\ consumer.pc = "run" /\ main.pc = "wait" /\ channel # <<>>
  /\ Head(channel) = channel[1] /\ 1 \in DOMAIN channel
  /\ Head(channel) \in Msg /\ ChannelOK(Len(chain), Tail(channel))
  /\ \A i \in DOMAIN Tail(channel) : i + 1 \in DOMAIN channel /\ Tail(channel)[i] = channel[i + 1]
  /\ ~IsControl(Head(channel)) =>
       Head(channel) \in Response /\ AnswerFits(Len(chain), Head(channel))

LEMMA HeadIs ==
  ASSUME Always, NEW isData, Incoming(isData)
  PROVE  HeadFacts /\ isData = ~IsControl(Head(channel))
<1>1. consumer.pc = "run" /\ channel # <<>> /\ isData = ~IsControl(Head(channel))
  BY DEF Incoming
<1>2. RestOK
  BY AlwaysParts
<1>3. main.pc = "wait" /\ channel \in Seq(Msg) /\ Len(channel) <= ChannelSize /\ AnswersFit(Len(chain), channel)
  BY <1>1, <1>2 DEF RestOK, ChannelOK
<1>4. /\ Head(channel) \in Msg /\ Head(channel) = channel[1] /\ 1 \in DOMAIN channel
      /\ Tail(channel) \in Seq(Msg) /\ Len(Tail(channel)) = Len(channel) - 1
      /\ \A i \in DOMAIN Tail(channel) : i + 1 \in DOMAIN channel /\ Tail(channel)[i] = channel[i + 1]
  BY <1>1, <1>3, TailElements
<1>5. Len(Tail(channel)) <= ChannelSize
  <2>1. Len(channel) \in Nat
    BY <1>3
  <2> QED BY <1>3, <1>4, <2>1, Constants
<1>6. AnswersFit(Len(chain), Tail(channel)) /\ (~IsControl(Head(channel)) => AnswerFits(Len(chain), Head(channel)))
  BY <1>1, <1>3, TailFits
<1>7. ~IsControl(Head(channel)) => Head(channel) \in Response
  BY <1>4 DEF Msg, FullySynced, IsControl
<1> QED BY <1>1, <1>3, <1>4, <1>5, <1>6, <1>7 DEF HeadFacts, ChannelOK

\* A step of the consumer.
LEMMA ConsumerStep ==
  ASSUME Always, HeadFacts, NEW c \in ConsumerType, c.processed <= Len(chain), Take(c),
         c.synced \in db', db' \in SUBSET Block, db \subseteq db',
         \A b \in db' : b.n <= Len(chain),
         faults' \in FaultsType, faults'.left <= faults.left, UNCHANGED consumerOnly
  PROVE  Always'
<1>1. consumer' = c /\ channel' = Tail(channel)
  BY DEF Take
<1>2. UNCHANGED <<l1Vars, prod, sync, filter, workers, responses>> /\ UNCHANGED <<chain, status, cmds, main>>
  BY DEF consumerOnly, prodVars, l1Vars
<1>3. RestOK /\ ChannelOK(Len(chain), Tail(channel)) /\ main.pc = "wait"
  BY AlwaysParts DEF HeadFacts
<1>4. RestOK'
  BY <1>1, <1>2, <1>3 DEF RestOK
<1> QED BY <1>2, <1>4, RestStep

LEMMA ConsumerIs ==
  ASSUME Always
  PROVE  /\ consumer.pc \in {"run", "ended", "failed"} /\ consumer.processed \in 0..MaxBlock
         /\ consumer.processed \in Nat /\ consumer.processed <= Len(chain)
         /\ consumer.synced \in Block \cup {NoBlock} /\ consumer.received \in Block \cup {NoBlock}
         /\ consumer = [pc |-> consumer.pc, processed |-> consumer.processed,
                        synced |-> consumer.synced, received |-> consumer.received]
         /\ main.pc = "wait" => consumer.synced \in db
         /\ db \in SUBSET Block /\ \A b \in db : b.n <= Len(chain)
<1>1. RestOK
  BY AlwaysParts
<1>2. consumer.processed \in Nat
  BY <1>1, Constants DEF RestOK, ConsumerType
<1> QED BY <1>1, <1>2 DEF RestOK, ConsumerType

LEMMA ControlAlways ==
  ASSUME Always, processIncommingRollupControlData
  PROVE  Always'
<1> DEFINE p == IF Tail(channel) = <<>> THEN "ended" ELSE consumer.pc
           c == [consumer EXCEPT !.pc = p]
<1>1. HeadFacts
  BY HeadIs DEF processIncommingRollupControlData
<1>2. Take(c) /\ UNCHANGED <<consumerOnly, db, faults>>
  BY DEF processIncommingRollupControlData
<1>3. p \in {"run", "ended", "failed"}
  BY ConsumerIs
<1> HIDE DEF p
<1>4. c = [pc |-> p, processed |-> consumer.processed,
           synced |-> consumer.synced, received |-> consumer.received]
  BY ConsumerIs
<1> HIDE DEF c
<1>5. c \in ConsumerType /\ c.processed <= Len(chain) /\ c.synced \in db
  BY <1>1, <1>3, <1>4, ConsumerIs DEF ConsumerType, HeadFacts
<1>6. faults' \in FaultsType /\ faults'.left <= faults.left
  BY <1>2, FaultsSame DEF FaultsType
<1> QED BY <1>1, <1>2, <1>5, <1>6, ConsumerIs, ConsumerStep

LEMMA IgnoreRangeAlways ==
  ASSUME Always, IgnoreRange
  PROVE  Always'
<1>1. HeadFacts
  BY HeadIs DEF IgnoreRange
<1>2. Take(consumer) /\ UNCHANGED <<consumerOnly, db, faults>>
  BY DEF IgnoreRange
<1>3. consumer \in ConsumerType /\ consumer.processed <= Len(chain) /\ consumer.synced \in db
  BY <1>1, AlwaysParts DEF RestOK, HeadFacts
<1>4. faults' \in FaultsType /\ faults'.left <= faults.left
  BY <1>2, FaultsSame DEF FaultsType
<1> QED BY <1>1, <1>2, <1>3, <1>4, ConsumerIs, ConsumerStep

LEMMA FindReorgAlways ==
  ASSUME Always, FindReorg
  PROVE  Always'
<1> DEFINE h == HighestIn(Head(channel))
           c == [consumer EXCEPT !.processed = h, !.pc = "failed"]
<1>1. HeadFacts /\ ~IsControl(Head(channel))
  BY HeadIs DEF FindReorg
<1>2. Take(c) /\ UNCHANGED <<consumerOnly, db, faults>>
  BY DEF FindReorg
<1>3. h \in 0..MaxBlock /\ h <= Len(chain)
  BY <1>1, HighestInFits, ChainIs, Constants DEF HeadFacts
<1> HIDE DEF h
<1>4. consumer \in ConsumerType /\ consumer.synced \in db
  BY <1>1, AlwaysParts DEF RestOK, HeadFacts
<1>5. c \in ConsumerType /\ c.processed <= Len(chain) /\ c.synced \in db
  BY <1>3, <1>4 DEF ConsumerType
<1> HIDE DEF c
<1>6. faults' \in FaultsType /\ faults'.left <= faults.left
  BY <1>2, FaultsSame DEF FaultsType
<1> QED BY <1>1, <1>2, <1>5, <1>6, ConsumerIs, ConsumerStep

\* The blocks an answer makes the consumer store.
LEMMA BlocksToStoreIs ==
  ASSUME NEW r \in Response, NEW t, AnswerFits(t, r)
  PROVE  /\ BlocksToStore(r) \subseteq Block /\ \A b \in BlocksToStore(r) : b.n <= t
         /\ HighestBlockReceived(r) \in Block \cup {NoBlock}
<1>1. /\ r.blocks \subseteq Block /\ r.last \in Block \cup {NoBlock}
      /\ (\A b \in r.blocks : b.n <= t) /\ (r.last # NoBlock => r.last.n <= t)
  BY ResponseIs DEF AnswerFits
<1>2. r.blocks # {} => Highest(r.blocks) \in Block
  BY <1>1, HighestIs
<1> QED BY <1>1, <1>2 DEF BlocksToStore, HighestBlockReceived

LEMMA ProcessAlways ==
  ASSUME Always, NEW blocks, blocks \subseteq BlocksToStore(Head(channel)),
         NEW pc \in {"run", "failed"}, processBlockRange(Head(channel), blocks, pc),
         faults' \in FaultsType, faults'.left <= faults.left
  PROVE  Always'
<1> DEFINE r == Head(channel)
           h == HighestIn(r)
           b == HighestBlockReceived(r)
           s == IF pc = "run" /\ blocks # {} THEN Highest(blocks) ELSE consumer.synced
           c == [pc |-> pc, processed |-> h, received |-> b, synced |-> s]
<1>1. HeadFacts /\ ~IsControl(r)
  BY HeadIs DEF processBlockRange
<1>2. db' = db \cup blocks /\ Take(c) /\ UNCHANGED consumerOnly
  BY DEF processBlockRange
<1>3. r \in Response /\ AnswerFits(Len(chain), r) /\ main.pc = "wait"
  BY <1>1 DEF HeadFacts
<1>4. h \in 0..MaxBlock /\ h <= Len(chain)
  BY <1>3, HighestInFits, ChainIs, Constants
<1>5. /\ blocks \subseteq Block /\ (\A x \in blocks : x.n <= Len(chain))
      /\ b \in Block \cup {NoBlock}
  BY <1>3, BlocksToStoreIs
<1>6. s \in db' /\ s \in Block
  <2>1. consumer.synced \in db /\ db \subseteq Block
    BY <1>3, ConsumerIs
  <2>2. blocks # {} => Highest(blocks) \in blocks
    BY <1>5, HighestIs
  <2> QED BY <1>2, <1>5, <2>1, <2>2
<1> HIDE DEF r, h, b, s
<1>7. c \in ConsumerType /\ c.processed <= Len(chain) /\ c.synced \in db'
  BY <1>4, <1>5, <1>6 DEF ConsumerType
<1>8. db' \in SUBSET Block /\ db \subseteq db' /\ \A x \in db' : x.n <= Len(chain)
  BY <1>2, <1>5, ConsumerIs
<1> HIDE DEF c
<1> QED BY <1>1, <1>2, <1>7, <1>8, ConsumerStep

LEMMA ProcessInfoAlways ==
  ASSUME Always, processIncommingRollupInfoData
  PROVE  Always'
<1>1. processBlockRange(Head(channel), BlocksToStore(Head(channel)), "run") /\ UNCHANGED faults
  BY DEF processIncommingRollupInfoData
<1>2. faults' \in FaultsType /\ faults'.left <= faults.left
  BY <1>1, FaultsSame DEF FaultsType
<1> QED BY <1>1, <1>2, ProcessAlways

LEMMA ProcessingFailsAlways ==
  ASSUME Always, ProcessingFails
  PROVE  Always'
<1> DEFINE blocks == BlocksToStore(Head(channel))
<1>1. PICK b \in blocks :
        /\ processBlockRange(Head(channel), {c \in blocks : c.n < b.n}, "failed")
        /\ Fault("process") \/ UNCHANGED faults
  BY DEF ProcessingFails
<1>2. faults' \in FaultsType /\ faults'.left <= faults.left
  BY <1>1, FaultsSame, FaultTypes DEF FaultsType
<1>3. {c \in blocks : c.n < b.n} \subseteq blocks
  OBVIOUS
<1> HIDE DEF blocks
<1> QED BY <1>1, <1>2, <1>3, ProcessAlways DEF blocks

LEMMA ConsumerAlways == Always /\ Consumer => Always'
BY ControlAlways, IgnoreRangeAlways, FindReorgAlways, ProcessInfoAlways, ProcessingFailsAlways
   DEF Consumer

-----------------------------------------------------------------------------
LEMMA MainIs ==
  ASSUME Always
  PROVE  /\ main \in MainType /\ consumer \in ConsumerType /\ RestOK
         /\ main.last \in db /\ main.last \in Block /\ main.last.n \in 1..MaxBlock
         /\ main.last.n <= Len(chain) /\ main.to \in 0..MaxBlock /\ main.to <= Len(chain)
<1>1. RestOK
  BY AlwaysParts
<1>2. main.last \in Block
  BY <1>1 DEF RestOK, MainType
<1>3. main.last.n \in 1..MaxBlock
  BY <1>2 DEF Block
<1> QED BY <1>1, <1>2, <1>3 DEF RestOK, MainType

LEMMA StartAlways ==
  ASSUME Always, Start
  PROVE  Always'
<1> DEFINE p == IF consumer.processed = 0 THEN main.last.n ELSE consumer.processed
<1>1. /\ consumer' = [consumer EXCEPT !.pc = "run", !.synced = main.last, !.processed = p]
      /\ main' = [main EXCEPT !.pc = "wait"]
      /\ UNCHANGED <<mainOnly, db, status, cmds, channel, faults>>
  BY DEF Start, invalidBlockNumber
<1>2. p \in 0..MaxBlock /\ p <= Len(chain)
  BY MainIs, ConsumerIs, Constants
<1> HIDE DEF p
<1>3. UNCHANGED <<l1Vars, prod, sync, filter, workers, responses>> /\ UNCHANGED chain
  BY <1>1 DEF mainOnly, l1Vars
<1>4. /\ consumer' \in ConsumerType /\ consumer'.processed = p /\ consumer'.synced = main.last
      /\ main' \in MainType /\ main'.pc = "wait" /\ main'.last = main.last /\ main'.to = main.to
  BY <1>1, <1>2, MainIs DEF ConsumerType, MainType
<1>5. RestOK'
  BY <1>1, <1>2, <1>3, <1>4, MainIs DEF RestOK
<1>6. faults' \in FaultsType /\ faults'.left <= faults.left
  BY <1>1, FaultsSame DEF FaultsType
<1> QED BY <1>3, <1>5, <1>6, RestStep

\* A reorganisation leaves Genesis to go back to.
LEMMA AgreedIs ==
  ASSUME Always, ~OnChain(main.last)
  PROVE  /\ Agreed \in db /\ Agreed \in Block /\ OnChain(Agreed) /\ Agreed.n < GetLastBlock.n
         /\ Agreed.n \in 1..MaxBlock /\ Agreed.n <= Len(chain) /\ GenesisBlockNum <= Agreed.n
<1> DEFINE S == {b \in db : b.n < GetLastBlock.n /\ OnChain(b)}
           g == chain[GenesisBlockNum]
<1>1. main.last \in db /\ main.last.n \in Nat /\ ~(main.last.n <= GenesisBlockNum)
  BY MainIs DEF OnChain
<1>2. g \in db /\ g.n = GenesisBlockNum
  BY AlwaysParts, ChainIs, Constants DEF RestOK
<1>3. GenesisBlockNum < GetLastBlock.n
  BY <1>1, LastIs, Constants
<1>4. OnChain(g)
  BY <1>2 DEF OnChain
<1>5. g \in S
  BY <1>2, <1>3, <1>4
<1>6. S \subseteq Block
  BY LastIs
<1>7. Agreed \in S /\ Agreed \in Block /\ \A c \in S : c.n <= Agreed.n
  BY <1>5, <1>6, HighestIs DEF Agreed
<1>8. GenesisBlockNum <= Agreed.n
  BY <1>2, <1>5, <1>7
<1>9. Agreed.n \in 1..MaxBlock
  BY <1>7 DEF Block
<1>10. Agreed.n <= Len(chain)
  BY <1>7, AlwaysParts DEF RestOK
<1> QED BY <1>7, <1>8, <1>9, <1>10

LEMMA ResetStateAlways ==
  ASSUME Always, resetState
  PROVE  Always'
<1>1. /\ main.pc = "check" /\ ~OnChain(main.last)
      /\ db' = {b \in db : b.n <= Agreed.n}
      /\ main' = [pc |-> "reset", last |-> Agreed, to |-> Agreed.n]
      /\ UNCHANGED <<mainOnly, status, cmds, channel, consumer, faults>>
  BY DEF resetState
<1>2. /\ Agreed \in db /\ Agreed \in Block /\ Agreed.n \in 1..MaxBlock
      /\ Agreed.n <= Len(chain) /\ GenesisBlockNum <= Agreed.n
  BY <1>1, AgreedIs
<1>3. UNCHANGED <<l1Vars, prod, sync, filter, workers, responses>> /\ UNCHANGED chain
  BY <1>1 DEF mainOnly, l1Vars
<1>4. RestOK
  BY MainIs
<1>5. chain[GenesisBlockNum].n = GenesisBlockNum
  BY ChainIs, Constants
<1>6. Agreed.n \in 0..MaxBlock /\ Agreed.n >= 1
  BY <1>2, Constants
<1>7. main' \in MainType /\ main'.pc = "reset" /\ main'.last = Agreed /\ main'.to = Agreed.n
  BY <1>1, <1>2, <1>6 DEF MainType
<1>8. /\ db' \subseteq db /\ Agreed \in db' /\ chain[GenesisBlockNum] \in db'
  <2>1. Agreed.n <= Agreed.n
    BY <1>2
  <2> QED BY <1>1, <1>2, <1>4, <1>5, <2>1 DEF RestOK
<1>9. consumer.pc # "run"
  BY <1>1, <1>4 DEF RestOK
<1>10. RestOK'
  BY <1>1, <1>2, <1>3, <1>4, <1>6, <1>7, <1>8, <1>9 DEF RestOK
<1>11. faults' \in FaultsType /\ faults'.left <= faults.left
  BY <1>1, FaultsSame DEF FaultsType
<1> QED BY <1>3, <1>10, <1>11, RestStep

LEMMA ResumeAlways ==
  ASSUME Always, Resume, main.pc = "check" \/ consumer.pc = "failed",
         UNCHANGED <<mainOnly, db, status, cmds, channel, consumer>>,
         faults' \in FaultsType, faults'.left <= faults.left
  PROVE  Always'
<1>1. main' = [pc |-> "reset", last |-> GetLastBlock, to |-> GetLastBlock.n]
  BY DEF Resume
<1>2. UNCHANGED <<l1Vars, prod, sync, filter, workers, responses>> /\ UNCHANGED chain
  BY DEF mainOnly, l1Vars
<1>3. /\ GetLastBlock \in db /\ GetLastBlock \in Block /\ GetLastBlock.n \in 1..MaxBlock
      /\ GetLastBlock.n <= Len(chain)
  BY LastIs
<1>4. GetLastBlock.n \in 0..MaxBlock /\ GetLastBlock.n >= 1
  BY <1>3, Constants
<1>5. /\ main' \in MainType /\ main'.pc = "reset" /\ main'.last = GetLastBlock
      /\ main'.to = GetLastBlock.n
  BY <1>1, <1>3, <1>4 DEF MainType
<1>6. consumer.pc # "run"
  BY MainIs DEF RestOK
<1>7. RestOK'
  BY <1>2, <1>3, <1>4, <1>5, <1>6, MainIs DEF RestOK
<1> QED BY <1>2, <1>7, RestStep

LEMMA CheckReorgErrorAlways ==
  ASSUME Always, checkReorgError
  PROVE  Always'
<1>1. faults' \in FaultsType /\ faults'.left <= faults.left
  BY FaultTypes DEF checkReorgError, FaultsType
<1> QED BY <1>1, ResumeAlways DEF checkReorgError

LEMMA ResetAlways ==
  ASSUME Always, reset
  PROVE  Always'
<1>1. /\ main.pc = "reset"
      /\ consumer' = [consumer EXCEPT !.processed = main.to, !.synced = NoBlock]
      /\ status' = "reseting" /\ channel' = <<>> /\ main' = [main EXCEPT !.pc = "queue"]
      /\ UNCHANGED <<mainOnly, db, cmds, faults>>
  BY DEF reset
<1>2. UNCHANGED <<l1Vars, prod, sync, filter, workers, responses>> /\ UNCHANGED chain
  BY <1>1 DEF mainOnly, l1Vars
<1>3. /\ consumer' \in ConsumerType /\ consumer'.processed = main.to /\ consumer'.pc = consumer.pc
      /\ main' \in MainType /\ main'.pc = "queue" /\ main'.last = main.last /\ main'.to = main.to
  BY <1>1, MainIs DEF ConsumerType, MainType
<1>4. consumer.pc # "run"
  BY <1>1, MainIs DEF RestOK
<1>5. ChannelOK(Len(chain), channel')
  BY <1>1, EmptyFits, Constants DEF ChannelOK
<1>6. main'.to <= Len(chain) /\ main'.to >= 1 /\ main'.last \in db
  BY <1>1, <1>3, MainIs DEF RestOK
<1>7. RestOK'
  BY <1>1, <1>2, <1>3, <1>4, <1>5, <1>6, MainIs DEF RestOK, StatusOK
<1>8. faults' \in FaultsType /\ faults'.left <= faults.left
  BY <1>1, FaultsSame DEF FaultsType
<1> QED BY <1>2, <1>7, <1>8, RestStep

LEMMA QueueResetAlways ==
  ASSUME Always, QueueReset
  PROVE  Always'
<1>1. /\ main.pc = "queue" /\ Len(cmds) < CmdsSize /\ cmds' = Append(cmds, main.to)
      /\ main' = [main EXCEPT !.pc = "check"]
      /\ UNCHANGED <<mainOnly, db, status, channel, consumer, faults>>
  BY DEF QueueReset
<1>2. UNCHANGED <<l1Vars, prod, sync, filter, workers, responses>> /\ UNCHANGED chain
  BY <1>1 DEF mainOnly, l1Vars
<1>3. main' \in MainType /\ main'.pc = "check" /\ main'.last = main.last /\ main'.to = main.to
  BY <1>1, MainIs DEF MainType
<1>4. main.to \in 1..MaxBlock /\ main.to <= Len(chain) /\ consumer.pc # "run"
  BY <1>1, MainIs, Constants DEF RestOK
<1>5. CmdsOK(Len(chain), cmds')
  <2>1. cmds \in Seq(1..MaxBlock) /\ CmdsFit(Len(chain), cmds) /\ Len(cmds) \in Nat
    BY MainIs DEF RestOK, CmdsOK
  <2>2. /\ cmds' \in Seq(1..MaxBlock) /\ Len(cmds') = Len(cmds) + 1
        /\ \A i \in DOMAIN cmds : i \in DOMAIN cmds' /\ cmds'[i] = cmds[i]
        /\ cmds'[Len(cmds) + 1] = main.to
        /\ \A i \in DOMAIN cmds' : i \in DOMAIN cmds \/ i = Len(cmds) + 1
    BY <1>1, <1>4, <2>1, AppendElements
  <2>3. CmdsFit(Len(chain), cmds')
    BY <1>4, <2>1, <2>2 DEF CmdsFit
  <2>4. Len(cmds') <= CmdsSize
    BY <1>1, <2>1, <2>2, Constants
  <2> QED BY <2>2, <2>3, <2>4 DEF CmdsOK
<1>6. RestOK'
  BY <1>1, <1>2, <1>3, <1>4, <1>5, MainIs DEF RestOK
<1>7. faults' \in FaultsType /\ faults'.left <= faults.left
  BY <1>1, FaultsSame DEF FaultsType
<1> QED BY <1>2, <1>6, <1>7, RestStep

LEMMA OrchestrateAlways ==
  ASSUME Always, orchestrate
  PROVE  Always'
<1>1. main.pc = "wait" /\ UNCHANGED <<mainOnly, db, status, cmds, channel, consumer, faults>>
  BY DEF orchestrate
<1>2. faults' \in FaultsType /\ faults'.left <= faults.left
  BY <1>1, FaultsSame DEF FaultsType
<1>3. CASE consumer.pc = "failed" /\ Resume
  BY <1>1, <1>2, <1>3, ResumeAlways
<1>4. CASE consumer.pc = "ended" /\ main' = [main EXCEPT !.pc = "check", !.last = consumer.synced]
  <2>1. UNCHANGED <<l1Vars, prod, sync, filter, workers, responses>> /\ UNCHANGED chain
    BY <1>1 DEF mainOnly, l1Vars
  <2>2. consumer.synced \in db /\ consumer.synced \in Block
    BY <1>1, LastIs, MainIs DEF RestOK
  <2>3. main' \in MainType /\ main'.pc = "check" /\ main'.last = consumer.synced /\ main'.to = main.to
    BY <1>4, <2>2, MainIs DEF MainType
  <2>4. RestOK'
    BY <1>1, <1>4, <2>1, <2>2, <2>3, MainIs DEF RestOK
  <2> QED BY <1>2, <2>1, <2>4, RestStep
<1> QED BY <1>3, <1>4 DEF orchestrate

LEMMA MainAlways == Always /\ Main => Always'
BY StartAlways, ResetStateAlways, CheckReorgErrorAlways, ResetAlways, QueueResetAlways,
   OrchestrateAlways DEF Main

\* The state of a process that has just been started with last block b.
LEMMA FreshReader ==
  ASSUME NEW t \in Nat, NEW b \in Block, b.n <= t
  PROVE  /\ SyncOK(t, newSyncStatus) /\ FilterOK(t, newFilter) /\ ChannelOK(t, <<>>)
         /\ CmdsOK(t, <<b.n>>) /\ WorkersOK(t, newWorkers) /\ ResponsesOK(t, <<>>)
         /\ StatusOK("idle") /\ ProdOK(IdleProducer) /\ IdleProducer.pc = "select"
         /\ newConsumer(b) \in ConsumerType /\ newConsumer(b).processed = 0
         /\ newConsumer(b).pc = "ended" /\ newConsumer(b).synced = b
         /\ newMain(b) \in MainType /\ newMain(b).pc = "check" /\ newMain(b).last = b
         /\ newMain(b).to = 0
<1>1. 0 \in 0..MaxBlock /\ <<>> \in Seq(RangeType) /\ 0 <= t
  BY Constants
<1>2. SyncOK(t, newSyncStatus)
  <2>1. newSyncStatus \in SyncStatus
    BY <1>1 DEF newSyncStatus, SyncStatus
  <2>2. SyncFits(t, newSyncStatus) /\ Disjoint(newSyncStatus)
    BY <1>1 DEF newSyncStatus, SyncFits, Disjoint
  <2> QED BY <2>1, <2>2 DEF SyncOK
<1>3. FilterOK(t, newFilter) /\ ChannelOK(t, <<>>) /\ ResponsesOK(t, <<>>)
  BY <1>1, EmptyFits, Constants DEF FilterOK, newFilter, ChannelOK, ResponsesOK
<1>4. CmdsOK(t, <<b.n>>)
  <2>1. b.n \in 1..MaxBlock
    BY DEF Block
  <2>2. <<b.n>> \in Seq(1..MaxBlock) /\ Len(<<b.n>>) = 1 /\ \A i \in DOMAIN <<b.n>> : <<b.n>>[i] = b.n
    BY <2>1
  <2>3. Len(<<b.n>>) <= CmdsSize
    BY <2>2, Constants
  <2> QED BY <2>2, <2>3 DEF CmdsOK, CmdsFit
<1>5. WorkersOK(t, newWorkers)
  BY DEF WorkersOK, newWorkers, WorkersFit
<1>6. ProdOK(IdleProducer) /\ IdleProducer.pc = "select" /\ StatusOK("idle")
  BY DEF ProdOK, IdleProducer, StatusOK
<1>7. /\ newConsumer(b) \in ConsumerType /\ newConsumer(b).processed = 0
      /\ newConsumer(b).pc = "ended" /\ newConsumer(b).synced = b
  BY <1>1 DEF newConsumer, ConsumerType
<1>8. /\ newMain(b) \in MainType /\ newMain(b).pc = "check" /\ newMain(b).last = b
      /\ newMain(b).to = 0
  BY <1>1 DEF newMain, MainType
<1> QED BY <1>2, <1>3, <1>4, <1>5, <1>6, <1>7, <1>8

LEMMA CrashAlways ==
  ASSUME Always, Crash
  PROVE  Always'
<1> DEFINE b == GetLastBlock
           t == Len(chain)
<1>1. /\ Fault("crash") /\ status' = "idle" /\ prod' = IdleProducer /\ sync' = newSyncStatus
      /\ filter' = newFilter /\ cmds' = <<b.n>> /\ workers' = newWorkers /\ responses' = <<>>
      /\ channel' = <<>> /\ consumer' = newConsumer(b) /\ main' = newMain(b)
      /\ UNCHANGED <<l1Vars, db>>
  BY DEF Crash, Restart
<1>2. b \in Block /\ b \in db /\ b.n <= t /\ t \in Nat /\ b.n \in Nat
  BY LastIs, ChainIs
<1> HIDE DEF b
<1>3. UNCHANGED <<chain, pattern, fork, db>>
  BY <1>1 DEF l1Vars
<1>4. faults' \in FaultsType /\ faults'.left <= faults.left
  BY <1>1, FaultTypes DEF FaultsType
<1>5. L1OK'
  <2>1. L1OK
    BY AlwaysParts
  <2>2. fork \in Nat /\ faults.left \in Nat /\ faults'.left \in Nat /\ fork <= MaxFaults - faults.left
    BY <1>4, <2>1 DEF L1OK, FaultsType
  <2>3. fork' <= MaxFaults - faults'.left
    BY <1>3, <1>4, <2>2, Constants
  <2> QED BY <1>3, <1>4, <2>1, <2>3 DEF L1OK
<1>6. ReaderOK(Len(chain))'
  BY <1>1, <1>2, <1>3, FreshReader DEF ReaderOK, At
<1>7. RestOK'
  <2>1. 0 <= t /\ RestOK
    BY <1>2, AlwaysParts
  <2> QED BY <1>1, <1>2, <1>3, <2>1, FreshReader DEF RestOK
<1> QED BY <1>5, <1>6, <1>7, AlwaysFromParts, PTL

LEMMA InitAlways == Init => Always
<1> SUFFICES ASSUME Init PROVE Always
  OBVIOUS
<1> DEFINE b == chain[GenesisBlockNum]
           t == Len(chain)
<1>1. /\ fork = 0 /\ pattern \in Patterns
      /\ chain = [n \in 1..StartLen |-> NewBlock(n, 0, pattern)]
      /\ db = {b} /\ status = "idle" /\ prod = IdleProducer /\ sync = newSyncStatus
      /\ filter = newFilter /\ cmds = <<GenesisBlockNum>> /\ workers = newWorkers
      /\ responses = <<>> /\ channel = <<>> /\ consumer = newConsumer(b) /\ main = newMain(b)
      /\ faults = [left |-> MaxFaults, seen |-> {}]
  BY DEF Init
<1>2. \A n \in 1..StartLen : chain[n] \in Block /\ chain[n].n = n
  <2>1. \A n \in 1..StartLen : n \in 1..MaxBlock /\ 0 \in 0..MaxFaults
    BY Constants
  <2>2. \A n \in 1..StartLen : NewBlock(n, 0, pattern) \in Block /\ NewBlock(n, 0, pattern).n = n
    BY <2>1 DEF NewBlock, Block
  <2> QED BY <1>1, <2>2
<1>3. chain \in Seq(Block) /\ t = StartLen /\ DOMAIN chain = 1..StartLen
  <2>1. chain \in [1..StartLen -> Block]
    BY <1>1, <1>2
  <2>2. StartLen \in Nat
    BY Constants
  <2> QED BY <2>1, <2>2
<1>4. b \in Block /\ b.n = GenesisBlockNum /\ b.n <= t /\ t \in Nat
  BY <1>2, <1>3, Constants
<1>5. Numbered(chain)
  BY <1>2, <1>3, Constants DEF Numbered
<1>6. L1OK
  <2>1. faults \in FaultsType /\ faults.left = MaxFaults
    BY <1>1, Constants DEF FaultsType
  <2>2. fork \in 0..MaxFaults /\ fork <= MaxFaults - faults.left
    BY <1>1, <2>1, Constants
  <2> QED BY <1>1, <1>3, <1>5, <2>1, <2>2 DEF L1OK
<1> HIDE DEF b
<1>7. ReaderOK(t)
  BY <1>1, <1>4, FreshReader DEF ReaderOK, At
<1>8. RestOK
  <2>1. 0 <= t /\ \A x \in db : x.n <= t
    BY <1>1, <1>4
  <2>2. chain[GenesisBlockNum] \in db /\ b \in db /\ db \in SUBSET Block
    BY <1>1, <1>4 DEF b
  <2> QED BY <1>1, <1>4, <2>1, <2>2, FreshReader DEF RestOK
<1> QED BY <1>6, <1>7, <1>8, AlwaysFromParts

LEMMA NextAlways == Always /\ [Next]_vars => Always'
<1> SUFFICES ASSUME Always, [Next]_vars PROVE Always'
  OBVIOUS
<1>1. CASE UNCHANGED vars
  <2>1. /\ UNCHANGED <<chain, pattern, fork>> /\ UNCHANGED db
        /\ UNCHANGED <<status, prod, sync, filter, cmds, workers, responses>>
        /\ UNCHANGED <<channel, consumer, main, faults>>
    BY <1>1 DEF vars, l1Vars, prodVars
  <2>2. L1OK /\ ReaderOK(Len(chain)) /\ RestOK
    BY AlwaysParts
  <2>3. L1OK'
    BY <2>1, <2>2 DEF L1OK
  <2>4. ReaderOK(Len(chain))'
    BY <2>1, <2>2 DEF ReaderOK, At
  <2>5. RestOK'
    BY <2>1, <2>2 DEF RestOK
  <2> QED BY <2>3, <2>4, <2>5, AlwaysFromParts, PTL
<1>2. CASE NewL1Block
  BY <1>2, NewL1BlockAlways
<1>3. CASE \E h \in GenesisBlockNum..MaxBlock - 1 : L1Reorg(h)
  BY <1>3, L1ReorgAlways
<1>4. CASE \E w \in 1..NumWorkers : executeRequestRollupInfoByBlockRange(w) \/ RequestFails(w)
  BY <1>4, ExecuteAlways, RequestFailsAlways
<1>5. CASE Producer \/ Consumer \/ Main \/ Crash
  BY <1>5, ProducerAlways, ConsumerAlways, MainAlways, CrashAlways
<1> QED BY <1>1, <1>2, <1>3, <1>4, <1>5 DEF Next

LEMMA AlwaysHolds == Spec => []Always
BY InitAlways, NextAlways, PTL DEF Spec

\* The channels of the reader keep within their capacity, and every part of
\* the producer, the workers, the consumer and the main loop holds values of
\* its type: no range ends before it starts.
THEOREM TypeCorrect == Spec => []TypeOK
<1>1. Always => TypeOK
  BY DEF Always
<1> QED BY <1>1, AlwaysHolds, PTL

\* addBlockRange never gets a range that overlaps one it has: the process does
\* not end with log.Fatal, whatever fails, is reset or is reorganised.
THEOREM NoOverlapHolds == Spec => []NoOverlap
<1>1. Always => NoOverlap
  <2> SUFFICES ASSUME Always PROVE NoOverlap
    OBVIOUS
  <2>1. \A i, j \in DOMAIN sync.errors : i # j => ~Overlaps(sync.errors[i], sync.errors[j])
    BY DEF Always, Disjoint
  <2>2. ASSUME GetNextRange(sync, prod.allowNew) # NoRange, NEW e \in sync.processing
        PROVE  ~Overlaps(e, GetNextRange(sync, prod.allowNew))
    <3> DEFINE r == GetNextRange(sync, prod.allowNew)
    <3>1. prod.allowNew \in BOOLEAN /\ SyncOK(Len(chain), sync)
      BY AlwaysReader DEF ReaderOK, ProdOK
    <3>2. StartedFacts(sync, Discard(sync), OnStartedNewWorker(Discard(sync), r), r)
      BY <2>2, <3>1, ChainIs, StartedOK
    <3> QED BY <3>2 DEF StartedFacts
  <2> QED BY <2>1, <2>2 DEF NoOverlap, NothingToLaunch
<1> QED BY <1>1, AlwaysHolds, PTL

-----------------------------------------------------------------------------
(* Until a reorganisation: the sequence of answers                         *)

LEMMA TailShift ==
  ASSUME NEW ch \in Seq(Msg), ch # <<>>
  PROVE  /\ \A i \in DOMAIN Tail(ch) : /\ i \in Nat /\ i >= 1 /\ i + 1 \in DOMAIN ch
                                       /\ Data(Tail(ch), i) <=> Data(ch, i + 1)
                                       /\ Tail(ch)[i] = ch[i + 1]
         /\ \A k \in DOMAIN ch : /\ k \in Nat /\ k >= 1
                                 /\ k > 1 => k - 1 \in DOMAIN Tail(ch) /\ (k - 1) + 1 = k
<1>1. Tail(ch) \in Seq(Msg) /\ Len(Tail(ch)) = Len(ch) - 1 /\ Len(ch) \in Nat
  BY TailElements
<1>2. DOMAIN Tail(ch) = 1..(Len(ch) - 1) /\ DOMAIN ch = 1..Len(ch)
  BY <1>1
<1>3. \A i \in DOMAIN Tail(ch) : i \in Nat /\ i >= 1 /\ i + 1 \in DOMAIN ch /\ Tail(ch)[i] = ch[i + 1]
  BY <1>2, TailElements
<1>4. \A k \in DOMAIN ch : /\ k \in Nat /\ k >= 1
                           /\ k > 1 => k - 1 \in DOMAIN Tail(ch) /\ (k - 1) + 1 = k
  BY <1>1, <1>2
<1>5. \A i \in DOMAIN Tail(ch) : Data(Tail(ch), i) <=> Data(ch, i + 1)
  BY <1>3 DEF Data
<1> QED BY <1>3, <1>4, <1>5

LEMMA LinkedEmpty == \A last : Linked(<<>>, last)
BY DEF Linked

LEMMA LinkedTail ==
  ASSUME NEW ch \in Seq(Msg), ch # <<>>, NEW last, Linked(ch, last)
  PROVE  Linked(Tail(ch), last)
<1> DEFINE tl == Tail(ch)
<1>1. /\ \A i \in DOMAIN tl : /\ i \in Nat /\ i >= 1 /\ i + 1 \in DOMAIN ch
                              /\ Data(tl, i) <=> Data(ch, i + 1)
                              /\ tl[i] = ch[i + 1]
      /\ \A k \in DOMAIN ch : /\ k \in Nat /\ k >= 1
                              /\ k > 1 => k - 1 \in DOMAIN tl /\ (k - 1) + 1 = k
  BY TailShift
<1> HIDE DEF tl
<1>2. ASSUME NEW i \in DOMAIN tl, NEW j \in DOMAIN tl, Data(tl, i), Data(tl, j), i < j,
             \A k \in DOMAIN tl : i < k /\ k < j => ~Data(tl, k)
      PROVE  tl[j].range.from = After(tl[i])
  <2>1. /\ i \in Nat /\ j \in Nat /\ i >= 1 /\ i + 1 \in DOMAIN ch /\ j + 1 \in DOMAIN ch
        /\ Data(ch, i + 1) /\ Data(ch, j + 1) /\ i + 1 < j + 1
    BY <1>1, <1>2
  <2>2. ASSUME NEW k \in DOMAIN ch, i + 1 < k, k < j + 1
        PROVE  ~Data(ch, k)
    <3>1. k \in Nat /\ k > 1 /\ i < k - 1 /\ k - 1 < j
      BY <1>1, <2>1, <2>2
    <3>2. k - 1 \in DOMAIN tl /\ (k - 1) + 1 = k
      BY <1>1, <3>1
    <3>3. ~Data(tl, k - 1)
      BY <1>2, <3>1, <3>2
    <3> QED BY <1>1, <3>2, <3>3
  <2>3. ch[j + 1].range.from = After(ch[i + 1])
    BY <2>1, <2>2 DEF Linked
  <2>4. tl[i] = ch[i + 1] /\ tl[j] = ch[j + 1]
    BY <1>1
  <2> QED BY <2>3, <2>4
<1>3. ASSUME NEW i \in DOMAIN tl, Data(tl, i), \A k \in DOMAIN tl : i < k => ~Data(tl, k)
      PROVE  last + 1 = After(tl[i])
  <2>1. i \in Nat /\ i >= 1 /\ i + 1 \in DOMAIN ch /\ Data(ch, i + 1)
    BY <1>1, <1>3
  <2>2. ASSUME NEW k \in DOMAIN ch, i + 1 < k
        PROVE  ~Data(ch, k)
    <3>1. k \in Nat /\ k > 1 /\ i < k - 1
      BY <1>1, <2>1, <2>2
    <3>2. k - 1 \in DOMAIN tl /\ (k - 1) + 1 = k
      BY <1>1, <3>1
    <3>3. ~Data(tl, k - 1)
      BY <1>3, <3>1, <3>2
    <3> QED BY <1>1, <3>2, <3>3
  <2>3. last + 1 = After(ch[i + 1])
    BY <2>1, <2>2 DEF Linked
  <2>4. tl[i] = ch[i + 1]
    BY <1>1
  <2> QED BY <2>3, <2>4
<1>4. Linked(tl, last)
  BY <1>2, <1>3 DEF Linked
<1> QED BY <1>4 DEF tl

LEMMA NextOfTail ==
  ASSUME NEW ch \in Seq(Msg), ch # <<>>, NEW last, NEW f, NextIs(Tail(ch), last, f)
  PROVE  /\ ~Data(ch, 1) => NextIs(ch, last, f)
         /\ Data(ch, 1) /\ Linked(ch, last) => f = After(ch[1])
<1> DEFINE tl == Tail(ch)
<1>1. /\ \A i \in DOMAIN tl : /\ i \in Nat /\ i >= 1 /\ i + 1 \in DOMAIN ch
                              /\ Data(tl, i) <=> Data(ch, i + 1)
                              /\ tl[i] = ch[i + 1]
      /\ \A k \in DOMAIN ch : /\ k \in Nat /\ k >= 1
                              /\ k > 1 => k - 1 \in DOMAIN tl /\ (k - 1) + 1 = k
  BY TailShift
<1>2. 1 \in DOMAIN ch
  BY TailElements
<1>3. NextIs(tl, last, f)
  OBVIOUS
<1> HIDE DEF tl
<1>4. CASE \E j \in DOMAIN tl :
             Data(tl, j) /\ (\A k \in DOMAIN tl : k < j => ~Data(tl, k)) /\ f = tl[j].range.from
  <2>1. PICK j \in DOMAIN tl :
          Data(tl, j) /\ (\A k \in DOMAIN tl : k < j => ~Data(tl, k)) /\ f = tl[j].range.from
    BY <1>4
  <2>2. /\ j \in Nat /\ j >= 1 /\ j + 1 \in DOMAIN ch /\ Data(ch, j + 1)
        /\ f = ch[j + 1].range.from
    BY <1>1, <2>1
  <2>3. ASSUME NEW k \in DOMAIN ch, 1 < k, k < j + 1
        PROVE  ~Data(ch, k)
    <3>1. k \in Nat /\ k > 1 /\ k - 1 < j
      BY <1>1, <2>2, <2>3
    <3>2. k - 1 \in DOMAIN tl /\ (k - 1) + 1 = k
      BY <1>1, <3>1
    <3>3. ~Data(tl, k - 1)
      BY <2>1, <3>1, <3>2
    <3> QED BY <1>1, <3>2, <3>3
  <2>4. ASSUME ~Data(ch, 1)
        PROVE  NextIs(ch, last, f)
    <3>1. \A k \in DOMAIN ch : k = 1 \/ 1 < k
      BY <1>1
    <3>2. \A k \in DOMAIN ch : k < j + 1 => ~Data(ch, k)
      BY <2>3, <2>4, <3>1
    <3> QED BY <2>2, <3>2 DEF NextIs
  <2>5. ASSUME Data(ch, 1), Linked(ch, last)
        PROVE  f = After(ch[1])
    <3>1. 1 < j + 1
      BY <2>2
    <3> QED BY <1>2, <2>2, <2>3, <2>5, <3>1 DEF Linked
  <2> QED BY <2>4, <2>5
<1>5. CASE (\A k \in DOMAIN tl : ~Data(tl, k)) /\ f = last + 1
  <2>1. ASSUME NEW k \in DOMAIN ch, 1 < k
        PROVE  ~Data(ch, k)
    <3>1. k - 1 \in DOMAIN tl /\ (k - 1) + 1 = k
      BY <1>1, <2>1
    <3>2. ~Data(tl, k - 1)
      BY <1>5, <3>1
    <3> QED BY <1>1, <3>1, <3>2
  <2>2. ASSUME ~Data(ch, 1)
        PROVE  NextIs(ch, last, f)
    <3>1. \A k \in DOMAIN ch : k = 1 \/ 1 < k
      BY <1>1
    <3>2. \A k \in DOMAIN ch : ~Data(ch, k)
      BY <2>1, <2>2, <3>1
    <3> QED BY <1>5, <3>2 DEF NextIs
  <2>3. ASSUME Data(ch, 1), Linked(ch, last)
        PROVE  f = After(ch[1])
    BY <1>2, <1>5, <2>1, <2>3 DEF Linked
  <2> QED BY <2>2, <2>3
<1> QED BY <1>3, <1>4, <1>5 DEF NextIs

LEMMA NextOfHead ==
  ASSUME NEW ch \in Seq(Msg), ch # <<>>, NEW last, Data(ch, 1)
  PROVE  NextIs(ch, last, ch[1].range.from)
<1>1. 1 \in DOMAIN ch /\ \A k \in DOMAIN ch : ~(k < 1)
  BY TailElements, TailShift
<1> QED BY <1>1 DEF NextIs

LEMMA NextOfEmpty == \A last, f : NextIs(<<>>, last, f) => f = last + 1
BY DEF NextIs

\* One more message.
LEMMA AppendShift ==
  ASSUME NEW ch \in Seq(Msg), NEW m \in Msg
  PROVE  LET a == Append(ch, m)
         IN  /\ Len(ch) \in Nat /\ Len(ch) + 1 \in DOMAIN a /\ a[Len(ch) + 1] = m
             /\ \A i \in DOMAIN ch : /\ i \in DOMAIN a /\ a[i] = ch[i] /\ i \in Nat
                                     /\ i < Len(ch) + 1 /\ (Data(a, i) <=> Data(ch, i))
             /\ \A i \in DOMAIN a : i \in DOMAIN ch \/ i = Len(ch) + 1
             /\ Data(a, Len(ch) + 1) <=> ~IsControl(m)
<1> DEFINE a == Append(ch, m)
<1>1. /\ Len(ch) \in Nat /\ DOMAIN ch = 1..Len(ch)
      /\ \A i \in DOMAIN ch : i \in DOMAIN a /\ a[i] = ch[i]
      /\ a[Len(ch) + 1] = m /\ Len(a) = Len(ch) + 1 /\ a \in Seq(Msg)
      /\ \A i \in DOMAIN a : i \in DOMAIN ch \/ i = Len(ch) + 1
  BY AppendElements
<1>2. Len(ch) + 1 \in DOMAIN a
  BY <1>1
<1> HIDE DEF a
<1>3. \A i \in DOMAIN ch : i \in Nat /\ i < Len(ch) + 1
  BY <1>1
<1>4. \A i \in DOMAIN ch : Data(a, i) <=> Data(ch, i)
  BY <1>1 DEF Data
<1>5. Data(a, Len(ch) + 1) <=> ~IsControl(m)
  BY <1>1, <1>2 DEF Data
<1> QED BY <1>1, <1>2, <1>3, <1>4, <1>5 DEF a

LEMMA LinkedAppend ==
  ASSUME NEW ch \in Seq(Msg), NEW m \in Msg, NEW last, NEW new, Linked(ch, last),
         IsControl(m) => new = last,
         ~IsControl(m) => m.range.from = last + 1 /\ new + 1 = After(m)
  PROVE  Linked(Append(ch, m), new)
<1> DEFINE a == Append(ch, m)
           n == Len(ch) + 1
<1>1. /\ n \in Nat /\ n \in DOMAIN a /\ a[n] = m
      /\ \A i \in DOMAIN ch : /\ i \in DOMAIN a /\ a[i] = ch[i] /\ i \in Nat
                              /\ i < n /\ (Data(a, i) <=> Data(ch, i))
      /\ \A i \in DOMAIN a : i \in DOMAIN ch \/ i = n
      /\ Data(a, n) <=> ~IsControl(m)
  BY AppendShift
<1> HIDE DEF a, n
<1>2. ASSUME NEW i \in DOMAIN a, NEW j \in DOMAIN a, Data(a, i), Data(a, j), i < j,
             \A k \in DOMAIN a : i < k /\ k < j => ~Data(a, k)
      PROVE  a[j].range.from = After(a[i])
  <2>1. i \in DOMAIN ch
    BY <1>1, <1>2
  <2>2. CASE j \in DOMAIN ch
    <3>1. \A k \in DOMAIN ch : i < k /\ k < j => ~Data(ch, k)
      BY <1>1, <1>2
    <3>2. Data(ch, i) /\ Data(ch, j) /\ a[i] = ch[i] /\ a[j] = ch[j]
      BY <1>1, <1>2, <2>1, <2>2
    <3>3. ch[j].range.from = After(ch[i])
      BY <1>2, <2>1, <2>2, <3>1, <3>2 DEF Linked
    <3> QED BY <3>2, <3>3
  <2>3. CASE j = n
    <3>1. \A k \in DOMAIN ch : i < k => ~Data(ch, k)
      BY <1>1, <1>2, <2>3
    <3>2. Data(ch, i) /\ a[i] = ch[i] /\ a[j] = m /\ ~IsControl(m)
      BY <1>1, <1>2, <2>1, <2>3
    <3>3. last + 1 = After(ch[i])
      BY <2>1, <3>1, <3>2 DEF Linked
    <3> QED BY <3>2, <3>3
  <2> QED BY <1>1, <2>2, <2>3
<1>3. ASSUME NEW i \in DOMAIN a, Data(a, i), \A k \in DOMAIN a : i < k => ~Data(a, k)
      PROVE  new + 1 = After(a[i])
  <2>1. CASE i = n
    BY <1>1, <1>3, <2>1
  <2>2. CASE i \in DOMAIN ch
    <3>1. ~Data(a, n)
      BY <1>1, <1>3, <2>2
    <3>2. new = last
      BY <1>1, <3>1
    <3>3. Data(ch, i) /\ a[i] = ch[i] /\ \A k \in DOMAIN ch : i < k => ~Data(ch, k)
      BY <1>1, <1>3, <2>2
    <3>4. last + 1 = After(ch[i])
      BY <2>2, <3>3 DEF Linked
    <3> QED BY <3>2, <3>3, <3>4
  <2> QED BY <1>1, <2>1, <2>2
<1>4. Linked(a, new)
  BY <1>2, <1>3 DEF Linked
<1> QED BY <1>4 DEF a

LEMMA NextOfAppend ==
  ASSUME NEW ch \in Seq(Msg), NEW m \in Msg, NEW last, NEW new,
         IsControl(m) => new = last, ~IsControl(m) => m.range.from = last + 1,
         NEW f, NextIs(Append(ch, m), new, f)
  PROVE  NextIs(ch, last, f)
<1> DEFINE a == Append(ch, m)
           n == Len(ch) + 1
<1>1. /\ n \in Nat /\ n \in DOMAIN a /\ a[n] = m
      /\ \A i \in DOMAIN ch : /\ i \in DOMAIN a /\ a[i] = ch[i] /\ i \in Nat
                              /\ i < n /\ (Data(a, i) <=> Data(ch, i))
      /\ \A i \in DOMAIN a : i \in DOMAIN ch \/ i = n
      /\ Data(a, n) <=> ~IsControl(m)
  BY AppendShift
<1>2. NextIs(a, new, f)
  OBVIOUS
<1> HIDE DEF a, n
<1>3. CASE \E j \in DOMAIN a :
             Data(a, j) /\ (\A k \in DOMAIN a : k < j => ~Data(a, k)) /\ f = a[j].range.from
  <2>1. PICK j \in DOMAIN a :
          Data(a, j) /\ (\A k \in DOMAIN a : k < j => ~Data(a, k)) /\ f = a[j].range.from
    BY <1>3
  <2>2. CASE j \in DOMAIN ch
    <3>1. Data(ch, j) /\ f = ch[j].range.from /\ \A k \in DOMAIN ch : k < j => ~Data(ch, k)
      BY <1>1, <2>1, <2>2
    <3> QED BY <2>2, <3>1 DEF NextIs
  <2>3. CASE j = n
    <3>1. \A k \in DOMAIN ch : ~Data(ch, k)
      BY <1>1, <2>1, <2>3
    <3>2. f = last + 1
      BY <1>1, <2>1, <2>3
    <3> QED BY <3>1, <3>2 DEF NextIs
  <2> QED BY <1>1, <2>2, <2>3
<1>4. CASE (\A k \in DOMAIN a : ~Data(a, k)) /\ f = new + 1
  <2>1. (\A k \in DOMAIN ch : ~Data(ch, k)) /\ f = last + 1
    BY <1>1, <1>4
  <2> QED BY <2>1 DEF NextIs
<1> QED BY <1>2, <1>3, <1>4 DEF NextIs

\* Completeness of the answers in a sequence.
Reliable(c, rs) == AllComplete(c, rs) /\ AllOk(rs)

LEMMA ReliableSub ==
  ASSUME NEW c, NEW rs, NEW qs, \A i \in DOMAIN qs : \E j \in DOMAIN rs : qs[i] = rs[j]
  PROVE  /\ AllComplete(c, rs) => AllComplete(c, qs)
         /\ AllOk(rs) => AllOk(qs)
BY DEF AllComplete, AllOk

LEMMA ReliableTail ==
  ASSUME NEW c, NEW rs \in Seq(Msg), rs # <<>>
  PROVE  /\ AllComplete(c, rs) => AllComplete(c, Tail(rs))
         /\ AllOk(rs) => AllOk(Tail(rs))
<1>1. \A i \in DOMAIN Tail(rs) : \E j \in DOMAIN rs : Tail(rs)[i] = rs[j]
  BY TailElements
<1> QED BY <1>1, ReliableSub

LEMMA ReliableRemove ==
  ASSUME NEW c, NEW rs \in Seq(Response), NEW i \in DOMAIN rs
  PROVE  /\ AllComplete(c, rs) => AllComplete(c, RemoveAt(rs, i))
         /\ AllOk(rs) => AllOk(RemoveAt(rs, i))
<1> DEFINE o == RemoveAt(rs, i)
<1>1. /\ o \in Seq(Response) /\ Len(o) = Len(rs) - 1
      /\ \A k \in DOMAIN o : o[k] = IF k < i THEN rs[k] ELSE rs[k + 1]
  BY RemoveAtElements
<1> HIDE DEF o
<1>2. \A k \in DOMAIN o : k \in DOMAIN rs /\ k + 1 \in DOMAIN rs
  BY <1>1
<1>3. \A k \in DOMAIN o : \E j \in DOMAIN rs : o[k] = rs[j]
  BY <1>1, <1>2
<1>4. /\ AllComplete(c, rs) => AllComplete(c, o)
      /\ AllOk(rs) => AllOk(o)
  BY <1>3, ReliableSub
<1> QED BY <1>4 DEF o

LEMMA ReliableAppend ==
  ASSUME NEW c, NEW rs \in Seq(Msg), NEW m \in Msg
  PROVE  /\ AllComplete(c, rs) /\ (~IsControl(m) /\ m.ok => Complete(c, m)) =>
              AllComplete(c, Append(rs, m))
         /\ AllOk(rs) /\ (~IsControl(m) => m.ok) => AllOk(Append(rs, m))
<1> DEFINE a == Append(rs, m)
<1>1. /\ \A i \in DOMAIN rs : i \in DOMAIN a /\ a[i] = rs[i]
      /\ a[Len(rs) + 1] = m
      /\ \A i \in DOMAIN a : i \in DOMAIN rs \/ i = Len(rs) + 1
  BY AppendElements
<1> HIDE DEF a
<1>2. AllComplete(c, rs) /\ (~IsControl(m) /\ m.ok => Complete(c, m)) => AllComplete(c, a)
  BY <1>1 DEF AllComplete
<1>3. AllOk(rs) /\ (~IsControl(m) => m.ok) => AllOk(a)
  BY <1>1 DEF AllOk
<1> QED BY <1>2, <1>3 DEF a

\* A longer L1 makes no answer incomplete.
LEMMA CompleteUp ==
  ASSUME NEW c \in Seq(Block), NEW d \in Seq(Block), Len(c) <= Len(d),
         \A n \in DOMAIN c : d[n] = c[n]
  PROVE  /\ \A b : OnL1(c, b) => OnL1(d, b)
         /\ \A rs \in Seq(Msg) : AnswersFit(Len(c), rs) /\ AllComplete(c, rs) => AllComplete(d, rs)
<1>1. DOMAIN c = 1..Len(c) /\ DOMAIN d = 1..Len(d) /\ Len(c) \in Nat /\ Len(d) \in Nat
  OBVIOUS
<1>2. DOMAIN c \subseteq DOMAIN d
  BY <1>1
<1>3. \A b : OnL1(c, b) => OnL1(d, b)
  BY <1>2 DEF OnL1
<1>4. ASSUME NEW r \in Response, AnswerFits(Len(c), r), Complete(c, r)
      PROVE  Complete(d, r)
  <2>1. HighestIn(r) \in Nat /\ HighestIn(r) <= Len(c) /\ r.range.from \in Nat /\ r.range.from >= 1
    BY <1>1, <1>4, HighestInFits, ResponseIs, RangeIs
  <2>2. ASSUME NEW n \in DOMAIN d, r.range.from <= n, n <= HighestIn(r), d[n].event
        PROVE  d[n] \in r.blocks
    <3>1. n \in DOMAIN c
      BY <1>1, <2>1, <2>2
    <3> QED BY <1>4, <2>2, <3>1 DEF Complete
  <2> QED BY <1>3, <1>4, <2>2 DEF Complete
<1>5. ASSUME NEW rs \in Seq(Msg), AnswersFit(Len(c), rs), AllComplete(c, rs)
      PROVE  AllComplete(d, rs)
  <2> SUFFICES ASSUME NEW i \in DOMAIN rs, ~IsControl(rs[i]), rs[i].ok
               PROVE  Complete(d, rs[i])
    BY DEF AllComplete
  <2>1. rs[i] \in Response
    BY DEF Msg, FullySynced, IsControl
  <2>2. AnswerFits(Len(c), rs[i]) /\ Complete(c, rs[i])
    BY <1>5 DEF AnswersFit, AllComplete
  <2> QED BY <1>4, <2>1, <2>2
<1> QED BY <1>3, <1>5

-----------------------------------------------------------------------------
(* Until a reorganisation: the steps                                       *)

LEMMA StoredDown ==
  ASSUME NEW c, NEW d, NEW p \in Int, NEW q \in Int, q <= p, StoredIn(c, d, p)
  PROVE  StoredIn(c, d, q)
<1>1. \A n \in GenesisBlockNum..q : n \in GenesisBlockNum..p
  BY Constants
<1> QED BY <1>1 DEF StoredIn

\* A table with more blocks, and a longer L1.
LEMMA StoredUp ==
  ASSUME NEW c \in Seq(Block), NEW e, NEW d, NEW f, NEW p \in Int, p <= Len(c),
         \A n \in DOMAIN c : e[n] = c[n], d \subseteq f, StoredIn(c, d, p)
  PROVE  StoredIn(e, f, p)
<1>1. \A n \in GenesisBlockNum..p : n \in DOMAIN c
  BY Constants
<1> QED BY <1>1 DEF StoredIn

LEMMA PlaceUp ==
  ASSUME NEW c \in Seq(Block), NEW e, NEW d, NEW f, \A n \in DOMAIN c : e[n] = c[n],
         d \subseteq f, NEW ch \in Seq(Msg), AnswersFit(Len(c), ch), NEW last \in Nat, last <= Len(c),
         NEW k, k.processed \in Nat, k.processed <= Len(c), PlaceStored(c, d, ch, last, k)
  PROVE  PlaceStored(e, f, ch, last, k)
<1>1. Len(c) \in Nat
  OBVIOUS
<1>2. k.processed # 0 => StoredIn(e, f, k.processed)
  BY StoredUp DEF PlaceStored
<1>3. ASSUME k.processed = 0, NEW x \in Nat, NextIs(ch, last, x)
      PROVE  StoredIn(e, f, x - 1)
  <2>1. StoredIn(c, d, x - 1)
    BY <1>3 DEF PlaceStored
  <2>2. x <= Len(c) + 1
    <3>1. CASE x = last + 1
      BY <1>1, <3>1
    <3>2. CASE \E j \in DOMAIN ch : Data(ch, j) /\ x = ch[j].range.from
      BY <3>2 DEF Data, AnswersFit, AnswerFits, Fits
    <3> QED BY <1>3, <3>1, <3>2 DEF NextIs
  <2>3. x - 1 \in Int /\ x - 1 <= Len(c)
    BY <1>1, <2>2
  <2> QED BY <2>1, <2>3, StoredUp
<1> QED BY <1>2, <1>3 DEF PlaceStored

\* What the parts of the reader hold.
Shapes ==
  /\ chain \in Seq(Block) /\ Len(chain) \in Nat /\ db \subseteq Block
  /\ responses \in Seq(Msg) /\ filter.pending \in Seq(Msg) /\ filter.pending \in Seq(Response)
  /\ channel \in Seq(Msg)
  /\ AnswersFit(Len(chain), responses) /\ AnswersFit(Len(chain), filter.pending)
  /\ AnswersFit(Len(chain), channel)
  /\ filter.last \in Nat /\ filter.last <= Len(chain)
  /\ consumer.processed \in Nat /\ consumer.processed <= Len(chain)
  /\ cmds \in Seq(1..MaxBlock)
  /\ GetLastBlock.n \in Nat /\ GetLastBlock.n <= Len(chain)

LEMMA ShapesHold == Always => Shapes
<1> SUFFICES ASSUME Always PROVE Shapes
  OBVIOUS
<1>1. ReaderOK(Len(chain))
  BY AlwaysReader
<1>2. /\ chain \in Seq(Block) /\ Len(chain) \in Nat /\ db \subseteq Block
      /\ GetLastBlock.n \in Nat /\ GetLastBlock.n <= Len(chain)
  BY ChainIs, LastIs, Constants
<1>3. /\ responses \in Seq(Msg) /\ filter.pending \in Seq(Msg) /\ filter.pending \in Seq(Response)
      /\ AnswersFit(Len(chain), responses) /\ AnswersFit(Len(chain), filter.pending)
  BY <1>1, ResponsesAreMsgs DEF ReaderOK, ResponsesOK, FilterOK
<1>4. /\ channel \in Seq(Msg) /\ AnswersFit(Len(chain), channel) /\ cmds \in Seq(1..MaxBlock)
  BY <1>1 DEF ReaderOK, ChannelOK, CmdsOK
<1>5. filter.last \in Nat /\ filter.last <= Len(chain)
  BY <1>1, Constants DEF ReaderOK, FilterOK
<1> QED BY <1>2, <1>3, <1>4, <1>5, ConsumerIs DEF Shapes

\* A step that changes no more than the answers of the workers.
LEMMA SameAnswers ==
  ASSUME WhileSameChain, AllComplete(chain, responses'),
         UNCHANGED <<chain, db, filter, cmds, channel, consumer, main>>
  PROVE  WhileSameChain'
<1>1. AnswersComplete'
  BY DEF WhileSameChain, AnswersComplete
<1> QED BY <1>1 DEF WhileSameChain, GetLastBlock

LEMMA SameAll ==
  ASSUME WhileSameChain, UNCHANGED responses,
         UNCHANGED <<chain, db, filter, cmds, channel, consumer, main>>
  PROVE  WhileSameChain'
BY SameAnswers DEF WhileSameChain, AnswersComplete

LEMMA NewL1BlockSame ==
  ASSUME Always, WhileSameChain, NewL1Block
  PROVE  WhileSameChain'
<1>1. UNCHANGED <<db, filter, responses, cmds, channel, consumer, main>>
  BY DEF NewL1Block, prodVars
<1>2. Shapes
  BY ShapesHold
<1>3. chain' \in Seq(Block) /\ Len(chain) <= Len(chain') /\ \A n \in DOMAIN chain : chain'[n] = chain[n]
  <2> DEFINE b == NewBlock(Len(chain) + 1, fork, pattern)
  <2>1. chain' = Append(chain, b) /\ Len(chain) < MaxBlock
    BY DEF NewL1Block
  <2>2. b \in Block
    <3>1. Len(chain) \in Nat /\ fork \in 0..MaxFaults
      BY DEF Always, TypeOK
    <3> QED BY <2>1, <3>1, Constants DEF Block, NewBlock
  <2> HIDE DEF b
  <2>3. chain' \in Seq(Block) /\ Len(chain') = Len(chain) + 1 /\ \A n \in DOMAIN chain : chain'[n] = chain[n]
    BY <1>2, <2>1, <2>2, AppendElements DEF Shapes
  <2> QED BY <1>2, <2>3 DEF Shapes
<1>4. /\ \A b : OnL1(chain, b) => OnL1(chain', b)
      /\ \A rs \in Seq(Msg) : AnswersFit(Len(chain), rs) /\ AllComplete(chain, rs) => AllComplete(chain', rs)
  <2>1. chain \in Seq(Block)
    BY <1>2 DEF Shapes
  <2> QED BY <1>3, <2>1, CompleteUp
<1>5. AnswersComplete'
  BY <1>1, <1>2, <1>4 DEF WhileSameChain, AnswersComplete, Shapes
<1>6. TableOnL1(chain', db, consumer.received)
  <2>1. StoredIn(chain', db, GetLastBlock.n)
    <3>1. GetLastBlock.n \in Int /\ StoredIn(chain, db, GetLastBlock.n)
      BY <1>2 DEF Shapes, WhileSameChain, TableOnL1, GetLastBlock
    <3> QED BY <1>2, <1>3, <3>1, StoredUp DEF Shapes
  <2> QED BY <1>4, <2>1 DEF WhileSameChain, TableOnL1, GetLastBlock
<1>7. PlaceStored(chain, db, channel, filter.last, consumer) =>
        PlaceStored(chain', db, channel, filter.last, consumer)
  BY <1>2, <1>3, PlaceUp DEF Shapes
<1> QED BY <1>1, <1>5, <1>6, <1>7 DEF WhileSameChain, GetLastBlock

LEMMA ReplyComplete ==
  ASSUME Always, NEW q \in Request, Fits(Len(chain), q.range)
  PROVE  Complete(chain, Reply(q))
<1> DEFINE r == Reply(q)
<1>1. q.range \in RangeType
  BY DEF Request
<1>2. r.range = q.range /\ r.blocks = BlocksOf(q.range)
  BY DEF Reply
<1>3. /\ r \in Response /\ AnswerFits(Len(chain), r)
      /\ r.last # NoBlock =>
           q.range.to # latestBlockNumber /\ q.range.to \in DOMAIN chain /\ r.last = chain[q.range.to]
      /\ r.prev # NoBlock => q.range.from - 1 \in DOMAIN chain /\ r.prev = chain[q.range.from - 1]
  BY ReplyIs
<1> HIDE DEF r
<1>4. \A n \in DOMAIN chain : chain[n].n = n /\ n \in Nat /\ n <= MaxBlock
  BY ChainIs, Constants
<1>5. \A b \in r.blocks : OnL1(chain, b) /\ q.range.from <= b.n /\ b.n <= q.range.to
  BY <1>1, <1>2, BlocksOfIs DEF OnL1
<1>6. HighestIn(r) \in Nat /\ HighestIn(r) <= q.range.to /\ q.range.to \in Nat
  <2>1. HighestIn(r) \in Nat /\ HighestIn(r) <= MaxBlock
    BY <1>3, HighestInIs, Constants
  <2>2. q.range.to \in Nat
    BY <1>1, RangeIs
  <2>3. r.range.to # latestBlockNumber => HighestIn(r) = r.range.to
    BY <1>3, HighestInIs
  <2> QED BY <1>2, <2>1, <2>2, <2>3, Constants
<1>7. \A n \in DOMAIN chain :
        q.range.from <= n /\ n <= HighestIn(r) /\ chain[n].event => chain[n] \in r.blocks
  <2>1. \A n \in DOMAIN chain :
          q.range.from <= n /\ n <= q.range.to /\ chain[n].event => chain[n] \in r.blocks
    BY <1>1, <1>2, BlocksOfIs
  <2>2. \A n \in DOMAIN chain : n <= HighestIn(r) => n <= q.range.to
    BY <1>4, <1>6
  <2> QED BY <2>1, <2>2
<1>8. r.last # NoBlock =>
        OnL1(chain, r.last) /\ q.range.to # latestBlockNumber /\ r.last.n = q.range.to
  BY <1>3, <1>4 DEF OnL1
<1>9. r.prev # NoBlock => OnL1(chain, r.prev)
  BY <1>3, <1>4 DEF OnL1
<1>10. Complete(chain, r)
  BY <1>2, <1>5, <1>7, <1>8, <1>9 DEF Complete
<1> QED BY <1>10 DEF r

LEMMA ExecuteSame ==
  ASSUME Always, WhileSameChain, NEW w \in 1..NumWorkers, executeRequestRollupInfoByBlockRange(w)
  PROVE  WhileSameChain'
<1> DEFINE r == Reply(workers[w])
<1>1. workers[w] # NoRequest /\ Answered(w, r)
  BY DEF executeRequestRollupInfoByBlockRange, Reply
<1>2. workers[w] \in Request /\ Fits(Len(chain), workers[w].range)
  BY <1>1, RequestIs
<1>3. r \in Msg /\ Complete(chain, r)
  BY <1>2, ReplyIs, ReplyComplete DEF Msg
<1>4. /\ responses' = Append(responses, r)
      /\ UNCHANGED <<chain, db, filter, cmds, channel, consumer, main>>
  BY <1>1 DEF Answered, l1Vars
<1> HIDE DEF r
<1>5. AllComplete(chain, responses')
  BY <1>3, <1>4, ShapesHold, ReliableAppend DEF WhileSameChain, AnswersComplete, Shapes
<1> QED BY <1>4, <1>5, SameAnswers

LEMMA RequestFailsSame ==
  ASSUME Always, WhileSameChain, NEW w \in 1..NumWorkers, RequestFails(w)
  PROVE  WhileSameChain'
<1> DEFINE r == Failure(workers[w])
<1>1. workers[w] # NoRequest /\ Answered(w, r)
  BY DEF RequestFails, Failure
<1>2. workers[w].range \in RangeType
  BY <1>1, RequestIs
<1>3. r \in Msg /\ ~r.ok
  BY <1>2 DEF Failure, Response, Msg
<1>4. /\ responses' = Append(responses, r)
      /\ UNCHANGED <<chain, db, filter, cmds, channel, consumer, main>>
  BY <1>1 DEF Answered, l1Vars
<1> HIDE DEF r
<1>5. AllComplete(chain, responses')
  BY <1>3, <1>4, ShapesHold, ReliableAppend DEF WhileSameChain, AnswersComplete, Shapes
<1> QED BY <1>4, <1>5, SameAnswers

\* The steps of the producer that send nothing.
LEMMA QuietSame ==
  ASSUME Always, WhileSameChain,
         onResponseError \/ onResponseIgnored \/ Switch \/ StepIdle \/ StepWorking
           \/ launchWork \/ LaunchedAll
  PROVE  WhileSameChain'
<1>1. UNCHANGED <<chain, db, filter, cmds, channel, consumer, main>>
  BY DEF onResponseError, onResponseIgnored, Switch, StepIdle, StepWorking, launchWork,
         LaunchedAll, others, l1Vars
<1>2. responses' = responses \/ (responses # <<>> /\ responses' = Tail(responses))
  BY DEF onResponseError, onResponseIgnored, Switch, StepIdle, StepWorking, launchWork, LaunchedAll
<1>3. AllComplete(chain, responses')
  BY <1>2, ShapesHold, ReliableTail DEF WhileSameChain, AnswersComplete, Shapes
<1> QED BY <1>1, <1>3, SameAnswers

LEMMA OnResponseSame ==
  ASSUME Always, WhileSameChain, onResponseRollupInfo
  PROVE  WhileSameChain'
<1> DEFINE r == Head(responses)
<1>1. /\ responses # <<>> /\ r.ok /\ responses' = Tail(responses)
      /\ filter' = [filter EXCEPT !.pending = Append(@, r)]
      /\ UNCHANGED <<chain, db, cmds, channel, consumer, main>>
  BY DEF onResponseRollupInfo, others, l1Vars
<1>2. Shapes
  BY ShapesHold
<1>3. r \in Response /\ r \in Msg /\ r = responses[1] /\ 1 \in DOMAIN responses /\ ~IsControl(r)
  BY <1>1, <1>2, HeadResponse, TailElements, ResponseIs DEF Msg, Shapes
<1> HIDE DEF r
<1>4. filter'.last = filter.last /\ filter'.pending = Append(filter.pending, r)
  BY <1>1 DEF Always, TypeOK
<1>5. Complete(chain, r)
  BY <1>1, <1>3 DEF WhileSameChain, AnswersComplete, AllComplete
<1>6. AllComplete(chain, responses')
  BY <1>1, <1>2, ReliableTail DEF WhileSameChain, AnswersComplete, Shapes
<1>7. AllComplete(chain, filter'.pending) /\ AllOk(filter'.pending)
  BY <1>1, <1>2, <1>3, <1>4, <1>5, ReliableAppend DEF WhileSameChain, AnswersComplete, Shapes
<1>8. AnswersComplete'
  BY <1>1, <1>6, <1>7 DEF WhileSameChain, AnswersComplete
<1> QED BY <1>1, <1>4, <1>8 DEF WhileSameChain, GetLastBlock

\* A message more in the channel.
LEMMA PlaceAppend ==
  ASSUME NEW c, NEW d, NEW ch \in Seq(Msg), NEW m \in Msg, NEW last, NEW new, NEW k,
         IsControl(m) => new = last, ~IsControl(m) => m.range.from = last + 1,
         PlaceStored(c, d, ch, last, k)
  PROVE  PlaceStored(c, d, Append(ch, m), new, k)
<1>1. \A f \in Nat : NextIs(Append(ch, m), new, f) => NextIs(ch, last, f)
  BY NextOfAppend
<1> QED BY <1>1 DEF PlaceStored

LEMMA SendSame ==
  ASSUME Always, WhileSameChain, sendResultIfPossible
  PROVE  WhileSameChain'
<1>1. PICK i, r : SendFacts(i, r)
  BY SendIs
<1>2. UNCHANGED <<chain, db, responses, cmds, consumer, main>>
  BY DEF sendResultIfPossible, others, l1Vars
<1>3. Shapes
  BY ShapesHold
<1>4. /\ filter'.last = (IF HighestIn(r) = 0 THEN filter.last ELSE HighestIn(r))
      /\ filter'.pending = RemoveAt(filter.pending, i) /\ channel' = Append(channel, r)
      /\ r \in Msg /\ ~IsControl(r) /\ r = filter.pending[i] /\ i \in DOMAIN filter.pending
      /\ r.range.from = filter.last + 1
  BY <1>1, ResponseIs DEF SendFacts, Msg
<1>5. filter'.last + 1 = After(r)
  BY <1>4 DEF After, invalidBlockNumber
<1>6. r.ok /\ Complete(chain, r)
  BY <1>4 DEF WhileSameChain, AnswersComplete, AllComplete, AllOk
<1>7. AllComplete(chain, filter'.pending) /\ AllOk(filter'.pending)
  BY <1>3, <1>4, ReliableRemove DEF WhileSameChain, AnswersComplete, Shapes
<1>8. AllComplete(chain, channel') /\ AllOk(channel')
  BY <1>3, <1>4, <1>6, ReliableAppend DEF WhileSameChain, AnswersComplete, Shapes
<1>9. AnswersComplete'
  BY <1>2, <1>7, <1>8 DEF WhileSameChain, AnswersComplete
<1>10. Linked(channel', filter'.last)
  BY <1>3, <1>4, <1>5, LinkedAppend DEF WhileSameChain, Shapes
<1>11. PlaceStored(chain, db, channel, filter.last, consumer) =>
         PlaceStored(chain, db, channel', filter'.last, consumer)
  BY <1>3, <1>4, PlaceAppend DEF Shapes
<1> QED BY <1>2, <1>9, <1>10, <1>11 DEF WhileSameChain, GetLastBlock

LEMMA AnnounceSame ==
  ASSUME Always, WhileSameChain, Announce
  PROVE  WhileSameChain'
<1> DEFINE m == FullySynced(sync.lastBlockOnL1)
<1>1. At("announce") /\ channel' = Append(channel, m) /\ UNCHANGED <<chain, db, filter, responses, cmds, consumer, main>>
  BY DEF Announce, others, l1Vars
<1>2. Shapes
  BY ShapesHold
<1>3. m \in Msg /\ IsControl(m)
  <2>1. sync.lastBlockOnL1 # 0 /\ sync.lastBlockOnL1 \in 0..MaxBlock
    BY <1>1, AlwaysReader, SyncRecord
       DEF ReaderOK, SyncOK, IsNodeFullySynchronizedWithL1, invalidBlockNumber
  <2>2. sync.lastBlockOnL1 \in 1..MaxBlock
    BY <2>1, Constants
  <2> QED BY <2>2 DEF Msg, FullySynced, IsControl
<1> HIDE DEF m
<1>4. AllComplete(chain, channel') /\ AllOk(channel')
  BY <1>1, <1>2, <1>3, ReliableAppend DEF WhileSameChain, AnswersComplete, Shapes
<1>5. AnswersComplete'
  BY <1>1, <1>4 DEF WhileSameChain, AnswersComplete
<1>6. Linked(channel', filter.last)
  BY <1>1, <1>2, <1>3, LinkedAppend DEF WhileSameChain, Shapes
<1>7. PlaceStored(chain, db, channel, filter.last, consumer) =>
        PlaceStored(chain, db, channel', filter.last, consumer)
  BY <1>1, <1>2, <1>3, PlaceAppend DEF Shapes
<1> QED BY <1>1, <1>5, <1>6, <1>7 DEF WhileSameChain, GetLastBlock

LEMMA EmptyReliable == \A c : AllComplete(c, <<>>) /\ AllOk(<<>>)
BY DEF AllComplete, AllOk

LEMMA ResetUnsafeSame ==
  ASSUME Always, WhileSameChain, resetUnsafe
  PROVE  WhileSameChain'
<1> DEFINE n == Head(cmds)
<1>1. /\ cmds # <<>> /\ filter' = [last |-> n, pending |-> <<>>] /\ channel' = <<>>
      /\ cmds' = Tail(cmds) /\ UNCHANGED <<chain, db, responses, consumer, main>>
  BY DEF resetUnsafe, others, l1Vars
<1>2. Shapes
  BY ShapesHold
<1>3. /\ n \in 1..MaxBlock /\ n = cmds[1] /\ 1 \in DOMAIN cmds
      /\ \A i \in DOMAIN Tail(cmds) : i + 1 \in DOMAIN cmds /\ Tail(cmds)[i] = cmds[i + 1]
  BY <1>1, <1>2, TailElements DEF Shapes
<1>4. n \in Nat /\ n <= GetLastBlock.n /\ CmdsFit(GetLastBlock.n, cmds')
  BY <1>1, <1>3, Constants DEF WhileSameChain, ResetsFit, CmdsFit
<1> HIDE DEF n
<1>5. filter'.last = n /\ filter'.pending = <<>>
  BY <1>1
<1>6. AnswersComplete'
  BY <1>1, <1>5, EmptyReliable DEF WhileSameChain, AnswersComplete
<1>7. Linked(channel', filter'.last)
  BY <1>1, LinkedEmpty
<1>8. PlaceStored(chain, db, channel, filter.last, consumer) =>
        PlaceStored(chain, db, channel', filter'.last, consumer)
  <2>1. \A f \in Nat : NextIs(channel', filter'.last, f) => f - 1 = n
    BY <1>1, <1>4, <1>5, NextOfEmpty
  <2>2. StoredIn(chain, db, n)
    <3>1. GetLastBlock.n \in Int /\ n \in Int /\ StoredIn(chain, db, GetLastBlock.n)
      BY <1>2, <1>4 DEF Shapes, WhileSameChain, TableOnL1, GetLastBlock
    <3> QED BY <1>4, <3>1, StoredDown
  <2> QED BY <2>1, <2>2 DEF PlaceStored
<1> QED BY <1>1, <1>4, <1>6, <1>7, <1>8 DEF WhileSameChain, ResetsFit, GetLastBlock

LEMMA ProducerSame == Always /\ WhileSameChain /\ Producer => WhileSameChain'
BY ResetUnsafeSame, OnResponseSame, SendSame, QuietSame, AnnounceSame DEF Producer

-----------------------------------------------------------------------------
\* The consumer stores the first blocks of the next answer, or all of them.
StoreFacts(r, done) ==
  /\ r \in Response /\ AnswerFits(Len(chain), r) /\ Complete(chain, r)
  /\ StoredIn(chain, db, r.range.from - 1)
  /\ done \subseteq BlocksToStore(r)
  /\ \A b \in done, c \in BlocksToStore(r) : c.n <= b.n => c \in done

LEMMA ToStoreOnL1 ==
  ASSUME Always, NEW r \in Response, Complete(chain, r)
  PROVE  /\ BlocksToStore(r) \subseteq Block
         /\ \A b \in BlocksToStore(r) : OnL1(chain, b) /\ b.n <= HighestIn(r)
         /\ HighestIn(r) = 0 => BlocksToStore(r) = {} /\ HighestBlockReceived(r) = NoBlock
         /\ HighestBlockReceived(r) # NoBlock => OnL1(chain, HighestBlockReceived(r))
<1>1. r.blocks \subseteq Block /\ r.last \in Block \cup {NoBlock} /\ r.range \in RangeType
  BY ResponseIs
<1>2. /\ \A b \in r.blocks : OnL1(chain, b) /\ b.n <= r.range.to
      /\ r.last # NoBlock =>
           OnL1(chain, r.last) /\ r.range.to # latestBlockNumber /\ r.last.n = r.range.to
  BY DEF Complete
<1>3. \A b \in r.blocks : b.n <= HighestIn(r)
  <2>1. CASE r.range.to # latestBlockNumber
    BY <1>2, <2>1, HighestInIs
  <2>2. CASE r.range.to = latestBlockNumber
    BY <2>2, HighestInIs
  <2> QED BY <2>1, <2>2
<1>4. r.last # NoBlock => r.last.n = HighestIn(r)
  BY <1>2, HighestInIs
<1>5. \A b \in r.blocks : b.n \in Nat /\ b.n >= 1
  BY <1>1, BlockIs
<1>6. r.last # NoBlock => r.last.n \in Nat /\ r.last.n >= 1
  BY <1>1, BlockIs
<1>7. HighestIn(r) = 0 => r.blocks = {} /\ r.last = NoBlock
  BY <1>3, <1>4, <1>5, <1>6
<1>8. r.blocks # {} => Highest(r.blocks) \in r.blocks
  BY <1>1, HighestIs
<1>9. \A b \in BlocksToStore(r) : b \in r.blocks \/ (r.last # NoBlock /\ b = r.last)
  BY DEF BlocksToStore
<1>10. \A b \in BlocksToStore(r) : OnL1(chain, b)
  BY <1>2, <1>9
<1>11. \A b \in BlocksToStore(r) : b.n <= HighestIn(r)
  BY <1>3, <1>4, <1>6, <1>9
<1>12. BlocksToStore(r) \subseteq Block
  BY <1>1, <1>9
<1>13. HighestIn(r) = 0 => BlocksToStore(r) = {} /\ HighestBlockReceived(r) = NoBlock
  BY <1>7 DEF BlocksToStore, HighestBlockReceived
<1>14. HighestBlockReceived(r) # NoBlock => OnL1(chain, HighestBlockReceived(r))
  BY <1>2, <1>8 DEF HighestBlockReceived
<1> QED BY <1>10, <1>11, <1>12, <1>13, <1>14

LEMMA StoreStored ==
  ASSUME Always, NEW r, NEW done, StoreFacts(r, done)
  PROVE  /\ \A b \in done : StoredIn(chain, db \cup done, b.n)
         /\ done = BlocksToStore(r) => StoredIn(chain, db \cup done, HighestIn(r))
<1>1. /\ r \in Response /\ AnswerFits(Len(chain), r) /\ Complete(chain, r)
      /\ StoredIn(chain, db, r.range.from - 1)
      /\ done \subseteq BlocksToStore(r)
      /\ \A b \in done, c \in BlocksToStore(r) : c.n <= b.n => c \in done
  BY DEF StoreFacts
<1>2. /\ BlocksToStore(r) \subseteq Block
      /\ \A b \in BlocksToStore(r) : b.n <= HighestIn(r)
  BY <1>1, ToStoreOnL1
<1>3. HighestIn(r) \in Nat /\ HighestIn(r) <= Len(chain)
  BY <1>1, HighestInFits, ChainIs
<1>4. r.range.from \in Nat /\ r.range.from >= 1
  BY <1>1, ResponseIs, RangeIs
<1>5. /\ DOMAIN chain = 1..Len(chain) /\ Len(chain) \in Nat
      /\ \A n \in DOMAIN chain : chain[n].n = n
  BY ChainIs
<1>6. ASSUME NEW n \in Nat, GenesisBlockNum <= n, n <= HighestIn(r), chain[n].event
      PROVE  chain[n] \in db \/ (chain[n] \in BlocksToStore(r) /\ chain[n].n = n)
  <2>1. n \in DOMAIN chain
    BY <1>3, <1>5, <1>6, Constants
  <2>2. CASE n <= r.range.from - 1
    <3>1. n \in GenesisBlockNum..(r.range.from - 1)
      BY <1>4, <1>6, <2>2, Constants
    <3> QED BY <1>1, <1>6, <3>1 DEF StoredIn
  <2>3. CASE r.range.from <= n
    <3>1. chain[n] \in r.blocks
      BY <1>1, <1>6, <2>1, <2>3 DEF Complete
    <3> QED BY <1>5, <2>1, <3>1 DEF BlocksToStore
  <2> QED BY <1>4, <2>2, <2>3
<1>7. ASSUME NEW b \in done
      PROVE  StoredIn(chain, db \cup done, b.n)
  <2> SUFFICES ASSUME NEW n \in GenesisBlockNum..b.n, chain[n].event
               PROVE  chain[n] \in db \cup done
    BY DEF StoredIn
  <2>1. b.n \in Nat /\ b.n <= HighestIn(r) /\ b \in BlocksToStore(r)
    BY <1>1, <1>2, BlockIs
  <2>2. n \in Nat /\ GenesisBlockNum <= n /\ n <= b.n /\ n <= HighestIn(r)
    BY <1>3, <2>1, Constants
  <2>3. chain[n] \in db \/ (chain[n] \in BlocksToStore(r) /\ chain[n].n = n)
    BY <1>6, <2>2
  <2> QED BY <1>1, <2>2, <2>3
<1>8. ASSUME done = BlocksToStore(r)
      PROVE  StoredIn(chain, db \cup done, HighestIn(r))
  <2> SUFFICES ASSUME NEW n \in GenesisBlockNum..HighestIn(r), chain[n].event
               PROVE  chain[n] \in db \cup done
    BY DEF StoredIn
  <2>1. n \in Nat /\ GenesisBlockNum <= n /\ n <= HighestIn(r)
    BY <1>3, Constants
  <2> QED BY <1>6, <1>8, <2>1
<1> QED BY <1>7, <1>8

\* The table after it.
LEMMA StoreTable ==
  ASSUME Always, WhileSameChain, NEW r, NEW done, StoreFacts(r, done)
  PROVE  /\ TableOnL1(chain, db \cup done, HighestBlockReceived(r))
         /\ Highest(db \cup done).n \in Nat /\ GetLastBlock.n <= Highest(db \cup done).n
<1> DEFINE e == db \cup done
           top == Highest(e)
<1>1. r \in Response /\ Complete(chain, r) /\ done \subseteq BlocksToStore(r)
  BY DEF StoreFacts
<1>2. /\ BlocksToStore(r) \subseteq Block
      /\ \A b \in BlocksToStore(r) : OnL1(chain, b)
      /\ HighestBlockReceived(r) # NoBlock => OnL1(chain, HighestBlockReceived(r))
  BY <1>1, ToStoreOnL1
<1>3. Shapes /\ GetLastBlock \in db
  BY ShapesHold, LastIs
<1>4. e \subseteq Block /\ e # {}
  BY <1>1, <1>2, <1>3 DEF Shapes
<1>5. top \in e /\ top \in Block /\ \A c \in e : c.n <= top.n
  BY <1>4, HighestIs
<1>6. StoredIn(chain, e, top.n)
  <2>1. CASE top \in done
    BY <2>1, StoreStored
  <2>2. CASE top \in db
    <3>1. top.n <= GetLastBlock.n /\ top.n \in Int /\ GetLastBlock.n \in Int /\ GetLastBlock.n <= Len(chain)
      BY <1>3, <2>2, LastIs DEF Shapes
    <3>2. StoredIn(chain, db, GetLastBlock.n)
      BY DEF WhileSameChain, TableOnL1, GetLastBlock
    <3>3. StoredIn(chain, e, GetLastBlock.n)
      BY <3>2 DEF StoredIn
    <3> HIDE DEF top, e
    <3> QED BY <3>1, <3>3, StoredDown
  <2> QED BY <1>5, <2>1, <2>2
<1>7. \A b \in e : OnL1(chain, b)
  BY <1>1, <1>2 DEF WhileSameChain, TableOnL1
<1>8. top.n \in Nat /\ GetLastBlock.n <= top.n
  BY <1>3, <1>5, BlockIs
<1> QED BY <1>2, <1>6, <1>7, <1>8 DEF TableOnL1

\* A higher last block leaves the resets below it.
LEMMA ResetsUp ==
  ASSUME NEW a \in Nat, NEW b \in Nat, a <= b, NEW cs \in Seq(1..MaxBlock), NEW m,
         m.to \in Nat, ResetsFit(a, cs, m)
  PROVE  ResetsFit(b, cs, m)
<1>1. \A i \in DOMAIN cs : cs[i] \in Nat
  BY Constants
<1> QED BY <1>1 DEF ResetsFit, CmdsFit

\* The position of the consumer before an answer it takes.
LEMMA BeforeAnswer ==
  ASSUME Always, WhileSameChain, HeadFacts, ~IsControl(Head(channel)), ~WrongBlockRange(Head(channel))
  PROVE  /\ Head(channel) \in Response /\ AnswerFits(Len(chain), Head(channel))
         /\ Complete(chain, Head(channel))
         /\ StoredIn(chain, db, Head(channel).range.from - 1)
         /\ Data(channel, 1)
<1> DEFINE r == Head(channel)
<1>1. /\ r \in Response /\ AnswerFits(Len(chain), r) /\ r = channel[1] /\ 1 \in DOMAIN channel
      /\ channel # <<>> /\ consumer.pc = "run" /\ main.pc = "wait"
  BY DEF HeadFacts
<1>2. Data(channel, 1)
  BY <1>1 DEF Data
<1>3. Complete(chain, r)
  BY <1>1 DEF WhileSameChain, AnswersComplete, AllComplete, AllOk
<1>4. r.range.from \in Nat /\ r.range.from >= 1
  BY <1>1, ResponseIs, RangeIs
<1>5. PlaceStored(chain, db, channel, filter.last, consumer)
  BY <1>1 DEF WhileSameChain, Recovering
<1>6. Shapes
  BY ShapesHold
<1>7. consumer.processed = 0 \/ consumer.processed + 1 = r.range.from
  BY DEF WrongBlockRange, invalidBlockNumber
<1>8. CASE consumer.processed = 0
  <2>1. NextIs(channel, filter.last, r.range.from)
    BY <1>1, <1>2, <1>6, NextOfHead DEF Shapes
  <2>2. StoredIn(chain, db, r.range.from - 1)
    BY <1>4, <1>5, <1>8, <2>1 DEF PlaceStored
  <2> QED BY <1>1, <1>2, <1>3, <2>2
<1>9. CASE consumer.processed # 0 /\ consumer.processed + 1 = r.range.from
  <2>1. r.range.from - 1 = consumer.processed
    <3>1. consumer.processed \in Nat
      BY <1>6 DEF Shapes
    <3> HIDE DEF r
    <3> QED BY <1>4, <1>9, <3>1
  <2>2. StoredIn(chain, db, r.range.from - 1)
    BY <1>5, <1>9, <2>1 DEF PlaceStored
  <2> QED BY <1>1, <1>2, <1>3, <2>2
<1> QED BY <1>7, <1>8, <1>9

\* What every step of the consumer leaves.
LEMMA ChannelTaken ==
  ASSUME Always, WhileSameChain, HeadFacts, channel' = Tail(channel), UNCHANGED consumerOnly
  PROVE  /\ AnswersComplete' /\ Linked(channel', filter'.last)
         /\ UNCHANGED <<chain, filter, cmds, main>>
<1>1. UNCHANGED <<chain, filter, responses, cmds, main>>
  BY DEF consumerOnly, l1Vars, prodVars
<1>2. channel \in Seq(Msg) /\ channel # <<>>
  BY ShapesHold DEF Shapes, HeadFacts
<1>3. AllComplete(chain, channel') /\ AllOk(channel')
  BY <1>2, ReliableTail DEF WhileSameChain, AnswersComplete
<1>4. Linked(channel', filter.last)
  BY <1>2, LinkedTail DEF WhileSameChain
<1> QED BY <1>1, <1>3, <1>4 DEF WhileSameChain, AnswersComplete

LEMMA SkipSame ==
  ASSUME Always, WhileSameChain, processIncommingRollupControlData \/ IgnoreRange
  PROVE  WhileSameChain'
<1>1. /\ HeadFacts /\ channel' = Tail(channel) /\ UNCHANGED consumerOnly /\ db' = db
      /\ IsControl(Head(channel)) \/ consumer.processed # 0
  BY HeadIs DEF processIncommingRollupControlData, IgnoreRange, Take, WrongBlockRange, invalidBlockNumber
<1>2. /\ AnswersComplete' /\ Linked(channel', filter'.last)
      /\ UNCHANGED <<chain, filter, cmds, main>>
  BY <1>1, ChannelTaken
<1>3. consumer'.processed = consumer.processed /\ consumer'.received = consumer.received
  <2>1. consumer \in ConsumerType
    BY MainIs
  <2>2. CASE processIncommingRollupControlData
    BY <2>1, <2>2 DEF processIncommingRollupControlData, Take, ConsumerType
  <2>3. CASE IgnoreRange
    BY <2>3 DEF IgnoreRange, Take
  <2> QED BY <2>2, <2>3
<1>4. PlaceStored(chain, db, channel, filter.last, consumer)
  BY <1>1 DEF WhileSameChain, Recovering, HeadFacts
<1>5. PlaceStored(chain, db, channel', filter.last, consumer')
  <2>1. CASE consumer.processed # 0
    BY <1>3, <1>4, <2>1 DEF PlaceStored
  <2>2. CASE IsControl(Head(channel))
    <3>1. ~Data(channel, 1) /\ channel \in Seq(Msg) /\ channel # <<>>
      BY <1>1, <2>2, ShapesHold DEF Data, HeadFacts, Shapes
    <3>2. \A f \in Nat : NextIs(channel', filter.last, f) => NextIs(channel, filter.last, f)
      BY <1>1, <3>1, NextOfTail
    <3> QED BY <1>3, <1>4, <3>2 DEF PlaceStored
  <2> QED BY <1>1, <2>1, <2>2
<1> QED BY <1>1, <1>2, <1>3, <1>5 DEF WhileSameChain, GetLastBlock

\* On one and the same chain the consumer finds no reorganisation.
LEMMA FindReorgSame ==
  ASSUME Always, WhileSameChain, FindReorg
  PROVE  FALSE
<1> DEFINE r == Head(channel)
<1>1. /\ HeadFacts /\ ~IsControl(r) /\ ~WrongBlockRange(r)
      /\ consumer.received # NoBlock /\ r.prev # NoBlock
      /\ consumer.received.n = r.prev.n /\ consumer.received # r.prev
  BY HeadIs DEF FindReorg, checkPreviousBlocks
<1>2. Complete(chain, r)
  BY <1>1, BeforeAnswer
<1>3. OnL1(chain, r.prev) /\ OnL1(chain, consumer.received)
  BY <1>1, <1>2 DEF Complete, WhileSameChain, TableOnL1
<1> QED BY <1>1, <1>3 DEF OnL1

LEMMA ProcessSame ==
  ASSUME Always, WhileSameChain, NEW done, NEW pc \in {"run", "failed"},
         done \subseteq BlocksToStore(Head(channel)),
         \A b \in done, c \in BlocksToStore(Head(channel)) : c.n <= b.n => c \in done,
         pc = "run" => done = BlocksToStore(Head(channel)),
         processBlockRange(Head(channel), done, pc)
  PROVE  WhileSameChain'
<1> DEFINE r == Head(channel)
<1>1. /\ HeadFacts /\ ~IsControl(r) /\ ~WrongBlockRange(r)
  BY HeadIs DEF processBlockRange
<1>2. /\ db' = db \cup done /\ channel' = Tail(channel) /\ UNCHANGED consumerOnly
      /\ consumer'.pc = pc /\ consumer'.processed = HighestIn(r)
      /\ consumer'.received = HighestBlockReceived(r)
  BY DEF processBlockRange, Take
<1>3. /\ r \in Response /\ AnswerFits(Len(chain), r) /\ Complete(chain, r)
      /\ StoredIn(chain, db, r.range.from - 1) /\ Data(channel, 1)
  BY <1>1, BeforeAnswer
<1>4. StoreFacts(r, done)
  BY <1>3 DEF StoreFacts
<1>5. /\ AnswersComplete' /\ Linked(channel', filter'.last)
      /\ UNCHANGED <<chain, filter, cmds, main>>
  BY <1>1, <1>2, ChannelTaken
<1>6. r = channel[1] /\ channel # <<>> /\ main.pc = "wait"
  BY <1>1 DEF HeadFacts
<1> HIDE DEF r
<1>7. /\ TableOnL1(chain, db', consumer'.received)
      /\ Highest(db').n \in Nat /\ GetLastBlock.n <= Highest(db').n
  BY <1>2, <1>4, StoreTable
<1>8. ResetsFit(Highest(db').n, cmds, main)
  <2>1. cmds \in Seq(1..MaxBlock) /\ GetLastBlock.n \in Nat /\ main.to \in Nat
    BY ShapesHold, MainIs, Constants DEF Shapes
  <2>2. ResetsFit(GetLastBlock.n, cmds, main)
    BY DEF WhileSameChain
  <2> QED BY <1>7, <2>1, <2>2, ResetsUp
<1>9. ASSUME pc = "run"
      PROVE  PlaceStored(chain, db', channel', filter.last, consumer')
  <2>1. CASE HighestIn(r) # 0
    <3>1. StoredIn(chain, db', HighestIn(r))
      BY <1>2, <1>4, <1>9, StoreStored DEF r
    <3> QED BY <1>2, <2>1, <3>1 DEF PlaceStored
  <2>2. CASE HighestIn(r) = 0
    <3>1. channel \in Seq(Msg) /\ Linked(channel, filter.last)
      BY ShapesHold DEF Shapes, WhileSameChain
    <3>2. After(r) = r.range.from
      BY <2>2 DEF After, invalidBlockNumber
    <3>3. \A f \in Nat : NextIs(channel', filter.last, f) => f = r.range.from
      BY <1>2, <1>3, <1>6, <3>1, <3>2, NextOfTail
    <3>4. StoredIn(chain, db', r.range.from - 1)
      BY <1>2, <1>3 DEF StoredIn
    <3> QED BY <1>2, <2>2, <3>3, <3>4 DEF PlaceStored
  <2> QED BY <2>1, <2>2
<1>10. pc = "failed" => Recovering(main', consumer')
  BY <1>2, <1>5, <1>6 DEF Recovering
<1>11. ~Recovering(main', consumer') => PlaceStored(chain', db', channel', filter'.last, consumer')
  BY <1>5, <1>9, <1>10
<1> QED BY <1>5, <1>7, <1>8, <1>11 DEF WhileSameChain, GetLastBlock

LEMMA ConsumerSame ==
  ASSUME Always, WhileSameChain, Consumer
  PROVE  WhileSameChain'
<1> DEFINE blocks == BlocksToStore(Head(channel))
<1>1. CASE processIncommingRollupControlData \/ IgnoreRange
  BY <1>1, SkipSame
<1>2. CASE FindReorg
  BY <1>2, FindReorgSame
<1>3. CASE processIncommingRollupInfoData
  <2>1. processBlockRange(Head(channel), blocks, "run")
    BY <1>3 DEF processIncommingRollupInfoData
  <2> QED BY <2>1, ProcessSame
<1>4. CASE ProcessingFails
  <2>1. Incoming(TRUE)
    BY <1>4 DEF ProcessingFails
  <2>2. PICK b \in blocks : processBlockRange(Head(channel), {c \in blocks : c.n < b.n}, "failed")
    BY <1>4 DEF ProcessingFails
  <2>3. \A c \in blocks : c.n \in Nat
    <3>1. Head(channel) \in Response /\ AnswerFits(Len(chain), Head(channel))
      BY <2>1, HeadIs DEF HeadFacts
    <3> QED BY <3>1, BlocksToStoreIs, BlockIs
  <2> DEFINE done == {c \in blocks : c.n < b.n}
  <2>4. done \subseteq blocks /\ \A x \in done, c \in blocks : c.n <= x.n => c \in done
    BY <2>3
  <2> HIDE DEF done, blocks
  <2>5. processBlockRange(Head(channel), done, "failed")
    BY <2>2 DEF done
  <2> QED BY <2>4, <2>5, ProcessSame DEF blocks
<1> QED BY <1>1, <1>2, <1>3, <1>4 DEF Consumer

-----------------------------------------------------------------------------
(* Until a reorganisation: the main loop, the start and a crash            *)

\* A step of the main loop that leaves the table and the answers alone.
LEMMA MainFrame ==
  ASSUME Always, WhileSameChain,
         UNCHANGED <<chain, db, filter, responses>>, channel' = channel \/ channel' = <<>>,
         consumer'.received = consumer.received,
         ResetsFit(GetLastBlock.n, cmds', main'),
         ~Recovering(main', consumer') => PlaceStored(chain, db, channel', filter.last, consumer')
  PROVE  WhileSameChain'
<1>1. AllComplete(chain, channel') /\ AllOk(channel')
  BY EmptyReliable DEF WhileSameChain, AnswersComplete
<1>2. AnswersComplete'
  BY <1>1 DEF WhileSameChain, AnswersComplete
<1>3. Linked(channel', filter.last)
  BY LinkedEmpty DEF WhileSameChain
<1> QED BY <1>2, <1>3 DEF WhileSameChain, GetLastBlock

\* The events up to a stored block are stored.
LEMMA StoredBelow ==
  ASSUME Always, WhileSameChain, NEW n \in Nat, n <= GetLastBlock.n
  PROVE  StoredIn(chain, db, n)
<1>1. GetLastBlock.n \in Int /\ n \in Int /\ StoredIn(chain, db, GetLastBlock.n)
  BY ShapesHold DEF Shapes, WhileSameChain, TableOnL1, GetLastBlock
<1> QED BY <1>1, StoredDown

LEMMA StartSame ==
  ASSUME Always, WhileSameChain, Start
  PROVE  WhileSameChain'
<1> DEFINE p == IF consumer.processed = 0 THEN main.last.n ELSE consumer.processed
<1>1. /\ main.pc = "check"
      /\ consumer' = [consumer EXCEPT !.pc = "run", !.synced = main.last, !.processed = p]
      /\ main' = [main EXCEPT !.pc = "wait"]
      /\ UNCHANGED <<chain, db, filter, responses, cmds, channel>>
  BY DEF Start, mainOnly, l1Vars, invalidBlockNumber
<1> HIDE DEF p
<1>2. /\ consumer'.received = consumer.received /\ consumer'.processed = p /\ consumer'.pc = "run"
      /\ main'.pc = "wait" /\ main'.to = main.to
  BY <1>1, MainIs DEF ConsumerType, MainType
<1>3. p # 0 /\ StoredIn(chain, db, p)
  <2>1. CASE consumer.processed = 0
    <3>1. main.last.n \in Nat /\ main.last.n # 0 /\ main.last.n <= GetLastBlock.n
      BY MainIs, LastIs, Constants
    <3> QED BY <2>1, <3>1, StoredBelow DEF p
  <2>2. CASE consumer.processed # 0
    <3>1. PlaceStored(chain, db, channel, filter.last, consumer)
      BY <1>1 DEF WhileSameChain, Recovering
    <3> QED BY <2>2, <3>1 DEF PlaceStored, p
  <2> QED BY <2>1, <2>2
<1>4. PlaceStored(chain, db, channel', filter.last, consumer')
  BY <1>2, <1>3 DEF PlaceStored
<1>5. ResetsFit(GetLastBlock.n, cmds', main')
  BY <1>1, <1>2 DEF WhileSameChain, ResetsFit
<1> QED BY <1>1, <1>2, <1>4, <1>5, MainFrame

\* On one and the same chain the main loop finds no reorganisation.
LEMMA ResetStateSame ==
  ASSUME Always, WhileSameChain, resetState
  PROVE  FALSE
<1>1. ~OnChain(main.last) /\ main.last \in db
  BY MainIs DEF resetState
<1>2. OnL1(chain, main.last)
  BY <1>1 DEF WhileSameChain, TableOnL1
<1> QED BY <1>1, <1>2 DEF OnL1, OnChain

LEMMA ResumeSame ==
  ASSUME Always, WhileSameChain, Resume,
         UNCHANGED <<mainOnly, db, status, cmds, channel, consumer>>
  PROVE  WhileSameChain'
<1>1. /\ main'.pc = "reset" /\ main'.to = GetLastBlock.n
      /\ UNCHANGED <<chain, db, filter, responses, cmds, channel, consumer>>
  BY DEF Resume, mainOnly, l1Vars
<1>2. GetLastBlock.n \in Nat
  BY ShapesHold DEF Shapes
<1>3. ResetsFit(GetLastBlock.n, cmds', main')
  BY <1>1, <1>2 DEF WhileSameChain, ResetsFit
<1>4. Recovering(main', consumer')
  BY <1>1 DEF Recovering
<1> QED BY <1>1, <1>3, <1>4, MainFrame

LEMMA ResetSame ==
  ASSUME Always, WhileSameChain, reset
  PROVE  WhileSameChain'
<1>1. /\ main.pc = "reset"
      /\ consumer' = [consumer EXCEPT !.processed = main.to, !.synced = NoBlock]
      /\ main' = [main EXCEPT !.pc = "queue"] /\ channel' = <<>>
      /\ UNCHANGED <<chain, db, filter, responses, cmds>>
  BY DEF reset, mainOnly, l1Vars
<1>2. /\ consumer'.received = consumer.received /\ consumer'.processed = main.to
      /\ main'.pc = "queue" /\ main'.to = main.to
  BY <1>1, MainIs DEF ConsumerType, MainType
<1>3. main.to \in Nat /\ main.to # 0 /\ main.to <= GetLastBlock.n
  BY <1>1, MainIs, Constants DEF RestOK, WhileSameChain, ResetsFit
<1>4. StoredIn(chain, db, main.to)
  BY <1>3, StoredBelow
<1>5. PlaceStored(chain, db, channel', filter.last, consumer')
  BY <1>2, <1>3, <1>4 DEF PlaceStored
<1>6. ResetsFit(GetLastBlock.n, cmds', main')
  BY <1>1, <1>2, <1>3 DEF WhileSameChain, ResetsFit
<1> QED BY <1>1, <1>2, <1>5, <1>6, MainFrame

LEMMA QueueResetSame ==
  ASSUME Always, WhileSameChain, QueueReset
  PROVE  WhileSameChain'
<1>1. /\ main.pc = "queue" /\ cmds' = Append(cmds, main.to) /\ main' = [main EXCEPT !.pc = "check"]
      /\ UNCHANGED <<chain, db, filter, responses, channel, consumer>>
  BY DEF QueueReset, mainOnly, l1Vars
<1>2. main'.pc = "check" /\ main'.to = main.to
  BY <1>1, MainIs DEF MainType
<1>3. main.to \in 1..MaxBlock /\ main.to <= GetLastBlock.n
  BY <1>1, MainIs, Constants DEF RestOK, WhileSameChain, ResetsFit
<1>4. CmdsFit(GetLastBlock.n, cmds')
  <2>1. cmds \in Seq(1..MaxBlock) /\ CmdsFit(GetLastBlock.n, cmds)
    BY ShapesHold DEF Shapes, WhileSameChain, ResetsFit
  <2>2. /\ \A i \in DOMAIN cmds : i \in DOMAIN cmds' /\ cmds'[i] = cmds[i]
        /\ cmds'[Len(cmds) + 1] = main.to
        /\ \A i \in DOMAIN cmds' : i \in DOMAIN cmds \/ i = Len(cmds) + 1
    BY <1>1, <1>3, <2>1, AppendElements
  <2> QED BY <1>3, <2>1, <2>2 DEF CmdsFit
<1>5. ResetsFit(GetLastBlock.n, cmds', main')
  BY <1>2, <1>4 DEF ResetsFit
<1>6. PlaceStored(chain, db, channel', filter.last, consumer')
  BY <1>1 DEF WhileSameChain, Recovering
<1> QED BY <1>1, <1>5, <1>6, MainFrame

LEMMA OrchestrateSame ==
  ASSUME Always, WhileSameChain, orchestrate
  PROVE  WhileSameChain'
<1>1. main.pc = "wait" /\ UNCHANGED <<mainOnly, db, status, cmds, channel, consumer>>
  BY DEF orchestrate
<1>2. CASE consumer.pc = "failed" /\ Resume
  BY <1>1, <1>2, ResumeSame
<1>3. CASE consumer.pc = "ended" /\ main' = [main EXCEPT !.pc = "check", !.last = consumer.synced]
  <2>1. UNCHANGED <<chain, db, filter, responses, channel, cmds, consumer>>
    BY <1>1 DEF mainOnly, l1Vars
  <2>2. main'.pc = "check" /\ main'.to = main.to
    BY <1>3, MainIs DEF MainType
  <2>3. ResetsFit(GetLastBlock.n, cmds', main')
    BY <2>1, <2>2 DEF WhileSameChain, ResetsFit
  <2>4. PlaceStored(chain, db, channel', filter.last, consumer')
    BY <1>1, <1>3, <2>1 DEF WhileSameChain, Recovering
  <2> QED BY <2>1, <2>3, <2>4, MainFrame
<1> QED BY <1>2, <1>3 DEF orchestrate

LEMMA MainSame ==
  ASSUME Always, WhileSameChain, Main
  PROVE  WhileSameChain'
<1>1. CASE checkReorgError
  BY <1>1, ResumeSame DEF checkReorgError
<1> QED BY <1>1, StartSame, ResetStateSame, ResetSame, QueueResetSame, OrchestrateSame DEF Main

LEMMA CrashSame ==
  ASSUME Always, WhileSameChain, Crash
  PROVE  WhileSameChain'
<1> DEFINE n == GetLastBlock.n
<1>1. /\ filter' = newFilter /\ cmds' = <<n>> /\ responses' = <<>> /\ channel' = <<>>
      /\ consumer' = newConsumer(GetLastBlock) /\ main' = newMain(GetLastBlock)
      /\ UNCHANGED <<chain, db>>
  BY DEF Crash, Restart, l1Vars
<1>2. /\ filter'.last = 0 /\ filter'.pending = <<>> /\ main'.pc = "check"
      /\ consumer'.received = NoBlock /\ consumer'.processed = 0
  BY <1>1 DEF newFilter, newConsumer, newMain
<1>3. n \in Nat
  BY ShapesHold DEF Shapes
<1> HIDE DEF n
<1>4. AnswersComplete'
  BY <1>1, <1>2, EmptyReliable DEF AnswersComplete
<1>5. TableOnL1(chain, db, consumer'.received)
  BY <1>2 DEF WhileSameChain, TableOnL1
<1>6. ResetsFit(n, cmds', main')
  <2>1. DOMAIN <<n>> = {1} /\ <<n>>[1] = n /\ n <= n
    BY <1>3
  <2> QED BY <1>1, <1>2, <2>1 DEF ResetsFit, CmdsFit
<1>7. Linked(channel', filter'.last)
  BY <1>1, LinkedEmpty
<1>8. PlaceStored(chain, db, channel', filter'.last, consumer')
  <2>1. \A f \in Nat : NextIs(channel', filter'.last, f) => f - 1 = 0
    BY <1>1, <1>2, NextOfEmpty
  <2>2. StoredIn(chain, db, 0)
    BY <1>3, StoredBelow, LastIs, Constants
  <2> QED BY <1>2, <2>1, <2>2 DEF PlaceStored
<1> QED BY <1>1, <1>4, <1>5, <1>6, <1>7, <1>8 DEF WhileSameChain, GetLastBlock, n

LEMMA InitSame ==
  ASSUME Init
  PROVE  WhileSameChain
<1> DEFINE b == chain[GenesisBlockNum]
<1>1. /\ db = {b} /\ filter = newFilter /\ cmds = <<GenesisBlockNum>> /\ responses = <<>>
      /\ channel = <<>> /\ consumer = newConsumer(b) /\ main = newMain(b)
  BY DEF Init
<1>2. Always
  BY InitAlways
<1>3. /\ filter.last = 0 /\ filter.pending = <<>> /\ main.pc = "check"
      /\ consumer.received = NoBlock /\ consumer.processed = 0
  BY <1>1 DEF newFilter, newConsumer, newMain
<1>4. /\ GetLastBlock = b /\ b.n = GenesisBlockNum /\ GenesisBlockNum \in DOMAIN chain
      /\ GenesisBlockNum \in Nat
  BY <1>1, <1>2, LastIs, ChainIs, Constants
<1>5. AnswersComplete
  BY <1>1, <1>3, EmptyReliable DEF AnswersComplete
<1>6. TableOnL1(chain, db, consumer.received)
  <2>1. \A n \in GenesisBlockNum..GenesisBlockNum : n = GenesisBlockNum
    BY <1>4
  <2>2. StoredIn(chain, db, GenesisBlockNum)
    BY <1>1, <2>1 DEF StoredIn
  <2> QED BY <1>1, <1>3, <1>4, <2>2 DEF TableOnL1, OnL1, GetLastBlock
<1>7. ResetsFit(GenesisBlockNum, cmds, main)
  <2>1. /\ DOMAIN <<GenesisBlockNum>> = {1} /\ <<GenesisBlockNum>>[1] = GenesisBlockNum
        /\ GenesisBlockNum <= GenesisBlockNum
    BY <1>4
  <2> QED BY <1>1, <1>3, <2>1 DEF ResetsFit, CmdsFit
<1>8. Linked(channel, filter.last)
  BY <1>1, LinkedEmpty
<1>9. PlaceStored(chain, db, channel, filter.last, consumer)
  <2>1. \A f \in Nat : NextIs(channel, filter.last, f) => f - 1 = 0
    BY <1>1, <1>3, NextOfEmpty
  <2>2. StoredIn(chain, db, 0)
    BY Constants DEF StoredIn
  <2> QED BY <1>3, <2>1, <2>2 DEF PlaceStored
<1> QED BY <1>4, <1>5, <1>6, <1>7, <1>8, <1>9 DEF WhileSameChain

\* The kinds of faults seen are never forgotten.
LEMMA SeenGrows == [Next]_vars => faults.seen \subseteq faults'.seen
<1> SUFFICES ASSUME [Next]_vars PROVE faults.seen \subseteq faults'.seen
  OBVIOUS
<1>1. (\E kind : Fault(kind)) => faults.seen \subseteq faults'.seen
  BY DEF Fault
<1>2. UNCHANGED faults \/ \E kind : Fault(kind)
  BY DEF Next, vars, NewL1Block, L1Reorg, executeRequestRollupInfoByBlockRange, RequestFails,
         Producer, resetUnsafe, onResponseRollupInfo, onResponseError, onResponseIgnored,
         sendResultIfPossible, Switch, StepIdle, StepWorking, launchWork, LaunchedAll, Announce,
         others, Consumer, processIncommingRollupControlData, IgnoreRange, FindReorg,
         processIncommingRollupInfoData, ProcessingFails, Main, Start, resetState,
         checkReorgError, reset, QueueReset, orchestrate, Crash
<1> QED BY <1>1, <1>2

SameChain == "reorg" \notin faults.seen => WhileSameChain

LEMMA NextSame == Always /\ SameChain /\ [Next]_vars => SameChain'
<1> SUFFICES ASSUME Always, SameChain, [Next]_vars, "reorg" \notin faults'.seen
             PROVE  WhileSameChain'
  BY DEF SameChain
<1>1. WhileSameChain
  BY SeenGrows DEF SameChain
<1>2. CASE UNCHANGED vars
  <2>1. UNCHANGED responses /\ UNCHANGED <<chain, db, filter, cmds, channel, consumer, main>>
    BY <1>2 DEF vars, l1Vars, prodVars
  <2> QED BY <1>1, <2>1, SameAll
<1>3. CASE NewL1Block
  BY <1>1, <1>3, NewL1BlockSame
<1>4. CASE \E h \in GenesisBlockNum..MaxBlock - 1 : L1Reorg(h)
  BY <1>4 DEF L1Reorg, Fault
<1>5. CASE \E w \in 1..NumWorkers : executeRequestRollupInfoByBlockRange(w) \/ RequestFails(w)
  BY <1>1, <1>5, ExecuteSame, RequestFailsSame
<1>6. CASE Producer \/ Consumer \/ Main \/ Crash
  BY <1>1, <1>6, ProducerSame, ConsumerSame, MainSame, CrashSame
<1> QED BY <1>2, <1>3, <1>4, <1>5, <1>6 DEF Next

LEMMA SameHolds == Spec => [](Always /\ SameChain)
<1>1. Init => Always /\ SameChain
  BY InitAlways, InitSame DEF SameChain
<1>2. Always /\ SameChain /\ [Next]_vars => (Always /\ SameChain)'
  BY NextAlways, NextSame
<1> QED BY <1>1, <1>2, PTL DEF Spec

\* Until L1 is reorganised, every block with events up to the last stored one is
\* stored: whatever the order of the answers, the failed calls, the errors of the
\* consumer, the resets and the crashes, the reader skips no event.
THEOREM NoEventSkippedHolds == Spec => []NoEventSkipped
<1>1. SameChain => NoEventSkipped
  BY DEF SameChain, NoEventSkipped, WhileSameChain, TableOnL1, StoredIn, StoredUpTo, GetLastBlock
<1> QED BY <1>1, SameHolds, PTL

-----------------------------------------------------------------------------
(* Until anything fails: the ranges that are read                          *)

LEMMA BelowDown ==
  ASSUME NEW s \in SyncStatus, NEW p \in Int, NEW q \in Int, q <= p, Below(s, p)
  PROVE  Below(s, q)
<1>1. s.stored \in Nat /\ \A x \in s.processing : x.to \in Nat
  BY SyncIs, RangeIs
<1> QED BY <1>1 DEF Below

\* A new range is read.
Launched(s, o, r) ==
  /\ s \in SyncStatus /\ o \in SyncStatus /\ r \in RangeType
  /\ r.from \in Nat /\ r.to \in Nat /\ r.from >= 1 /\ r.from <= r.to
  /\ o.stored = s.stored /\ o.processing = s.processing \cup {r}
  /\ \A q \in s.processing : /\ q.to # latestBlockNumber /\ q.to < r.from
                             /\ q.from \in Nat /\ q.to \in Nat /\ q.from <= q.to
  /\ s.stored \in Nat /\ s.stored < r.from
  /\ s.requested \in Nat /\ o.requested \in Nat
  /\ r.to # latestBlockNumber => o.requested <= s.requested \/ o.requested <= r.to
  /\ Below(s, r.from - 1)
  /\ \A p \in Nat : Below(s, p) => p < r.from

LEMMA LaunchedIs ==
  ASSUME NEW t, NEW s \in SyncStatus, NEW o, SyncOK(t, o), NEW r, s.errors = <<>>,
         StartedFacts(s, Discard(s), o, r)
  PROVE  Launched(s, o, r) /\ o.errors = <<>>
<1>1. Discard(s) = s
  BY DiscardIs
<1>2. NewRangeFacts(s, s, r) /\ o.errors = <<>>
  BY <1>1 DEF StartedFacts
<1>3. /\ r \in RangeType /\ o.stored = s.stored /\ o.processing = s.processing \cup {r}
      /\ o.requested \in Nat
      /\ r.to # latestBlockNumber => o.requested = IF s.requested <= r.to THEN r.to ELSE s.requested
  BY DEF StartedFacts
<1>4. o \in SyncStatus
  BY DEF SyncOK
<1>5. s.stored \in Nat /\ s.requested \in Nat /\ \A q \in s.processing : q \in RangeType
  BY SyncIs
<1>6. r.from \in Nat /\ r.to \in Nat /\ r.from >= 1 /\ r.from <= r.to
  BY <1>3, RangeIs
<1>7. \A q \in s.processing : q.from \in Nat /\ q.to \in Nat /\ q.from <= q.to
  BY <1>5, RangeIs
<1>8. /\ \A q \in s.processing : q.to # latestBlockNumber /\ q.to < r.from
      /\ s.stored < r.from
      /\ r.from - 1 = s.stored \/ \E q \in s.processing : r.from - 1 = q.to
  BY <1>2 DEF NewRangeFacts
<1>9. Below(s, r.from - 1)
  BY <1>5, <1>6, <1>7, <1>8 DEF Below
<1>10. \A p \in Nat : Below(s, p) => p < r.from
  BY <1>5, <1>6, <1>7, <1>8 DEF Below
<1>11. r.to # latestBlockNumber => o.requested <= s.requested \/ o.requested <= r.to
  BY <1>3, <1>5, <1>6
<1> QED BY <1>2, <1>3, <1>4, <1>5, <1>6, <1>7, <1>8, <1>9, <1>10, <1>11 DEF Launched

LEMMA LaunchedBelow ==
  ASSUME NEW s, NEW o, NEW r, Launched(s, o, r), NEW p \in Int
  PROVE  Below(o, p) <=> Below(s, p) \/ (r.to # latestBlockNumber /\ p <= r.to)
BY DEF Launched, Below

LEMMA LaunchedTiled ==
  ASSUME NEW s, NEW o, NEW r, Launched(s, o, r), NEW fl, fl.last \in Nat, Tiled(s, fl)
  PROVE  Tiled(o, fl)
<1> SUFFICES ASSUME NEW p \in Nat, fl.last < p, Below(o, p)
             PROVE  \/ \E i \in DOMAIN fl.pending :
                         fl.pending[i].range.from <= p /\ p <= HighestIn(fl.pending[i])
                    \/ \E q \in o.processing : q.from <= p /\ p <= q.to
  BY DEF Tiled
<1>1. /\ r.from \in Nat /\ r.to \in Nat /\ s \in SyncStatus /\ Below(s, r.from - 1)
      /\ o.processing = s.processing \cup {r}
  BY DEF Launched
<1>2. CASE Below(s, p)
  BY <1>1, <1>2 DEF Tiled
<1>3. CASE ~Below(s, p)
  <2>1. p <= r.to
    BY <1>3, LaunchedBelow
  <2>2. r.from <= p
    <3>1. CASE p <= r.from - 1
      BY <1>1, <1>3, <3>1, BelowDown
    <3> QED BY <1>1, <3>1
  <2> QED BY <1>1, <2>1, <2>2
<1> QED BY <1>2, <1>3

LEMMA LaunchedLatest ==
  ASSUME NEW s, NEW o, NEW r, Launched(s, o, r), LatestIsLast(s)
  PROVE  LatestIsLast(o)
<1> SUFFICES ASSUME NEW q \in o.processing, q.to = latestBlockNumber
             PROVE  ~Below(o, q.from) /\ Below(o, q.from - 1)
  BY DEF LatestIsLast
<1>1. q = r
  BY DEF Launched
<1>2. r.from \in Nat /\ r.from \in Int /\ r.from - 1 \in Int /\ Below(s, r.from - 1) /\ ~Below(s, r.from)
  BY DEF Launched
<1> QED BY <1>1, <1>2, LaunchedBelow

LEMMA LaunchedEvents ==
  ASSUME NEW s, NEW o, NEW r, Launched(s, o, r), NEW c \in Seq(Block), EventsCovered(c, s)
  PROVE  EventsCovered(c, o)
<1> SUFFICES ASSUME NEW n \in DOMAIN c, c[n].event, n <= o.requested, ~Below(o, n)
             PROVE  \E q \in o.processing : q.to = latestBlockNumber
  BY DEF EventsCovered
<1>1. n \in Nat /\ n \in Int
  OBVIOUS
<1>2. /\ o.processing = s.processing \cup {r} /\ r.to \in Nat
      /\ s.requested \in Nat /\ o.requested \in Nat
      /\ r.to # latestBlockNumber => o.requested <= s.requested \/ o.requested <= r.to
  BY DEF Launched
<1>3. CASE r.to = latestBlockNumber
  BY <1>2, <1>3
<1>4. CASE r.to # latestBlockNumber
  <2>1. ~Below(s, n) /\ ~(n <= r.to)
    BY <1>1, <1>4, LaunchedBelow
  <2>2. n <= s.requested
    BY <1>1, <1>2, <1>4, <2>1
  <2>3. \E q \in s.processing : q.to = latestBlockNumber
    BY <2>1, <2>2 DEF EventsCovered
  <2> QED BY <1>2, <2>3
<1> QED BY <1>3, <1>4

LEMMA LaunchedPlaces ==
  ASSUME NEW s, NEW o, NEW r, Launched(s, o, r), NEW fl, fl.last \in Nat,
         fl.pending \in Seq(Response), PendingPlaces(s, fl), ReadApart(s, fl.pending)
  PROVE  PendingPlaces(o, fl) /\ ReadApart(o, fl.pending)
<1>1. /\ r.from \in Nat /\ o.stored = s.stored /\ s.stored \in Nat /\ s.stored < r.from
      /\ o.processing = s.processing \cup {r} /\ \A p \in Nat : Below(s, p) => p < r.from
  BY DEF Launched
<1>2. ASSUME NEW i \in DOMAIN fl.pending
      PROVE  /\ fl.pending[i].range.from \in Nat /\ fl.pending[i].range.from >= 1
             /\ HighestIn(fl.pending[i]) \in Nat
             /\ fl.last < fl.pending[i].range.from
             /\ HighestIn(fl.pending[i]) <= s.stored
             /\ Below(s, fl.pending[i].range.from - 1)
  <2>1. fl.pending[i] \in Response
    OBVIOUS
  <2>2. HighestIn(fl.pending[i]) \in Nat
    BY <2>1, HighestInIs, Constants
  <2> QED BY <2>1, <2>2, ResponseIs, RangeIs DEF PendingPlaces
<1>3. fl.last < r.from
  BY <1>1 DEF PendingPlaces
<1>4. \A i \in DOMAIN fl.pending : Below(o, fl.pending[i].range.from - 1)
  <2>1. \A p \in Int : Below(s, p) => Below(o, p)
    BY LaunchedBelow
  <2> QED BY <1>2, <2>1
<1>5. PendingPlaces(o, fl)
  BY <1>1, <1>2, <1>3, <1>4 DEF PendingPlaces
<1>6. ASSUME NEW i \in DOMAIN fl.pending
      PROVE  /\ r.from <= fl.pending[i].range.from => r.from = fl.pending[i].range.from
             /\ ~(r.from <= HighestIn(fl.pending[i]))
  <2>1. /\ fl.pending[i].range.from \in Nat /\ fl.pending[i].range.from >= 1
        /\ HighestIn(fl.pending[i]) \in Nat /\ HighestIn(fl.pending[i]) <= s.stored
        /\ Below(s, fl.pending[i].range.from - 1)
    BY <1>2
  <2>2. fl.pending[i].range.from - 1 \in Nat
    BY <2>1
  <2>3. fl.pending[i].range.from - 1 < r.from
    BY <1>1, <2>1, <2>2
  <2> QED BY <1>1, <2>1, <2>3
<1>7. ReadApart(o, fl.pending)
  BY <1>1, <1>6 DEF ReadApart
<1> QED BY <1>5, <1>7

\* An answer arrives.
Received(s, o, r) ==
  /\ s \in SyncStatus /\ o \in SyncStatus /\ Disjoint(s)
  /\ r \in Response /\ r.range \in s.processing
  /\ r.range.from \in Nat /\ r.range.to \in Nat /\ r.range.from >= 1
  /\ r.range.from <= r.range.to /\ r.range.to <= latestBlockNumber
  /\ HighestIn(r) \in Nat /\ HighestIn(r) <= r.range.to
  /\ r.range.to # latestBlockNumber => HighestIn(r) = r.range.to
  /\ o.processing = s.processing \ {r.range} /\ o.requested = s.requested
  /\ s.stored \in Nat /\ o.stored \in Nat /\ s.stored <= o.stored /\ HighestIn(r) <= o.stored
  /\ o.stored = s.stored \/ o.stored = HighestIn(r)
  /\ \A q \in s.processing : q.from \in Nat /\ q.to \in Nat /\ q.from <= q.to

LEMMA ReceivedBelow ==
  ASSUME NEW s, NEW o, NEW r, Received(s, o, r), NEW p \in Int
  PROVE  /\ Below(s, p) => Below(o, p)
         /\ Below(o, p) => Below(s, p) \/ p <= HighestIn(r)
         /\ r.range.to # latestBlockNumber => (Below(o, p) => Below(s, p))
BY DEF Received, Below

LEMMA ReceivedApart ==
  ASSUME NEW s, NEW o, NEW r, Received(s, o, r), NEW q \in o.processing
  PROVE  /\ ~Overlaps(q, r.range) /\ q \in s.processing
         /\ q.from \in Nat /\ q.to \in Nat /\ q.from <= q.to
         /\ r.range.to = latestBlockNumber => q.to # latestBlockNumber
<1>1. q \in s.processing /\ q # r.range /\ r.range \in s.processing
  BY DEF Received
<1>2. ~Overlaps(q, r.range)
  BY <1>1 DEF Received, Disjoint
<1>3. /\ q.from \in Nat /\ q.to \in Nat /\ q.from <= q.to
      /\ r.range.from \in Nat /\ r.range.to \in Nat /\ r.range.from <= r.range.to
  BY <1>1 DEF Received
<1> QED BY <1>1, <1>2, <1>3 DEF Overlaps

LEMMA ReceivedTiled ==
  ASSUME NEW s, NEW o, NEW r, Received(s, o, r), NEW fl, fl.last \in Nat,
         fl.pending \in Seq(Response), Tiled(s, fl), LatestIsLast(s),
         NEW gl, gl.last = fl.last, gl.pending = Append(fl.pending, r)
  PROVE  Tiled(o, gl)
<1> DEFINE m == Len(fl.pending) + 1
<1> SUFFICES ASSUME NEW p \in Nat, fl.last < p, Below(o, p)
             PROVE  \/ \E i \in DOMAIN gl.pending :
                         gl.pending[i].range.from <= p /\ p <= HighestIn(gl.pending[i])
                    \/ \E q \in o.processing : q.from <= p /\ p <= q.to
  BY DEF Tiled
<1>1. /\ r.range.from \in Nat /\ r.range.to \in Nat /\ s \in SyncStatus /\ r \in Response
      /\ r.range \in s.processing /\ HighestIn(r) \in Nat
      /\ r.range.to # latestBlockNumber => HighestIn(r) = r.range.to
      /\ o.processing = s.processing \ {r.range}
  BY DEF Received
<1>2. /\ \A i \in DOMAIN fl.pending : i \in DOMAIN gl.pending /\ gl.pending[i] = fl.pending[i]
      /\ m \in DOMAIN gl.pending /\ gl.pending[m] = r
  BY <1>1, AppendElements
<1> HIDE DEF m
<1>3. CASE r.range.from <= p /\ p <= HighestIn(r)
  BY <1>2, <1>3
<1>4. CASE ~(r.range.from <= p /\ p <= HighestIn(r))
  <2>1. Below(s, p)
    <3>1. CASE p <= HighestIn(r) /\ r.range.to = latestBlockNumber
      <4>1. p <= r.range.from - 1 /\ r.range.from - 1 \in Int /\ p \in Int
        BY <1>1, <1>4, <3>1
      <4>2. Below(s, r.range.from - 1)
        BY <1>1, <3>1 DEF LatestIsLast
      <4> QED BY <1>1, <4>1, <4>2, BelowDown
    <3> QED BY <3>1, ReceivedBelow
  <2>2. ASSUME r.range.from <= p, p <= r.range.to
        PROVE  FALSE
    <3>1. r.range.to = latestBlockNumber
      BY <1>1, <1>4, <2>2
    <3>2. ~Below(s, r.range.from)
      BY <1>1, <3>1 DEF LatestIsLast
    <3>3. p \in Int /\ r.range.from \in Int
      BY <1>1
    <3> QED BY <1>1, <2>1, <2>2, <3>2, <3>3, BelowDown
  <2>3. \/ \E i \in DOMAIN fl.pending :
             fl.pending[i].range.from <= p /\ p <= HighestIn(fl.pending[i])
        \/ \E q \in s.processing : q.from <= p /\ p <= q.to
    BY <2>1 DEF Tiled
  <2> QED BY <1>1, <1>2, <2>2, <2>3
<1> QED BY <1>3, <1>4

LEMMA ReceivedLatest ==
  ASSUME NEW s, NEW o, NEW r, Received(s, o, r), LatestIsLast(s)
  PROVE  LatestIsLast(o)
<1> SUFFICES ASSUME NEW q \in o.processing, q.to = latestBlockNumber
             PROVE  ~Below(o, q.from) /\ Below(o, q.from - 1)
  BY DEF LatestIsLast
<1>1. q \in s.processing /\ q.from \in Nat /\ r.range.to # latestBlockNumber
  BY ReceivedApart
<1>2. ~Below(s, q.from) /\ Below(s, q.from - 1)
  BY <1>1 DEF LatestIsLast
<1>3. q.from \in Int /\ q.from - 1 \in Int
  BY <1>1
<1> QED BY <1>1, <1>2, <1>3, ReceivedBelow

LEMMA ReceivedEvents ==
  ASSUME NEW s, NEW o, NEW r, Received(s, o, r), NEW c \in Seq(Block), EventsCovered(c, s),
         LatestIsLast(s), \A n \in DOMAIN c : c[n].n = n,
         \A n \in DOMAIN c :
           r.range.to = latestBlockNumber /\ r.range.from <= n /\ n <= s.requested /\ c[n].event =>
             c[n] \in r.blocks
  PROVE  EventsCovered(c, o)
<1> SUFFICES ASSUME NEW n \in DOMAIN c, c[n].event, n <= o.requested, ~Below(o, n)
             PROVE  \E q \in o.processing : q.to = latestBlockNumber
  BY DEF EventsCovered
<1>1. n \in Nat /\ n \in Int
  OBVIOUS
<1>2. ~Below(s, n)
  BY <1>1, ReceivedBelow
<1>3. /\ o.processing = s.processing \ {r.range} /\ o.requested = s.requested /\ s \in SyncStatus
      /\ r \in Response /\ r.range.from \in Nat /\ HighestIn(r) <= o.stored
      /\ HighestIn(r) \in Nat /\ o.stored \in Nat
  BY DEF Received
<1>4. PICK q \in s.processing : q.to = latestBlockNumber
  BY <1>2, <1>3 DEF EventsCovered
<1>5. CASE q # r.range
  BY <1>3, <1>4, <1>5
<1>6. CASE q = r.range
  <2>1. Below(s, r.range.from - 1) /\ r.range.from - 1 \in Int
    BY <1>3, <1>4, <1>6 DEF LatestIsLast
  <2>2. ~(n <= r.range.from - 1)
    BY <1>1, <1>2, <1>3, <2>1, BelowDown
  <2>3. r.range.from <= n
    BY <1>1, <1>3, <2>2
  <2>4. c[n] \in r.blocks
    BY <1>3, <1>4, <1>6, <2>3
  <2>5. c[n].n <= HighestIn(r)
    BY <1>3, <1>4, <1>6, <2>4, HighestInIs
  <2>6. n <= o.stored
    BY <1>1, <1>3, <2>5
  <2> QED BY <2>6 DEF Below
<1> QED BY <1>5, <1>6

LEMMA ReceivedPlaces ==
  ASSUME NEW s, NEW o, NEW r, Received(s, o, r), NEW fl, fl.last \in Nat,
         fl.pending \in Seq(Response), PendingPlaces(s, fl), LatestIsLast(s),
         NEW gl, gl.last = fl.last, gl.pending = Append(fl.pending, r)
  PROVE  PendingPlaces(o, gl)
<1> DEFINE m == Len(fl.pending) + 1
<1>1. /\ r.range.from \in Nat /\ r.range.to \in Nat /\ s \in SyncStatus /\ r \in Response
      /\ r.range.from <= r.range.to
      /\ r.range \in s.processing /\ HighestIn(r) \in Nat /\ HighestIn(r) <= o.stored
      /\ s.stored \in Nat /\ o.stored \in Nat /\ s.stored <= o.stored
      /\ r.range.to # latestBlockNumber => HighestIn(r) = r.range.to
      /\ o.processing = s.processing \ {r.range}
  BY DEF Received
<1>2. /\ \A i \in DOMAIN gl.pending : i \in DOMAIN fl.pending \/ i = m
      /\ \A i \in DOMAIN fl.pending : gl.pending[i] = fl.pending[i] /\ fl.pending[i] \in Response
      /\ gl.pending[m] = r
  BY <1>1, AppendElements
<1> HIDE DEF m
<1>3. fl.last <= o.stored /\ (\A q \in o.processing : fl.last < q.from) /\ fl.last < r.range.from
  BY <1>1 DEF PendingPlaces
<1>4. Below(o, r.range.from - 1)
  <2>1. r.range.from - 1 \in Int
    BY <1>1
  <2>2. CASE r.range.to = latestBlockNumber
    BY <1>1, <2>1, <2>2, ReceivedBelow DEF LatestIsLast
  <2>3. CASE r.range.to # latestBlockNumber
    BY <1>1, <2>3 DEF Below
  <2> QED BY <2>2, <2>3
<1>5. ASSUME NEW i \in DOMAIN fl.pending
      PROVE  /\ fl.last < fl.pending[i].range.from
             /\ HighestIn(fl.pending[i]) <= o.stored
             /\ Below(o, fl.pending[i].range.from - 1)
  <2>1. /\ fl.last < fl.pending[i].range.from
        /\ HighestIn(fl.pending[i]) <= s.stored
        /\ Below(s, fl.pending[i].range.from - 1)
    BY DEF PendingPlaces
  <2>0. fl.pending[i] \in Response
    BY <1>2
  <2>2. fl.pending[i].range.from - 1 \in Int /\ HighestIn(fl.pending[i]) \in Nat
    <3>1. HighestIn(fl.pending[i]) \in Nat
      BY <2>0, HighestInIs, Constants
    <3> QED BY <2>0, <3>1, ResponseIs, RangeIs
  <2> QED BY <1>1, <2>1, <2>2, ReceivedBelow
<1> QED BY <1>1, <1>2, <1>3, <1>4, <1>5 DEF PendingPlaces

LEMMA ReceivedPending ==
  ASSUME NEW s, NEW o, NEW r, Received(s, o, r), NEW ps \in Seq(Response),
         PendingApart(ps), ReadApart(s, ps)
  PROVE  PendingApart(Append(ps, r)) /\ ReadApart(o, Append(ps, r))
<1> DEFINE m == Len(ps) + 1
           a == Append(ps, r)
<1>1. /\ r.range.from \in Nat /\ r.range.to \in Nat /\ r \in Response
      /\ r.range.from <= r.range.to /\ r.range \in s.processing
      /\ HighestIn(r) \in Nat /\ HighestIn(r) <= r.range.to
      /\ o.processing = s.processing \ {r.range}
  BY DEF Received
<1>2. /\ \A i \in DOMAIN a : i \in DOMAIN ps \/ i = m
      /\ \A i \in DOMAIN ps : a[i] = ps[i] /\ ps[i] \in Response /\ i \in Nat /\ i < m
      /\ a[m] = r /\ m \in Nat
  BY <1>1, AppendElements
<1>3. \A i \in DOMAIN ps : ps[i].range.from \in Nat
  BY <1>2, ResponseIs, RangeIs
<1> HIDE DEF a, m
<1>4. ASSUME NEW i \in DOMAIN ps
      PROVE  /\ ~StartsWithin(r, ps[i])
             /\ StartsWithin(ps[i], r) => r.range.from = ps[i].range.from
  <2>1. /\ ~(ps[i].range.from <= r.range.from /\ r.range.from <= HighestIn(ps[i]))
        /\ r.range.from <= ps[i].range.from /\ ps[i].range.from <= r.range.to =>
             r.range.from = ps[i].range.from
    BY <1>1 DEF ReadApart
  <2> QED BY <1>1, <1>3, <2>1 DEF StartsWithin
<1>5. PendingApart(a)
  <2> SUFFICES ASSUME NEW i \in DOMAIN a, NEW j \in DOMAIN a, i # j, StartsWithin(a[i], a[j])
               PROVE  a[j].range.from = a[i].range.from /\ i < j
    BY DEF PendingApart
  <2>1. CASE i \in DOMAIN ps /\ j \in DOMAIN ps
    BY <1>2, <2>1 DEF PendingApart
  <2>2. CASE i \in DOMAIN ps /\ j = m
    BY <1>2, <1>4, <2>2
  <2>3. CASE i = m /\ j \in DOMAIN ps
    BY <1>2, <1>4, <2>3
  <2> QED BY <1>2, <2>1, <2>2, <2>3
<1>6. ReadApart(o, a)
  <2> SUFFICES ASSUME NEW q \in o.processing, NEW i \in DOMAIN a
               PROVE  /\ q.from <= a[i].range.from /\ a[i].range.from <= q.to =>
                           q.from = a[i].range.from
                      /\ ~(a[i].range.from <= q.from /\ q.from <= HighestIn(a[i]))
    BY DEF ReadApart
  <2>1. CASE i \in DOMAIN ps
    BY <1>1, <1>2, <2>1 DEF ReadApart
  <2>2. CASE i = m
    <3>1. ~Overlaps(q, r.range) /\ q.from \in Nat /\ q.to \in Nat /\ q.from <= q.to
      BY ReceivedApart
    <3> QED BY <1>1, <1>2, <2>2, <3>1 DEF Overlaps
  <2> QED BY <1>2, <2>1, <2>2
<1> QED BY <1>5, <1>6 DEF a

-----------------------------------------------------------------------------
-----------------------------------------------------------------------------
(* Until anything fails: the answers on their way to the consumer          *)

\* The place that element k of a sequence has had before the one at i was taken.
Was(i, k) == IF k < i THEN k ELSE k + 1

\* RemoveAt takes one element and keeps the order of the others.
LEMMA Removed ==
  ASSUME NEW S, NEW s \in Seq(S), NEW i \in DOMAIN s, NEW o, o = RemoveAt(s, i)
  PROVE  /\ \A k \in DOMAIN o : Was(i, k) \in DOMAIN s /\ Was(i, k) # i /\ o[k] = s[Was(i, k)]
         /\ \A k, m \in DOMAIN o : k # m => Was(i, k) # Was(i, m)
         /\ \A k, m \in DOMAIN o : Was(i, k) < Was(i, m) => k < m
         /\ \A j \in DOMAIN s : j # i => \E k \in DOMAIN o : o[k] = s[j]
<1>1. /\ o \in Seq(S) /\ Len(o) = Len(s) - 1 /\ Len(s) \in Nat
      /\ \A k \in DOMAIN o : o[k] = IF k < i THEN s[k] ELSE s[k + 1]
  BY RemoveAtElements
<1>2. DOMAIN o = 1..(Len(s) - 1) /\ DOMAIN s = 1..Len(s) /\ i \in 1..Len(s)
  BY <1>1
<1>3. \A k \in DOMAIN o : Was(i, k) \in DOMAIN s /\ Was(i, k) # i /\ o[k] = s[Was(i, k)]
  BY <1>1, <1>2 DEF Was
<1>4. /\ \A k, m \in DOMAIN o : k # m => Was(i, k) # Was(i, m)
      /\ \A k, m \in DOMAIN o : Was(i, k) < Was(i, m) => k < m
  BY <1>1, <1>2 DEF Was
<1>5. ASSUME NEW j \in DOMAIN s, j # i
      PROVE  \E k \in DOMAIN o : o[k] = s[j]
  <2>1. CASE j < i
    <3>1. j \in DOMAIN o /\ o[j] = s[j]
      BY <1>1, <1>2, <2>1
    <3> QED BY <3>1
  <2>2. CASE i < j
    <3>1. j - 1 \in DOMAIN o /\ ~(j - 1 < i) /\ (j - 1) + 1 = j
      BY <1>1, <1>2, <2>2
    <3>2. o[j - 1] = s[j]
      BY <1>1, <3>1
    <3> QED BY <3>1, <3>2
  <2> QED BY <1>1, <1>2, <1>5, <2>1, <2>2
<1> QED BY <1>3, <1>4, <1>5

\* The filter sends answer r, the one at i.
Sent(fl, gl, i, r) ==
  /\ fl.pending \in Seq(Response) /\ fl.last \in Nat /\ gl.last \in Nat
  /\ i \in DOMAIN fl.pending /\ i \in Nat /\ r = fl.pending[i] /\ r \in Response
  /\ r.range.from = fl.last + 1
  /\ \A j \in DOMAIN fl.pending : fl.pending[j].range.from = fl.last + 1 => i <= j
  /\ HighestIn(r) \in Nat /\ (HighestIn(r) # 0 => r.range.from <= HighestIn(r))
  /\ gl.last = (IF HighestIn(r) = 0 THEN fl.last ELSE HighestIn(r))
  /\ gl.pending = RemoveAt(fl.pending, i)

LEMMA PendingNumbers ==
  ASSUME NEW ps \in Seq(Response), NEW j \in DOMAIN ps
  PROVE  ps[j].range.from \in Nat /\ ps[j].range.from >= 1 /\ HighestIn(ps[j]) \in Nat
<1>1. ps[j] \in Response
  OBVIOUS
<1>2. HighestIn(ps[j]) \in Nat
  BY <1>1, HighestInIs, Constants
<1> QED BY <1>1, <1>2, ResponseIs, RangeIs

LEMMA SentTiled ==
  ASSUME NEW fl, NEW gl, NEW i, NEW r, Sent(fl, gl, i, r), NEW s, Tiled(s, fl)
  PROVE  Tiled(s, gl)
<1> SUFFICES ASSUME NEW p \in Nat, gl.last < p, Below(s, p)
             PROVE  \/ \E k \in DOMAIN gl.pending :
                         gl.pending[k].range.from <= p /\ p <= HighestIn(gl.pending[k])
                    \/ \E q \in s.processing : q.from <= p /\ p <= q.to
  BY DEF Tiled
<1>1. /\ fl.last \in Nat /\ gl.last \in Nat /\ fl.last < p
      /\ HighestIn(r) \in Nat /\ ~(p <= HighestIn(r))
      /\ fl.pending \in Seq(Response) /\ i \in DOMAIN fl.pending
      /\ r = fl.pending[i] /\ gl.pending = RemoveAt(fl.pending, i)
  BY DEF Sent
<1>2. \A j \in DOMAIN fl.pending : j # i => \E k \in DOMAIN gl.pending : gl.pending[k] = fl.pending[j]
  BY <1>1, Removed
<1>3. CASE \E q \in s.processing : q.from <= p /\ p <= q.to
  BY <1>3
<1>4. CASE \E j \in DOMAIN fl.pending :
             fl.pending[j].range.from <= p /\ p <= HighestIn(fl.pending[j])
  <2>1. PICK j \in DOMAIN fl.pending :
          fl.pending[j].range.from <= p /\ p <= HighestIn(fl.pending[j])
    BY <1>4
  <2>2. j # i
    BY <1>1, <2>1
  <2>3. PICK k \in DOMAIN gl.pending : gl.pending[k] = fl.pending[j]
    BY <1>2, <2>2
  <2> QED BY <2>1, <2>3
<1> QED BY <1>1, <1>3, <1>4 DEF Tiled

LEMMA SentPlaces ==
  ASSUME NEW fl, NEW gl, NEW i, NEW r, Sent(fl, gl, i, r), NEW s \in SyncStatus,
         PendingPlaces(s, fl), PendingApart(fl.pending), ReadApart(s, fl.pending)
  PROVE  PendingPlaces(s, gl)
<1>1. /\ fl.last \in Nat /\ gl.last \in Nat /\ HighestIn(r) \in Nat
      /\ fl.pending \in Seq(Response) /\ i \in DOMAIN fl.pending /\ i \in Nat
      /\ r = fl.pending[i] /\ gl.pending = RemoveAt(fl.pending, i)
      /\ r.range.from = fl.last + 1
      /\ \A j \in DOMAIN fl.pending : fl.pending[j].range.from = fl.last + 1 => i <= j
      /\ gl.last = (IF HighestIn(r) = 0 THEN fl.last ELSE HighestIn(r))
  BY DEF Sent
<1>2. s.stored \in Nat /\ \A q \in s.processing : q.from \in Nat
  BY SyncIs, RangeIs
<1>3. /\ fl.last <= s.stored /\ HighestIn(r) <= s.stored
      /\ \A q \in s.processing : fl.last < q.from
  BY <1>1 DEF PendingPlaces
<1>4. ASSUME NEW q \in s.processing
      PROVE  gl.last < q.from
  <2>1. ~(r.range.from <= q.from /\ q.from <= HighestIn(r))
    BY <1>1 DEF ReadApart
  <2> QED BY <1>1, <1>2, <1>3, <2>1
<1>5. ASSUME NEW j \in DOMAIN fl.pending, j # i
      PROVE  /\ gl.last < fl.pending[j].range.from
             /\ HighestIn(fl.pending[j]) <= s.stored
             /\ Below(s, fl.pending[j].range.from - 1)
  <2>1. /\ fl.last < fl.pending[j].range.from
        /\ HighestIn(fl.pending[j]) <= s.stored
        /\ Below(s, fl.pending[j].range.from - 1)
    BY DEF PendingPlaces
  <2>2. fl.pending[j].range.from \in Nat
    BY <1>1, PendingNumbers
  <2>3. ASSUME fl.pending[j].range.from <= HighestIn(r)
        PROVE  FALSE
    <3>1. StartsWithin(fl.pending[j], fl.pending[i])
      BY <1>1, <2>1, <2>2, <2>3 DEF StartsWithin
    <3>2. fl.pending[i].range.from = fl.pending[j].range.from /\ j < i
      BY <1>1, <1>5, <3>1 DEF PendingApart
    <3>3. i <= j /\ j \in Nat
      BY <1>1, <3>2
    <3> QED BY <1>1, <3>2, <3>3
  <2> QED BY <1>1, <2>1, <2>2, <2>3
<1>6. \A k \in DOMAIN gl.pending : \E j \in DOMAIN fl.pending : j # i /\ gl.pending[k] = fl.pending[j]
  BY <1>1, Removed
<1>7. \A k \in DOMAIN gl.pending : /\ gl.last < gl.pending[k].range.from
                                   /\ HighestIn(gl.pending[k]) <= s.stored
                                   /\ Below(s, gl.pending[k].range.from - 1)
  BY <1>5, <1>6
<1>8. gl.last <= s.stored
  BY <1>1, <1>2, <1>3
<1> QED BY <1>4, <1>7, <1>8 DEF PendingPlaces

LEMMA SentApart ==
  ASSUME NEW fl, NEW gl, NEW i, NEW r, Sent(fl, gl, i, r), NEW s,
         PendingApart(fl.pending), ReadApart(s, fl.pending)
  PROVE  PendingApart(gl.pending) /\ ReadApart(s, gl.pending) /\ fl.last <= gl.last
<1>1. /\ fl.pending \in Seq(Response) /\ i \in DOMAIN fl.pending
      /\ gl.pending = RemoveAt(fl.pending, i)
  BY DEF Sent
<1>2. /\ \A k \in DOMAIN gl.pending :
           Was(i, k) \in DOMAIN fl.pending /\ gl.pending[k] = fl.pending[Was(i, k)]
      /\ \A k, m \in DOMAIN gl.pending : k # m => Was(i, k) # Was(i, m)
      /\ \A k, m \in DOMAIN gl.pending : Was(i, k) < Was(i, m) => k < m
  BY <1>1, Removed
<1>3. PendingApart(gl.pending)
  BY <1>2 DEF PendingApart
<1>4. ReadApart(s, gl.pending)
  BY <1>2 DEF ReadApart
<1>5. fl.last <= gl.last
  BY DEF Sent
<1> QED BY <1>3, <1>4, <1>5
-----------------------------------------------------------------------------
(* Until anything fails: the workers, L1 and the announcements             *)

LEMMA WorkerRange ==
  ASSUME NEW ws \in [1..NumWorkers -> Request \cup {NoRequest}], NEW w \in 1..NumWorkers
  PROVE  /\ ws[w] = NoRequest => ws[w].range = NoRange
         /\ ws[w] # NoRequest => ws[w].range \in RangeType
BY DEF Request, NoRequest

LEMMA InFlightReply ==
  ASSUME NEW s, NEW ws \in [1..NumWorkers -> Request \cup {NoRequest}], NEW rs \in Seq(Response),
         InFlight(s, ws, rs), NEW w \in 1..NumWorkers, ws[w] # NoRequest,
         NEW r \in Response, r.range = ws[w].range
  PROVE  InFlight(s, [ws EXCEPT ![w] = NoRequest], Append(rs, r))
<1> DEFINE vs == [ws EXCEPT ![w] = NoRequest]
           a == Append(rs, r)
<1>1. /\ \A v \in 1..NumWorkers : vs[v] = IF v = w THEN NoRequest ELSE ws[v]
      /\ NoRequest.range = NoRange
  BY DEF NoRequest
<1>2. /\ \A i \in DOMAIN rs : i \in DOMAIN a /\ a[i] = rs[i]
      /\ a[Len(rs) + 1] = r
      /\ \A i \in DOMAIN a : i \in DOMAIN rs \/ i = Len(rs) + 1
  BY AppendElements
<1>3. r.range # NoRange /\ \A i \in DOMAIN rs : rs[i].range # NoRange
  BY ResponseIs, NoRangeIsNoRange
<1> HIDE DEF vs, a
<1>4. /\ \A v \in 1..NumWorkers : vs[v] # NoRequest => vs[v].range \in s.processing
      /\ \A i \in DOMAIN a : a[i].range \in s.processing
  BY <1>1, <1>2 DEF InFlight
<1>5. \A v, u \in 1..NumWorkers : v # u /\ vs[v] # NoRequest => vs[v].range # vs[u].range
  <2> SUFFICES ASSUME NEW v \in 1..NumWorkers, NEW u \in 1..NumWorkers, v # u, vs[v] # NoRequest
               PROVE  vs[v].range # vs[u].range
    OBVIOUS
  <2>1. v # w /\ vs[v] = ws[v] /\ ws[v].range # NoRange
    BY <1>1, WorkerRange, NoRangeIsNoRange
  <2>2. CASE u = w
    BY <1>1, <2>1, <2>2
  <2>3. CASE u # w
    BY <1>1, <2>1, <2>3 DEF InFlight
  <2> QED BY <2>2, <2>3
<1>6. \A i, j \in DOMAIN a : i # j => a[i].range # a[j].range
  <2>1. \A i \in DOMAIN rs : rs[i].range # r.range
    BY DEF InFlight
  <2> QED BY <1>2, <2>1 DEF InFlight
<1>7. \A v \in 1..NumWorkers, i \in DOMAIN a : vs[v].range # a[i].range
  <2>1. \A v \in 1..NumWorkers : v # w => ws[v].range # r.range
    BY DEF InFlight
  <2> QED BY <1>1, <1>2, <1>3, <2>1 DEF InFlight
<1>8. InFlight(s, vs, a)
  BY <1>4, <1>5, <1>6, <1>7 DEF InFlight
<1> QED BY <1>8 DEF vs, a

LEMMA InFlightReceived ==
  ASSUME NEW s, NEW o, NEW ws \in [1..NumWorkers -> Request \cup {NoRequest}],
         NEW rs \in Seq(Response), rs # <<>>, InFlight(s, ws, rs),
         o.processing = s.processing \ {Head(rs).range}
  PROVE  InFlight(o, ws, Tail(rs))
<1> DEFINE tl == Tail(rs)
<1>1. /\ Head(rs) = rs[1] /\ 1 \in DOMAIN rs
      /\ \A i \in DOMAIN tl : i + 1 \in DOMAIN rs /\ tl[i] = rs[i + 1]
  BY TailElements
<1>2. \A i \in DOMAIN tl : i + 1 # 1 /\ i \in Int
  BY TailElements
<1> HIDE DEF tl
<1>3. \A i, j \in DOMAIN tl : i # j => i + 1 # j + 1
  BY <1>2
<1>4. \A i \in DOMAIN tl : tl[i].range # rs[1].range
  BY <1>1, <1>2 DEF InFlight
<1>5. InFlight(o, ws, tl)
  BY <1>1, <1>3, <1>4 DEF InFlight
<1> QED BY <1>5 DEF tl

LEMMA InFlightLaunched ==
  ASSUME NEW s, NEW o, NEW ws \in [1..NumWorkers -> Request \cup {NoRequest}],
         NEW rs \in Seq(Response), InFlight(s, ws, rs), NEW w \in 1..NumWorkers, ws[w] = NoRequest,
         NEW r \in RangeType, r \notin s.processing, NEW u,
         o.processing = s.processing \cup {r}
  PROVE  InFlight(o, [ws EXCEPT ![w] = [range |-> r, unsafe |-> u]], rs)
<1> DEFINE q == [range |-> r, unsafe |-> u]
           vs == [ws EXCEPT ![w] = q]
<1>1. /\ \A v \in 1..NumWorkers : vs[v] = IF v = w THEN q ELSE ws[v]
      /\ q.range = r
  OBVIOUS
<1>2. \A v \in 1..NumWorkers : ws[v].range # r
  <2>1. \A v \in 1..NumWorkers : ws[v] = NoRequest => ws[v].range # r
    BY WorkerRange, NoRangeIsNoRange
  <2> QED BY <2>1 DEF InFlight
<1>3. \A i \in DOMAIN rs : rs[i].range # r
  BY DEF InFlight
<1> HIDE DEF vs, q
<1>4. /\ \A v \in 1..NumWorkers : vs[v] # NoRequest => vs[v].range \in o.processing
      /\ \A i \in DOMAIN rs : rs[i].range \in o.processing
      /\ \A v \in 1..NumWorkers, i \in DOMAIN rs : vs[v].range # rs[i].range
  BY <1>1, <1>3 DEF InFlight
<1>5. \A v, x \in 1..NumWorkers : v # x /\ vs[v] # NoRequest => vs[v].range # vs[x].range
  BY <1>1, <1>2 DEF InFlight
<1>6. InFlight(o, vs, rs)
  BY <1>4, <1>5 DEF InFlight
<1> QED BY <1>6 DEF vs, q

\* The last block of L1 the producer knows of plays no part.
LEMMA SameRanges ==
  ASSUME NEW s, NEW o, o.stored = s.stored, o.requested = s.requested,
         o.processing = s.processing
  PROVE  /\ \A ws, rs : InFlight(s, ws, rs) => InFlight(o, ws, rs)
         /\ \A fl : Tiled(s, fl) => Tiled(o, fl)
         /\ LatestIsLast(s) => LatestIsLast(o)
         /\ \A c : EventsCovered(c, s) => EventsCovered(c, o)
         /\ \A c, rs : LatestHasEvents(c, s, rs) => LatestHasEvents(c, o, rs)
         /\ \A fl : PendingPlaces(s, fl) => PendingPlaces(o, fl)
         /\ \A ps : ReadApart(s, ps) => ReadApart(o, ps)
<1>1. \A p : Below(s, p) <=> Below(o, p)
  BY DEF Below
<1>2. \A ws, rs : InFlight(s, ws, rs) => InFlight(o, ws, rs)
  BY DEF InFlight
<1>3. \A fl : Tiled(s, fl) => Tiled(o, fl)
  BY <1>1 DEF Tiled
<1>4. LatestIsLast(s) => LatestIsLast(o)
  BY <1>1 DEF LatestIsLast
<1>5. \A c : EventsCovered(c, s) => EventsCovered(c, o)
  BY <1>1 DEF EventsCovered
<1>6. \A c, rs : LatestHasEvents(c, s, rs) => LatestHasEvents(c, o, rs)
  BY DEF LatestHasEvents
<1>7. \A fl : PendingPlaces(s, fl) => PendingPlaces(o, fl)
  BY <1>1 DEF PendingPlaces
<1>8. \A ps : ReadApart(s, ps) => ReadApart(o, ps)
  BY DEF ReadApart
<1> QED BY <1>2, <1>3, <1>4, <1>5, <1>6, <1>7, <1>8

\* A longer L1.
LEMMA LongerChain ==
  ASSUME NEW c \in Seq(Block), NEW d \in Seq(Block), Len(c) <= Len(d),
         \A n \in DOMAIN c : d[n] = c[n],
         NEW s \in SyncStatus, s.requested <= Len(c), NEW rs, NEW ch, NEW last,
         \A i \in DOMAIN ch : IsControl(ch[i]) => ch[i].upTo \in Nat
  PROVE  /\ EventsCovered(c, s) => EventsCovered(d, s)
         /\ LatestHasEvents(c, s, rs) => LatestHasEvents(d, s, rs)
         /\ AnnouncedIsSent(c, ch, last) => AnnouncedIsSent(d, ch, last)
<1>1. /\ DOMAIN c = 1..Len(c) /\ DOMAIN d = 1..Len(d) /\ Len(c) \in Nat /\ Len(d) \in Nat
      /\ s.requested \in Nat
  BY SyncIs
<1>2. \A m \in Nat : m <= Len(c) => \A n \in DOMAIN d : n <= m => n \in DOMAIN c
  BY <1>1
<1>3. EventsCovered(c, s) => EventsCovered(d, s)
  BY <1>1, <1>2 DEF EventsCovered
<1>4. LatestHasEvents(c, s, rs) => LatestHasEvents(d, s, rs)
  BY <1>1, <1>2 DEF LatestHasEvents
<1>5. AnnouncedIsSent(c, ch, last) => AnnouncedIsSent(d, ch, last)
  <2> SUFFICES ASSUME AnnouncedIsSent(c, ch, last), NEW i \in DOMAIN ch, IsControl(ch[i])
               PROVE  /\ ch[i].upTo <= Len(d)
                      /\ \A n \in DOMAIN d : n <= ch[i].upTo /\ d[n].event => n <= last
    BY DEF AnnouncedIsSent
  <2>1. /\ ch[i].upTo \in Nat /\ ch[i].upTo <= Len(c)
        /\ \A n \in DOMAIN c : n <= ch[i].upTo /\ c[n].event => n <= last
    BY DEF AnnouncedIsSent
  <2>2. \A n \in DOMAIN d : n <= ch[i].upTo => n \in DOMAIN c
    BY <1>2, <2>1
  <2> QED BY <1>1, <2>1, <2>2
<1> QED BY <1>3, <1>4, <1>5

LEMMA AnnouncedTail ==
  ASSUME NEW c, NEW ch \in Seq(Msg), ch # <<>>, NEW last, AnnouncedIsSent(c, ch, last)
  PROVE  AnnouncedIsSent(c, Tail(ch), last)
<1>1. \A i \in DOMAIN Tail(ch) : i + 1 \in DOMAIN ch /\ Tail(ch)[i] = ch[i + 1]
  BY TailElements
<1> QED BY <1>1 DEF AnnouncedIsSent

LEMMA AnnouncedAppend ==
  ASSUME NEW c \in Seq(Block), NEW ch \in Seq(Msg), NEW m \in Msg, NEW last \in Nat, NEW new \in Nat,
         last <= new, AnnouncedIsSent(c, ch, last),
         IsControl(m) => /\ m.upTo <= Len(c)
                         /\ \A n \in DOMAIN c : n <= m.upTo /\ c[n].event => n <= new
  PROVE  AnnouncedIsSent(c, Append(ch, m), new)
<1> DEFINE a == Append(ch, m)
<1>1. /\ \A i \in DOMAIN ch : i \in DOMAIN a /\ a[i] = ch[i]
      /\ a[Len(ch) + 1] = m
      /\ \A i \in DOMAIN a : i \in DOMAIN ch \/ i = Len(ch) + 1
  BY AppendElements
<1> HIDE DEF a
<1>2. \A n \in DOMAIN c : n <= last => n <= new
  OBVIOUS
<1>3. ASSUME NEW i \in DOMAIN a, IsControl(a[i])
      PROVE  /\ a[i].upTo <= Len(c)
             /\ \A n \in DOMAIN c : n <= a[i].upTo /\ c[n].event => n <= new
  <2>1. CASE i \in DOMAIN ch
    BY <1>1, <1>2, <1>3, <2>1 DEF AnnouncedIsSent
  <2>2. CASE i = Len(ch) + 1
    BY <1>1, <1>3, <2>2
  <2> QED BY <1>1, <2>1, <2>2
<1>4. AnnouncedIsSent(c, a, new)
  BY <1>3 DEF AnnouncedIsSent
<1> QED BY <1>4 DEF a

\* When everything is asked for and answered and nothing waits in the filter
\* for its turn, the events have been sent.
LEMMA AllIsSent ==
  ASSUME NEW c \in Seq(Block), NEW s \in SyncStatus, NEW fl, fl.last \in Nat,
         fl.pending \in Seq(Response), s.processing = {}, NEW u \in Nat, u <= s.requested,
         Tiled(s, fl), EventsCovered(c, s), PendingPlaces(s, fl),
         \A i \in DOMAIN fl.pending : fl.pending[i].range.from # fl.last + 1
  PROVE  \A n \in DOMAIN c : n <= u /\ c[n].event => n <= fl.last
<1> SUFFICES ASSUME NEW n \in DOMAIN c, n <= u, c[n].event, ~(n <= fl.last)
             PROVE  FALSE
  OBVIOUS
<1>1. n \in Nat /\ s.requested \in Nat /\ s.stored \in Nat
  BY SyncIs
<1>2. n <= s.requested
  BY <1>1
<1>3. Below(s, n)
  BY <1>2 DEF EventsCovered
<1>4. n <= s.stored
  BY <1>3 DEF Below
<1>5. fl.last + 1 \in Nat /\ fl.last < fl.last + 1 /\ fl.last + 1 <= s.stored
  BY <1>1, <1>4
<1>6. Below(s, fl.last + 1)
  BY <1>5 DEF Below
<1>7. PICK i \in DOMAIN fl.pending : fl.pending[i].range.from <= fl.last + 1
  BY <1>5, <1>6 DEF Tiled
<1>8. fl.last < fl.pending[i].range.from /\ fl.pending[i].range.from \in Nat
  BY PendingNumbers DEF PendingPlaces
<1> QED BY <1>7, <1>8
-----------------------------------------------------------------------------
(* Until anything fails: the steps of L1, of the workers and the producer  *)

Sane == Always /\ WhileSameChain /\ WhileNothingFails

\* What the reader holds as long as nothing fails.
SaneShapes ==
  /\ Shapes /\ sync \in SyncStatus /\ sync.requested <= Len(chain) /\ sync.lastBlockOnL1 <= Len(chain)
  /\ responses \in Seq(Response)
  /\ workers \in [1..NumWorkers -> Request \cup {NoRequest}]
  /\ Disjoint(sync) /\ ReaderOK(Len(chain))

LEMMA SaneIs == Sane => SaneShapes /\ Always /\ WhileSameChain /\ NothingFailed /\ Booting /\ StoresNew /\ Delivery
<1> SUFFICES ASSUME Sane PROVE SaneShapes
  BY DEF Sane, WhileNothingFails
<1>1. Always
  BY DEF Sane
<1>2. Shapes /\ ReaderOK(Len(chain))
  BY <1>1, ShapesHold, AlwaysReader
<1> QED BY <1>2 DEF SaneShapes, ReaderOK, SyncOK, SyncFits, ResponsesOK, WorkersOK

\* A step of the producer that has no command to take.
LEMMA ProducerFrame ==
  ASSUME Sane, UNCHANGED <<chain, db, consumer, main>>, cmds' = <<>>,
         status' # "reseting", sync'.errors = <<>>, AllOk(responses'),
         consumer.processed = 0 =>
           \A f \in Nat : NextIs(channel', filter'.last, f) => GetLastBlock.n < f,
         Delivery'
  PROVE  WhileNothingFails'
<1>1. NothingFailed /\ StoresNew
  BY SaneIs
<1>2. NothingFailed'
  BY <1>1 DEF NothingFailed
<1>3. Booting'
  BY DEF Booting
<1>4. StoresNew'
  BY <1>1 DEF StoresNew, GetLastBlock
<1> QED BY <1>2, <1>3, <1>4 DEF WhileNothingFails

\* A step of the producer that leaves the ranges and the answers alone.
LEMMA QuietKeeps ==
  ASSUME Sane, UNCHANGED <<others, filter, cmds, workers, responses, channel>>,
         sync'.stored = sync.stored, sync'.requested = sync.requested,
         sync'.processing = sync.processing, sync'.errors = <<>>,
         status' # "reseting", AllSent(prod', filter),
         cmds # <<>> => status' = "idle" /\ prod'.pc \in {"select", "idle"}
  PROVE  WhileNothingFails'
<1>1. NothingFailed /\ Booting /\ StoresNew /\ Delivery
  BY SaneIs
<1>2. UNCHANGED <<chain, db, consumer, main, filter, cmds, workers, responses, channel>>
  BY DEF others, l1Vars
<1>3. NothingFailed'
  BY <1>1, <1>2 DEF NothingFailed
<1>4. Booting'
  BY <1>1, <1>2 DEF Booting, GetLastBlock
<1>5. StoresNew'
  BY <1>1, <1>2 DEF StoresNew, GetLastBlock
<1>6. /\ InFlight(sync', workers, responses) /\ Tiled(sync', filter) /\ LatestIsLast(sync')
      /\ EventsCovered(chain, sync') /\ LatestHasEvents(chain, sync', responses)
      /\ PendingPlaces(sync', filter) /\ ReadApart(sync', filter.pending)
  BY <1>1, SameRanges DEF Delivery
<1>7. Delivery'
  BY <1>1, <1>2, <1>6 DEF Delivery
<1> QED BY <1>3, <1>4, <1>5, <1>7 DEF WhileNothingFails

LEMMA SwitchKeeps ==
  ASSUME Sane, Switch
  PROVE  WhileNothingFails'
<1>1. Handled /\ UNCHANGED <<others, status, filter, cmds, workers, responses, channel>>
  BY DEF Switch
<1>2. NothingFailed /\ Booting /\ Delivery /\ Always
  BY SaneIs
<1>3. /\ sync'.stored = sync.stored /\ sync'.requested = sync.requested
      /\ sync'.processing = sync.processing /\ sync'.errors = sync.errors
  BY <1>2, RenewedOK DEF Switch
<1>4. prod'.pc = IF status = "idle" THEN "idle" ELSE "launch"
  BY <1>2, GotoIs, LaunchInIs DEF Switch, NothingFailed
<1>5. \A i \in DOMAIN filter.pending : filter.pending[i].range.from # filter.last + 1
  BY <1>1, <1>2 DEF Handled, At, matchNextBlock, Delivery, AllSent
<1>6. AllSent(prod', filter)
  BY <1>5 DEF AllSent
<1>7. cmds # <<>> => status' = "idle" /\ prod'.pc \in {"select", "idle"}
  BY <1>1, <1>2, <1>4 DEF Booting
<1>8. status' # "reseting" /\ sync'.errors = <<>>
  BY <1>1, <1>2, <1>3 DEF NothingFailed
<1> QED BY <1>1, <1>3, <1>6, <1>7, <1>8, QuietKeeps

LEMMA StepIdleKeeps ==
  ASSUME Sane, StepIdle
  PROVE  WhileNothingFails'
<1>1. At("idle") /\ UNCHANGED <<others, filter, cmds, workers, responses, channel>>
  BY DEF StepIdle
<1>2. NothingFailed /\ Booting /\ Delivery /\ Always
  BY SaneIs
<1>3. /\ sync'.stored = sync.stored /\ sync'.requested = sync.requested
      /\ sync'.processing = sync.processing /\ sync'.errors = sync.errors
  BY <1>2, RenewedOK DEF StepIdle
<1>4. prod'.pc = "select"
  BY GotoIs DEF StepIdle
<1>5. AllSent(prod', filter)
  BY <1>1, <1>2 DEF At, Delivery, AllSent
<1>6. /\ status' # "reseting" /\ sync'.errors = <<>>
      /\ cmds # <<>> => status' = "idle" /\ prod'.pc \in {"select", "idle"}
  BY <1>2, <1>3, <1>4 DEF StepIdle, NothingFailed, Booting, invalidBlockNumber
<1> QED BY <1>1, <1>3, <1>5, <1>6, QuietKeeps

\* No command is waiting, and no answer for its turn.
LEMMA Launching ==
  ASSUME Sane, At("launch") \/ At("announce")
  PROVE  /\ cmds = <<>> /\ prod.pc # "send" /\ sync.errors = <<>> /\ status # "reseting"
         /\ \A i \in DOMAIN filter.pending : filter.pending[i].range.from # filter.last + 1
  BY SaneIs DEF At, Booting, NothingFailed, Delivery, AllSent

LEMMA StepWorkingKeeps ==
  ASSUME Sane, StepWorking
  PROVE  WhileNothingFails'
<1>1. At("launch") /\ UNCHANGED <<others, filter, cmds, workers, responses, channel>>
  BY DEF StepWorking
<1>2. Always
  BY SaneIs
<1>3. /\ cmds = <<>> /\ sync.errors = <<>> /\ status # "reseting"
      /\ \A i \in DOMAIN filter.pending : filter.pending[i].range.from # filter.last + 1
  BY <1>1, Launching
<1>4. /\ sync'.stored = sync.stored /\ sync'.requested = sync.requested
      /\ sync'.processing = sync.processing /\ sync'.errors = <<>>
  BY <1>2, <1>3, StepWorkingSync
<1>5. status' # "reseting"
  BY <1>3 DEF StepWorking
<1>6. AllSent(prod', filter)
  BY <1>3 DEF AllSent
<1> QED BY <1>1, <1>3, <1>4, <1>5, <1>6, QuietKeeps

LEMMA LaunchedAllKeeps ==
  ASSUME Sane, LaunchedAll
  PROVE  WhileNothingFails'
<1>1. /\ At("launch") /\ UNCHANGED <<others, filter, cmds, workers, responses, channel>>
      /\ sync' = Discard(sync)
  BY DEF LaunchedAll
<1>2. SaneShapes
  BY SaneIs
<1>3. /\ cmds = <<>> /\ sync.errors = <<>> /\ status # "reseting"
      /\ \A i \in DOMAIN filter.pending : filter.pending[i].range.from # filter.last + 1
  BY <1>1, Launching
<1>4. sync' = sync
  BY <1>1, <1>2, <1>3, DiscardIs DEF SaneShapes
<1>5. status' # "reseting"
  BY <1>3 DEF LaunchedAll
<1>6. AllSent(prod', filter)
  BY <1>3 DEF AllSent
<1> QED BY <1>1, <1>3, <1>4, <1>5, <1>6, QuietKeeps

LEMMA LaunchKeeps ==
  ASSUME Sane, launchWork
  PROVE  WhileNothingFails'
<1>1. SaneShapes /\ Delivery /\ NothingFailed /\ StoresNew /\ Always
  BY SaneIs
<1>2. PICK w, r, u : LaunchFacts(w, r, u)
  BY <1>1, LaunchIs
<1>3. At("launch") /\ UNCHANGED <<others, status, filter, cmds, responses, channel>>
  BY DEF launchWork
<1>4. /\ cmds = <<>> /\ sync.errors = <<>> /\ status # "reseting"
      /\ \A i \in DOMAIN filter.pending : filter.pending[i].range.from # filter.last + 1
  BY <1>3, Launching
<1>5. Launched(sync, sync', r) /\ sync'.errors = <<>>
  BY <1>1, <1>2, <1>4, LaunchedIs DEF LaunchFacts, SaneShapes
<1>6. r \in RangeType /\ w \in 1..NumWorkers /\ workers[w] = NoRequest
      /\ workers' = [workers EXCEPT ![w] = [range |-> r, unsafe |-> u]]
  BY <1>2 DEF LaunchFacts
<1>7. /\ r \notin sync.processing /\ sync'.processing = sync.processing \cup {r}
      /\ \A q \in sync.processing : q.to # latestBlockNumber
  BY <1>5 DEF Launched
<1>8. InFlight(sync', workers', responses)
  BY <1>1, <1>6, <1>7, InFlightLaunched DEF SaneShapes, Delivery
<1>9. /\ Tiled(sync', filter) /\ LatestIsLast(sync') /\ EventsCovered(chain, sync')
  BY <1>1, <1>5, LaunchedTiled, LaunchedLatest, LaunchedEvents DEF Delivery, SaneShapes, Shapes
<1>10. PendingPlaces(sync', filter) /\ ReadApart(sync', filter.pending)
  BY <1>1, <1>5, LaunchedPlaces DEF Delivery, SaneShapes, Shapes
<1>11. LatestHasEvents(chain, sync', responses)
  <2>1. \A i \in DOMAIN responses : responses[i].range.to # latestBlockNumber
    BY <1>1, <1>7 DEF Delivery, InFlight
  <2> QED BY <2>1 DEF LatestHasEvents
<1>12. AllSent(prod', filter)
  BY <1>4 DEF AllSent
<1>13. UNCHANGED <<chain, db, consumer, main, filter, cmds, responses, channel, status>>
  BY <1>3 DEF others, l1Vars
<1>14. Delivery'
  BY <1>1, <1>8, <1>9, <1>10, <1>11, <1>12, <1>13 DEF Delivery
<1>15. AllOk(responses') /\ (consumer.processed = 0 =>
         \A f \in Nat : NextIs(channel', filter'.last, f) => GetLastBlock.n < f)
  BY <1>1, <1>4, <1>13 DEF NothingFailed, StoresNew
<1> QED BY <1>4, <1>5, <1>13, <1>14, <1>15, ProducerFrame

LEMMA NewL1BlockKeeps ==
  ASSUME Sane, NewL1Block
  PROVE  WhileNothingFails'
<1>1. SaneShapes /\ NothingFailed /\ Booting /\ StoresNew /\ Delivery
  BY SaneIs
<1> DEFINE b == NewBlock(Len(chain) + 1, fork, pattern)
<1>2. /\ chain' = Append(chain, b)
      /\ UNCHANGED <<db, status, prod, sync, filter, cmds, workers, responses, channel, consumer, main>>
  BY DEF NewL1Block, prodVars
<1>3. Len(chain) <= Len(chain') /\ \A n \in DOMAIN chain : chain'[n] = chain[n]
  <2>1. chain \in Seq(Block)
    BY <1>1 DEF SaneShapes, Shapes
  <2> HIDE DEF b
  <2> QED BY <1>2, <2>1
<1>4. chain' \in Seq(Block)
  <2>1. Always'
    BY SaneIs, NewL1BlockAlways
  <2> QED BY <2>1 DEF Always, TypeOK
<1> HIDE DEF b
<1>5. \A i \in DOMAIN channel : IsControl(channel[i]) => channel[i].upTo \in Nat
  <2> SUFFICES ASSUME NEW i \in DOMAIN channel, IsControl(channel[i])
               PROVE  channel[i].upTo \in Nat
    OBVIOUS
  <2>1. channel[i] \in Msg
    BY <1>1 DEF SaneShapes, Shapes
  <2>2. channel[i] \notin Response
    BY ResponseIs
  <2>3. PICK n \in 1..MaxBlock : channel[i] = FullySynced(n)
    BY <2>1, <2>2 DEF Msg
  <2> QED BY <2>3, Constants DEF FullySynced
<1>6. /\ EventsCovered(chain', sync) /\ LatestHasEvents(chain', sync, responses)
      /\ AnnouncedIsSent(chain', channel, filter.last)
  <2>1. chain \in Seq(Block) /\ sync \in SyncStatus /\ sync.requested <= Len(chain)
    BY <1>1 DEF SaneShapes, Shapes
  <2> QED BY <1>1, <1>3, <1>4, <1>5, <2>1, LongerChain DEF Delivery
<1>7. Delivery'
  BY <1>1, <1>2, <1>6 DEF Delivery
<1>8. NothingFailed' /\ Booting' /\ StoresNew'
  BY <1>1, <1>2 DEF NothingFailed, Booting, StoresNew, GetLastBlock
<1> QED BY <1>7, <1>8 DEF WhileNothingFails

LEMMA ExecuteKeeps ==
  ASSUME Sane, NEW w \in 1..NumWorkers, executeRequestRollupInfoByBlockRange(w)
  PROVE  WhileNothingFails'
<1> DEFINE r == Reply(workers[w])
<1>1. SaneShapes /\ NothingFailed /\ Booting /\ StoresNew /\ Delivery /\ Always
  BY SaneIs
<1>2. workers[w] # NoRequest /\ Answered(w, r)
  BY DEF executeRequestRollupInfoByBlockRange, Reply
<1>3. workers[w] \in Request /\ workers[w].range \in RangeType /\ Fits(Len(chain), workers[w].range)
  BY <1>1, <1>2, RequestIs
<1>4. /\ r \in Response /\ r \in Msg /\ r.range = workers[w].range /\ r.ok
      /\ r.blocks = BlocksOf(workers[w].range) /\ ~IsControl(r)
  BY <1>1, <1>3, ReplyIs, ResponseIs DEF Msg, Reply
<1>5. \A n \in DOMAIN chain : r.range.from <= n /\ n <= r.range.to /\ chain[n].event => chain[n] \in r.blocks
  BY <1>1, <1>3, <1>4, BlocksOfIs
<1> HIDE DEF r
<1>6. /\ workers' = [workers EXCEPT ![w] = NoRequest] /\ responses' = Append(responses, r)
      /\ UNCHANGED <<chain, db, status, prod, sync, filter, cmds, channel, consumer, main>>
  BY <1>2 DEF Answered, l1Vars
<1>7. cmds = <<>>
  BY <1>1, <1>2 DEF Booting
<1>8. InFlight(sync, workers', responses')
  BY <1>1, <1>2, <1>4, <1>6, InFlightReply DEF SaneShapes, Delivery
<1>9. LatestHasEvents(chain, sync, responses')
  <2> SUFFICES ASSUME NEW i \in DOMAIN responses', NEW n \in DOMAIN chain,
                      responses'[i].range.to = latestBlockNumber, responses'[i].range.from <= n,
                      n <= sync.requested, chain[n].event
               PROVE  chain[n] \in responses'[i].blocks
    BY DEF LatestHasEvents
  <2>1. /\ \A j \in DOMAIN responses : responses'[j] = responses[j]
        /\ responses'[Len(responses) + 1] = r
        /\ i \in DOMAIN responses \/ i = Len(responses) + 1
    BY <1>1, <1>4, <1>6, AppendElements DEF SaneShapes
  <2>2. CASE i \in DOMAIN responses
    BY <1>1, <2>1, <2>2 DEF Delivery, LatestHasEvents
  <2>3. CASE i = Len(responses) + 1
    <3>1. n <= latestBlockNumber
      <4>1. n \in Nat /\ sync.requested \in Nat /\ sync.requested <= MaxBlock
        BY <1>1, SyncIs DEF SaneShapes, Shapes
      <4> QED BY <4>1, Constants
    <3> QED BY <1>5, <2>1, <2>3, <3>1
  <2> QED BY <2>1, <2>2, <2>3
<1>10. AllOk(responses')
  BY <1>1, <1>4, <1>6, ReliableAppend DEF NothingFailed, SaneShapes, Shapes
<1>11. Delivery'
  BY <1>1, <1>6, <1>8, <1>9 DEF Delivery
<1>12. status' # "reseting" /\ sync'.errors = <<>> /\ (consumer.processed = 0 =>
         \A f \in Nat : NextIs(channel', filter'.last, f) => GetLastBlock.n < f)
  BY <1>1, <1>6, <1>7 DEF NothingFailed, StoresNew
<1> QED BY <1>6, <1>7, <1>10, <1>11, <1>12, ProducerFrame

\* The first command is the only one: nothing has been read before it.
LEMMA ResetUnsafeKeeps ==
  ASSUME Sane, resetUnsafe
  PROVE  WhileNothingFails'
<1> DEFINE n == GenesisBlockNum
<1>1. SaneShapes /\ NothingFailed /\ Booting /\ StoresNew
  BY SaneIs
<1>2. cmds # <<>> /\ cmds = <<n>>
  BY <1>1 DEF resetUnsafe, Booting
<1>3. /\ GetLastBlock.n = n /\ sync.processing = {} /\ responses = <<>>
      /\ \A w \in 1..NumWorkers : workers[w] = NoRequest
  BY <1>1, <1>2 DEF Booting
<1>4. Head(cmds) = n /\ Tail(cmds) = <<>> /\ n \in Nat
  BY <1>2, Constants
<1> HIDE DEF n
<1>5. /\ sync' = ResetSync(sync, n) /\ filter' = [last |-> n, pending |-> <<>>] /\ channel' = <<>>
      /\ status' = "idle" /\ cmds' = <<>> /\ UNCHANGED <<chain, db, consumer, main, workers, responses>>
  BY <1>4 DEF resetUnsafe, others, l1Vars
<1>6. /\ sync'.stored = n /\ sync'.requested = n /\ sync'.processing = {} /\ sync'.errors = <<>>
  BY <1>1, <1>5, SyncRecord DEF ResetSync, SaneShapes, NothingFailed
<1>7. filter'.last = n /\ filter'.pending = <<>>
  BY <1>5
<1>8. \A p : Below(sync', p) <=> p <= n
  BY <1>6 DEF Below
<1>9. InFlight(sync', workers', responses')
  <2>1. (\A w \in 1..NumWorkers : workers'[w] = NoRequest) /\ DOMAIN responses' = {}
    BY <1>3, <1>5
  <2> QED BY <2>1 DEF InFlight
<1>10. Tiled(sync', filter')
  BY <1>4, <1>7, <1>8 DEF Tiled
<1>11. LatestIsLast(sync') /\ EventsCovered(chain', sync') /\ LatestHasEvents(chain', sync', responses')
  BY <1>3, <1>5, <1>6, <1>8 DEF LatestIsLast, EventsCovered, LatestHasEvents
<1>12. /\ PendingPlaces(sync', filter') /\ PendingApart(filter'.pending)
       /\ ReadApart(sync', filter'.pending) /\ AllSent(prod', filter')
       /\ AnnouncedIsSent(chain', channel', filter'.last)
  BY <1>4, <1>5, <1>6, <1>7
     DEF PendingPlaces, PendingApart, ReadApart, AllSent, AnnouncedIsSent
<1>13. Delivery'
  BY <1>9, <1>10, <1>11, <1>12 DEF Delivery
<1>14. \A f \in Nat : NextIs(channel', filter'.last, f) => GetLastBlock.n < f
  BY <1>3, <1>4, <1>5, <1>7, NextOfEmpty
<1>15. status' # "reseting" /\ AllOk(responses')
  BY <1>1, <1>5 DEF NothingFailed
<1> QED BY <1>5, <1>6, <1>13, <1>14, <1>15, ProducerFrame

LEMMA OnResponseKeeps ==
  ASSUME Sane, onResponseRollupInfo
  PROVE  WhileNothingFails'
<1> DEFINE r == Head(responses)
           h == IF sync.stored <= HighestIn(r) THEN HighestIn(r) ELSE sync.stored
<1>1. SaneShapes /\ NothingFailed /\ Booting /\ StoresNew /\ Delivery /\ Always /\ WhileSameChain
  BY SaneIs
<1>2. /\ responses # <<>> /\ r.ok /\ responses' = Tail(responses) /\ r.range \in sync.processing
      /\ sync' = [sync EXCEPT !.processing = @ \ {r.range}, !.stored = Max({@, HighestIn(r)})]
      /\ filter' = [filter EXCEPT !.pending = Append(@, r)] /\ Goto("send")
      /\ UNCHANGED <<chain, db, consumer, main, status, cmds, workers, channel>>
  BY DEF onResponseRollupInfo, Ignored, others, l1Vars
<1>3. /\ r \in Response /\ AnswerFits(Len(chain), r) /\ r = responses[1] /\ 1 \in DOMAIN responses
  BY <1>1, <1>2, HeadResponse, TailElements DEF SaneShapes
<1> HIDE DEF r
<1>4. filter'.last = filter.last /\ filter'.pending = Append(filter.pending, r)
  BY <1>1, <1>2 DEF Always, TypeOK
<1>5. /\ r.range \in RangeType /\ r.range.from \in Nat /\ r.range.to \in Nat /\ r.range.from >= 1
      /\ r.range.from <= r.range.to /\ r.range.to <= latestBlockNumber
  BY <1>3, ResponseIs, RangeIs
<1>6. /\ HighestIn(r) \in Nat /\ HighestIn(r) <= MaxBlock
      /\ r.range.to # latestBlockNumber => HighestIn(r) = r.range.to
  BY <1>3, HighestInIs, Constants
<1>7. HighestIn(r) <= r.range.to
  BY <1>5, <1>6, Constants
<1>8. /\ sync'.stored = h /\ sync'.requested = sync.requested /\ sync'.errors = sync.errors
      /\ sync'.processing = sync.processing \ {r.range}
  <2>1. sync.stored \in Nat
    BY <1>1, SyncIs DEF SaneShapes
  <2>2. Max({sync.stored, HighestIn(r)}) = h
    BY <1>6, <2>1, MaxOfTwo
  <2> HIDE DEF h
  <2> QED BY <1>1, <1>2, <2>2, SyncRecord DEF SaneShapes
<1>9. sync' \in SyncStatus
  <2>1. Always'
    BY <1>1, OnResponseAlways
  <2> QED BY <2>1 DEF Always, TypeOK
<1>10. Received(sync, sync', r)
  <2>1. sync \in SyncStatus /\ Disjoint(sync)
    BY <1>1 DEF SaneShapes
  <2>2. sync.stored \in Nat /\ \A q \in sync.processing : q.from \in Nat /\ q.to \in Nat /\ q.from <= q.to
    BY <2>1, SyncIs, RangeIs
  <2>3. /\ sync'.stored \in Nat /\ sync.stored <= sync'.stored /\ HighestIn(r) <= sync'.stored
        /\ sync'.stored = sync.stored \/ sync'.stored = HighestIn(r)
    BY <1>6, <1>8, <2>2
  <2> QED BY <1>2, <1>3, <1>5, <1>6, <1>7, <1>8, <1>9, <2>1, <2>2, <2>3 DEF Received
<1> HIDE DEF h
<1>11. Shapes
  BY <1>1 DEF SaneShapes
<1>12. Tiled(sync', filter') /\ LatestIsLast(sync') /\ PendingPlaces(sync', filter')
  BY <1>1, <1>4, <1>10, <1>11, ReceivedTiled, ReceivedLatest, ReceivedPlaces DEF Delivery, Shapes
<1>13. PendingApart(filter'.pending) /\ ReadApart(sync', filter'.pending)
  BY <1>1, <1>4, <1>10, <1>11, ReceivedPending DEF Delivery, Shapes
<1>14. EventsCovered(chain, sync')
  <2>1. \A n \in DOMAIN chain :
          r.range.to = latestBlockNumber /\ r.range.from <= n /\ n <= sync.requested /\ chain[n].event =>
            chain[n] \in r.blocks
    BY <1>1, <1>3 DEF Delivery, LatestHasEvents
  <2>2. \A n \in DOMAIN chain : chain[n].n = n
    BY <1>1, ChainIs
  <2>3. chain \in Seq(Block) /\ EventsCovered(chain, sync) /\ LatestIsLast(sync)
    BY <1>1, <1>11 DEF Delivery, Shapes
  <2> QED BY <1>10, <2>1, <2>2, <2>3, ReceivedEvents
<1>15. InFlight(sync', workers, responses')
  BY <1>1, <1>2, <1>8, InFlightReceived DEF SaneShapes, Delivery, r
<1>16. LatestHasEvents(chain, sync', responses')
  <2>1. \A i \in DOMAIN responses' : i + 1 \in DOMAIN responses /\ responses'[i] = responses[i + 1]
    BY <1>1, <1>2, TailElements DEF SaneShapes
  <2> QED BY <1>1, <1>8, <2>1 DEF Delivery, LatestHasEvents
<1>17. AllSent(prod', filter')
  BY <1>2, GotoIs DEF AllSent
<1>18. Delivery'
  BY <1>1, <1>2, <1>4, <1>12, <1>13, <1>14, <1>15, <1>16, <1>17 DEF Delivery
<1>19. cmds = <<>>
  BY <1>1, <1>2 DEF Booting
<1>20. AllOk(responses')
  BY <1>1, <1>2, <1>11, ReliableTail DEF NothingFailed, Shapes
<1>21. status' # "reseting" /\ sync'.errors = <<>> /\ (consumer.processed = 0 =>
         \A f \in Nat : NextIs(channel', filter'.last, f) => GetLastBlock.n < f)
  BY <1>1, <1>2, <1>4, <1>8, <1>19 DEF NothingFailed, StoresNew
<1> QED BY <1>2, <1>18, <1>19, <1>20, <1>21, ProducerFrame

LEMMA SendKeeps ==
  ASSUME Sane, sendResultIfPossible
  PROVE  WhileNothingFails'
<1>1. SaneShapes /\ NothingFailed /\ Booting /\ StoresNew /\ Delivery /\ Always /\ WhileSameChain
  BY SaneIs
<1>2. PICK i, r : SendFacts(i, r)
  BY <1>1, SendIs
<1>3. /\ At("send")
      /\ UNCHANGED <<chain, db, status, prod, sync, cmds, workers, responses, consumer, main>>
  BY DEF sendResultIfPossible, others, l1Vars
<1>4. Shapes /\ sync \in SyncStatus
  BY <1>1 DEF SaneShapes
<1>5. /\ filter'.last = (IF HighestIn(r) = 0 THEN filter.last ELSE HighestIn(r))
      /\ filter'.pending = RemoveAt(filter.pending, i) /\ channel' = Append(channel, r)
      /\ r \in Response /\ r \in Msg /\ ~IsControl(r) /\ r = filter.pending[i]
      /\ i \in DOMAIN filter.pending /\ i \in Nat /\ HighestIn(r) \in Nat
      /\ r.range.from = filter.last + 1
      /\ \A j \in DOMAIN filter.pending : filter.pending[j].range.from = filter.last + 1 => i <= j
  BY <1>2, ResponseIs DEF SendFacts, Msg
<1>6. Complete(chain, r)
  BY <1>1, <1>5 DEF WhileSameChain, AnswersComplete, AllComplete, AllOk
<1>7. HighestIn(r) # 0 => r.range.from <= HighestIn(r)
  <2>1. CASE r.range.to # latestBlockNumber
    BY <1>5, <2>1, HighestInIs, ResponseIs, RangeIs
  <2>2. CASE r.range.to = latestBlockNumber
    BY <1>5, <1>6, <2>2, HighestInIs DEF Complete
  <2> QED BY <2>1, <2>2
<1>8. Sent(filter, filter', i, r)
  <2>1. filter.last \in Nat /\ filter.pending \in Seq(Response)
    BY <1>4 DEF Shapes
  <2>2. filter'.last \in Nat
    BY <1>5, <2>1
  <2> QED BY <1>5, <1>7, <2>1, <2>2 DEF Sent
<1>9. /\ Tiled(sync, filter') /\ PendingPlaces(sync, filter') /\ PendingApart(filter'.pending)
      /\ ReadApart(sync, filter'.pending) /\ filter.last <= filter'.last
  BY <1>1, <1>4, <1>8, SentTiled, SentPlaces, SentApart DEF Delivery
<1>10. AnnouncedIsSent(chain, channel', filter'.last)
  <2>1. filter.last \in Nat /\ filter'.last \in Nat
    BY <1>8 DEF Sent
  <2> QED BY <1>1, <1>4, <1>5, <1>9, <2>1, AnnouncedAppend DEF Delivery, Shapes
<1>11. AllSent(prod', filter')
  BY <1>3 DEF At, AllSent
<1>12. Delivery'
  BY <1>1, <1>3, <1>9, <1>10, <1>11 DEF Delivery
<1>13. cmds = <<>>
  BY <1>1, <1>3 DEF Booting, At
<1>14. \A f \in Nat : NextIs(channel', filter'.last, f) => NextIs(channel, filter.last, f)
  BY <1>4, <1>5, NextOfAppend DEF Shapes
<1>15. /\ status' # "reseting" /\ sync'.errors = <<>> /\ AllOk(responses')
       /\ consumer.processed = 0 =>
            \A f \in Nat : NextIs(channel', filter'.last, f) => GetLastBlock.n < f
  BY <1>1, <1>3, <1>13, <1>14 DEF NothingFailed, StoresNew
<1> QED BY <1>3, <1>12, <1>13, <1>15, ProducerFrame

LEMMA AnnounceKeeps ==
  ASSUME Sane, Announce
  PROVE  WhileNothingFails'
<1> DEFINE m == FullySynced(sync.lastBlockOnL1)
<1>1. SaneShapes /\ NothingFailed /\ Booting /\ StoresNew /\ Delivery /\ Always /\ WhileSameChain
  BY SaneIs
<1>2. /\ At("announce") /\ channel' = Append(channel, m)
      /\ UNCHANGED <<chain, db, status, sync, filter, cmds, workers, responses, consumer, main>>
  BY DEF Announce, others, l1Vars
<1>3. /\ cmds = <<>> /\ prod.pc # "send"
      /\ \A i \in DOMAIN filter.pending : filter.pending[i].range.from # filter.last + 1
  BY <1>2, Launching
<1>4. Shapes /\ sync \in SyncStatus /\ sync.lastBlockOnL1 <= Len(chain)
  BY <1>1 DEF SaneShapes
<1>5. sync.lastBlockOnL1 # 0 /\ sync.lastBlockOnL1 <= sync.requested /\ sync.processing = {}
  BY <1>1, <1>2 DEF SaneShapes, ReaderOK, IsNodeFullySynchronizedWithL1, invalidBlockNumber
<1>6. sync.lastBlockOnL1 \in 1..MaxBlock /\ sync.lastBlockOnL1 \in Nat
  BY <1>4, <1>5, SyncIs, Constants
<1>7. m \in Msg /\ IsControl(m) /\ m.upTo = sync.lastBlockOnL1
  BY <1>6 DEF Msg, FullySynced, IsControl
<1>8. \A n \in DOMAIN chain : n <= sync.lastBlockOnL1 /\ chain[n].event => n <= filter.last
  BY <1>1, <1>3, <1>4, <1>5, <1>6, AllIsSent DEF Delivery, Shapes
<1> HIDE DEF m
<1>9. AnnouncedIsSent(chain, channel', filter.last)
  <2>1. filter.last \in Nat /\ filter.last <= filter.last /\ channel \in Seq(Msg) /\ chain \in Seq(Block)
    BY <1>4 DEF Shapes
  <2> QED BY <1>1, <1>2, <1>4, <1>7, <1>8, <2>1, AnnouncedAppend DEF Delivery
<1>10. AllSent(prod', filter')
  BY <1>2, <1>3 DEF AllSent
<1>11. Delivery'
  BY <1>1, <1>2, <1>9, <1>10 DEF Delivery
<1>12. \A f \in Nat : NextIs(channel', filter'.last, f) => NextIs(channel, filter.last, f)
  BY <1>2, <1>4, <1>7, NextOfAppend DEF Shapes
<1>13. /\ status' # "reseting" /\ sync'.errors = <<>> /\ AllOk(responses')
       /\ consumer.processed = 0 =>
            \A f \in Nat : NextIs(channel', filter'.last, f) => GetLastBlock.n < f
  BY <1>1, <1>2, <1>3, <1>12 DEF NothingFailed, StoresNew
<1> QED BY <1>2, <1>3, <1>11, <1>13, ProducerFrame

\* Every answer is one the producer still waits for.
LEMMA NoBadAnswer ==
  ASSUME Sane, onResponseError \/ onResponseIgnored
  PROVE  FALSE
<1> DEFINE r == Head(responses)
<1>1. SaneShapes /\ NothingFailed /\ Delivery
  BY SaneIs
<1>2. responses # <<>> /\ (status = "reseting" \/ r.range \notin sync.processing \/ ~r.ok)
  BY DEF onResponseError, onResponseIgnored, Ignored
<1>3. r \in Response /\ r = responses[1] /\ 1 \in DOMAIN responses
  BY <1>1, <1>2, TailElements DEF SaneShapes
<1>4. r.ok /\ r.range \in sync.processing /\ status # "reseting"
  BY <1>1, <1>3, ResponseIs DEF NothingFailed, AllOk, Delivery, InFlight
<1> QED BY <1>2, <1>4

LEMMA ProducerKeeps == Sane /\ Producer => WhileNothingFails'
BY ResetUnsafeKeeps, OnResponseKeeps, NoBadAnswer, SendKeeps, SwitchKeeps, StepIdleKeeps,
   StepWorkingKeeps, LaunchKeeps, LaunchedAllKeeps, AnnounceKeeps DEF Producer

-----------------------------------------------------------------------------
(* Until anything fails: the consumer and the main loop                    *)

\* A step of the consumer or of the main loop.
LEMMA ConsumerFrame ==
  ASSUME Sane, UNCHANGED <<l1Vars, prodVars>>,
         channel' = channel \/ (channel # <<>> /\ channel' = Tail(channel)),
         main'.pc \in {"check", "wait"}, consumer'.pc # "failed",
         cmds # <<>> => GetLastBlock' = GetLastBlock,
         StoresNew'
  PROVE  WhileNothingFails'
<1>1. SaneShapes /\ NothingFailed /\ Booting /\ Delivery
  BY SaneIs
<1>2. UNCHANGED <<chain, status, prod, sync, filter, cmds, workers, responses>>
  BY DEF l1Vars, prodVars
<1>3. NothingFailed'
  BY <1>1, <1>2 DEF NothingFailed
<1>4. Booting'
  <2> SUFFICES ASSUME cmds # <<>> PROVE Booting'
    BY <1>2 DEF Booting
  <2>1. channel = <<>> /\ channel' = channel
    BY <1>1 DEF Booting
  <2> QED BY <1>1, <1>2, <2>1 DEF Booting
<1>5. AnnouncedIsSent(chain, channel', filter.last)
  BY <1>1, AnnouncedTail DEF Delivery, SaneShapes, Shapes
<1>6. Delivery'
  BY <1>1, <1>2, <1>5 DEF Delivery
<1> QED BY <1>3, <1>4, <1>6 DEF WhileNothingFails

LEMMA SkipKeeps ==
  ASSUME Sane, processIncommingRollupControlData \/ IgnoreRange
  PROVE  WhileNothingFails'
<1>1. SaneShapes /\ NothingFailed /\ Booting /\ StoresNew /\ Always
  BY SaneIs
<1>2. /\ HeadFacts /\ channel' = Tail(channel) /\ UNCHANGED consumerOnly /\ db' = db
      /\ IsControl(Head(channel)) \/ consumer.processed # 0
  BY <1>1, HeadIs DEF processIncommingRollupControlData, IgnoreRange, Take, WrongBlockRange, invalidBlockNumber
<1>3. /\ consumer'.processed = consumer.processed /\ consumer'.synced = consumer.synced
      /\ consumer'.pc # "failed"
  <2>1. consumer \in ConsumerType /\ consumer.pc = "run"
    BY <1>1, <1>2, MainIs DEF HeadFacts
  <2>2. CASE processIncommingRollupControlData
    BY <2>1, <2>2 DEF processIncommingRollupControlData, Take, ConsumerType
  <2>3. CASE IgnoreRange
    BY <2>1, <2>3 DEF IgnoreRange, Take
  <2> QED BY <2>2, <2>3
<1>4. /\ channel # <<>> /\ main.pc = "wait" /\ channel \in Seq(Msg) /\ Head(channel) = channel[1]
      /\ UNCHANGED <<main, cmds, filter>>
  BY <1>1, <1>2 DEF HeadFacts, SaneShapes, Shapes, consumerOnly, prodVars
<1>5. IsControl(Head(channel)) =>
        \A f \in Nat : NextIs(channel', filter.last, f) => NextIs(channel, filter.last, f)
  <2>1. IsControl(Head(channel)) => ~Data(channel, 1)
    BY <1>4 DEF Data
  <2> QED BY <1>2, <1>4, <2>1, NextOfTail
<1>6. GetLastBlock' = GetLastBlock
  BY <1>2 DEF GetLastBlock
<1>7. StoresNew'
  BY <1>1, <1>2, <1>3, <1>4, <1>5, <1>6 DEF StoresNew
<1>8. UNCHANGED <<l1Vars, prodVars>>
  BY <1>2 DEF consumerOnly
<1> QED BY <1>2, <1>3, <1>4, <1>6, <1>7, <1>8, ConsumerFrame

\* An answer the consumer takes has only blocks above the stored ones.
LEMMA AnswerIsNew ==
  ASSUME Sane, HeadFacts, ~IsControl(Head(channel)), ~WrongBlockRange(Head(channel))
  PROVE  LET r == Head(channel)
         IN  /\ GetLastBlock.n \in Nat /\ r.range.from \in Nat /\ HighestIn(r) \in Nat
             /\ GetLastBlock.n < r.range.from
             /\ BlocksToStore(r) \subseteq Block
             /\ \A b \in BlocksToStore(r) :
                  b.n \in Nat /\ r.range.from <= b.n /\ b.n <= HighestIn(r)
             /\ HighestIn(r) # 0 => r.range.from <= HighestIn(r)
             /\ HighestIn(r) = 0 => BlocksToStore(r) = {}
<1> DEFINE r == Head(channel)
<1>1. SaneShapes /\ Booting /\ StoresNew /\ Always /\ WhileSameChain
  BY SaneIs
<1>2. r \in Response /\ Complete(chain, r) /\ Data(channel, 1)
  BY <1>1, BeforeAnswer
<1>3. channel # <<>> /\ r = channel[1] /\ Shapes
  BY <1>1 DEF HeadFacts, SaneShapes
<1>4. consumer.processed = 0 \/ consumer.processed + 1 = r.range.from
  BY DEF WrongBlockRange, invalidBlockNumber
<1> HIDE DEF r
<1>5. /\ r.range.from \in Nat /\ r.range.to \in Nat /\ r.range.from <= r.range.to
      /\ r.blocks \subseteq Block /\ r.last \in Block \cup {NoBlock}
  BY <1>2, ResponseIs, RangeIs
<1>6. HighestIn(r) \in Nat /\ (r.range.to # latestBlockNumber => HighestIn(r) = r.range.to)
  BY <1>2, HighestInIs, Constants
<1>7. GetLastBlock.n \in Nat /\ consumer.processed \in Nat
  BY <1>3 DEF Shapes
<1>8. GetLastBlock.n < r.range.from
  <2>1. CASE consumer.processed = 0
    <3>1. cmds = <<>>
      BY <1>1, <1>3 DEF Booting
    <3>2. NextIs(channel, filter.last, r.range.from)
      BY <1>2, <1>3, NextOfHead DEF Shapes
    <3> QED BY <1>1, <1>5, <2>1, <3>1, <3>2 DEF StoresNew
  <2>2. CASE consumer.processed # 0
    <3>1. GetLastBlock.n <= consumer.processed
      BY <1>1, <2>2 DEF StoresNew
    <3> QED BY <1>4, <1>5, <1>7, <2>2, <3>1
  <2> QED BY <2>1, <2>2
<1>9. /\ BlocksToStore(r) \subseteq Block
      /\ \A b \in BlocksToStore(r) : b.n <= HighestIn(r)
      /\ HighestIn(r) = 0 => BlocksToStore(r) = {}
  BY <1>1, <1>2, ToStoreOnL1
<1>10. \A b \in BlocksToStore(r) : b.n \in Nat /\ r.range.from <= b.n
  <2>1. \A b \in r.blocks : b.n \in Nat /\ r.range.from <= b.n
    BY <1>2, <1>5, BlockIs DEF Complete
  <2>2. r.last # NoBlock => r.last.n = r.range.to
    BY <1>2 DEF Complete
  <2> QED BY <1>5, <2>1, <2>2 DEF BlocksToStore
<1>11. HighestIn(r) # 0 => r.range.from <= HighestIn(r)
  <2>1. CASE r.range.to # latestBlockNumber
    BY <1>5, <1>6, <2>1
  <2>2. CASE r.range.to = latestBlockNumber
    BY <1>2, <2>2, HighestInIs DEF Complete
  <2> QED BY <2>1, <2>2
<1> QED BY <1>5, <1>6, <1>7, <1>8, <1>9, <1>10, <1>11 DEF r

LEMMA ProcessKeeps ==
  ASSUME Sane, processIncommingRollupInfoData
  PROVE  WhileNothingFails'
<1> DEFINE r == Head(channel)
           blocks == BlocksToStore(r)
<1>1. SaneShapes /\ StoresNew /\ Booting /\ Always /\ WhileSameChain
  BY SaneIs
<1>2. processBlockRange(r, blocks, "run")
  BY DEF processIncommingRollupInfoData
<1>3. HeadFacts /\ ~IsControl(r) /\ ~WrongBlockRange(r)
  BY <1>1, <1>2, HeadIs DEF processBlockRange
<1>4. /\ db' = db \cup blocks /\ channel' = Tail(channel) /\ UNCHANGED consumerOnly
      /\ consumer'.pc = "run" /\ consumer'.processed = HighestIn(r)
      /\ consumer'.synced = IF blocks # {} THEN Highest(blocks) ELSE consumer.synced
  BY <1>2 DEF processBlockRange, Take
<1>5. /\ GetLastBlock.n \in Nat /\ r.range.from \in Nat /\ HighestIn(r) \in Nat
      /\ GetLastBlock.n < r.range.from /\ blocks \subseteq Block
      /\ \A b \in blocks : b.n \in Nat /\ r.range.from <= b.n /\ b.n <= HighestIn(r)
      /\ HighestIn(r) # 0 => r.range.from <= HighestIn(r)
      /\ HighestIn(r) = 0 => blocks = {}
  BY <1>3, AnswerIsNew
<1>6. /\ channel # <<>> /\ main.pc = "wait" /\ channel \in Seq(Msg) /\ r = channel[1]
      /\ UNCHANGED <<main, cmds, filter>> /\ Data(channel, 1) /\ Linked(channel, filter.last)
  BY <1>1, <1>3, <1>4, BeforeAnswer DEF HeadFacts, SaneShapes, Shapes, consumerOnly, prodVars, WhileSameChain
<1> HIDE DEF r, blocks
<1> DEFINE top == Highest(db')
<1>7. top \in db' /\ top.n \in Nat /\ GetLastBlock' = top
  <2>1. db' \subseteq Block /\ db' # {}
    BY <1>1, <1>4, <1>5, LastIs DEF SaneShapes, Shapes
  <2> QED BY <2>1, HighestIs, BlockIs DEF GetLastBlock
<1>8. \A b \in db : b.n \in Nat /\ b.n <= GetLastBlock.n
  BY <1>1, LastIs
<1> HIDE DEF top
<1>9. HighestIn(r) # 0 => top.n <= HighestIn(r)
  BY <1>4, <1>5, <1>7, <1>8
<1>10. blocks # {} => top.n <= Highest(blocks).n
  <2> SUFFICES ASSUME blocks # {} PROVE top.n <= Highest(blocks).n
    OBVIOUS
  <2>1. Highest(blocks) \in blocks /\ \A c \in blocks : c.n <= Highest(blocks).n
    BY <1>5, HighestIs
  <2>2. Highest(blocks).n \in Nat /\ r.range.from <= Highest(blocks).n
    BY <1>5, <2>1
  <2> QED BY <1>4, <1>5, <1>7, <1>8, <2>1, <2>2
<1>11. blocks = {} => top = GetLastBlock
  BY <1>4 DEF top, GetLastBlock
<1>12. ASSUME HighestIn(r) = 0, NEW f \in Nat, NextIs(channel', filter.last, f)
       PROVE  top.n < f
  <2>1. f = After(r)
    BY <1>4, <1>6, <1>12, NextOfTail
  <2>2. f = r.range.from
    BY <1>12, <2>1 DEF After, invalidBlockNumber
  <2> QED BY <1>5, <1>11, <1>12, <2>2
<1>13. top.n <= consumer'.synced.n
  BY <1>1, <1>4, <1>6, <1>10, <1>11 DEF StoresNew
<1>14. StoresNew'
  BY <1>4, <1>6, <1>7, <1>9, <1>12, <1>13 DEF StoresNew
<1>15. UNCHANGED <<l1Vars, prodVars>> /\ cmds = <<>> /\ main'.pc = "wait"
  BY <1>1, <1>4, <1>6 DEF consumerOnly, Booting
<1> QED BY <1>4, <1>6, <1>14, <1>15, ConsumerFrame

\* No block is stored twice, so the table refuses none.
LEMMA NothingRefused ==
  ASSUME Sane, ProcessingFails, faults'.seen = {}
  PROVE  FALSE
<1> DEFINE r == Head(channel)
<1>1. SaneShapes /\ Always
  BY SaneIs
<1>2. PICK b \in BlocksToStore(r) :
        /\ processBlockRange(r, {c \in BlocksToStore(r) : c.n < b.n}, "failed")
        /\ Fault("process") \/ ~Storable({b})
  BY DEF ProcessingFails
<1>3. ~Storable({b})
  BY <1>2 DEF Fault
<1>4. HeadFacts /\ ~IsControl(r) /\ ~WrongBlockRange(r)
  BY <1>1, <1>2, HeadIs DEF processBlockRange
<1>5. /\ GetLastBlock.n \in Nat /\ r.range.from \in Nat /\ GetLastBlock.n < r.range.from
      /\ b.n \in Nat /\ r.range.from <= b.n
  BY <1>2, <1>4, AnswerIsNew
<1> HIDE DEF r
<1>6. \A c \in db : c.n \in Nat /\ c.n <= GetLastBlock.n
  BY <1>1, LastIs
<1> QED BY <1>3, <1>5, <1>6 DEF Storable

LEMMA ConsumerKeeps ==
  ASSUME Sane, Consumer, faults'.seen = {}
  PROVE  WhileNothingFails'
<1>1. Always /\ WhileSameChain
  BY SaneIs
<1> QED BY <1>1, SkipKeeps, FindReorgSame, ProcessKeeps, NothingRefused DEF Consumer

LEMMA MainKeeps ==
  ASSUME Sane, Main, faults'.seen = {}
  PROVE  WhileNothingFails'
<1>1. SaneShapes /\ NothingFailed /\ StoresNew /\ Always /\ WhileSameChain
  BY SaneIs
<1>2. Start \/ (orchestrate /\ consumer.pc = "ended")
  <2>1. ~resetState
    BY <1>1, ResetStateSame
  <2>2. ~checkReorgError
    BY DEF checkReorgError, Fault
  <2>3. ~reset /\ ~QueueReset /\ consumer.pc # "failed"
    BY <1>1 DEF reset, QueueReset, NothingFailed
  <2> QED BY <2>1, <2>2, <2>3 DEF Main, orchestrate
<1>3. main \in MainType /\ consumer \in ConsumerType /\ main.last.n \in 1..MaxBlock
  BY <1>1, MainIs
<1>4. /\ UNCHANGED <<l1Vars, prodVars>> /\ UNCHANGED <<db, cmds, filter, channel>>
  BY <1>2 DEF Start, orchestrate, mainOnly, prodVars
<1>5. GetLastBlock' = GetLastBlock
  BY <1>4 DEF GetLastBlock
<1>6. ASSUME Start
      PROVE  /\ main'.pc = "wait" /\ consumer'.pc # "failed" /\ StoresNew'
  <2> DEFINE p == IF consumer.processed = 0 THEN main.last.n ELSE consumer.processed
  <2>1. /\ main.pc = "check"
        /\ consumer' = [consumer EXCEPT !.pc = "run", !.synced = main.last, !.processed = p]
        /\ main' = [main EXCEPT !.pc = "wait"]
    BY <1>6 DEF Start, invalidBlockNumber
  <2>2. p # 0 /\ GetLastBlock.n <= p /\ GetLastBlock.n <= main.last.n
    BY <1>1, <1>3, <2>1 DEF StoresNew
  <2> HIDE DEF p
  <2>3. /\ consumer'.pc = "run" /\ consumer'.synced = main.last /\ consumer'.processed = p
        /\ main'.pc = "wait"
    BY <1>3, <2>1 DEF ConsumerType, MainType
  <2> QED BY <1>5, <2>2, <2>3 DEF StoresNew
<1>7. ASSUME orchestrate, consumer.pc = "ended"
      PROVE  /\ main'.pc = "check" /\ consumer'.pc # "failed" /\ StoresNew'
  <2>1. /\ main.pc = "wait" /\ main' = [main EXCEPT !.pc = "check", !.last = consumer.synced]
        /\ consumer' = consumer
    BY <1>7 DEF orchestrate
  <2>2. main'.pc = "check" /\ main'.last = consumer.synced
    BY <1>3, <2>1 DEF MainType
  <2> QED BY <1>1, <1>4, <1>5, <1>7, <2>1, <2>2 DEF StoresNew
<1> QED BY <1>2, <1>4, <1>5, <1>6, <1>7, ConsumerFrame

LEMMA InitKeeps ==
  ASSUME Init
  PROVE  WhileNothingFails
<1> DEFINE b == chain[GenesisBlockNum]
<1>1. /\ db = {b} /\ status = "idle" /\ prod = IdleProducer /\ sync = newSyncStatus
      /\ filter = newFilter /\ cmds = <<GenesisBlockNum>> /\ workers = newWorkers
      /\ responses = <<>> /\ channel = <<>> /\ consumer = newConsumer(b) /\ main = newMain(b)
  BY DEF Init
<1>2. Always
  BY InitAlways
<1>3. GetLastBlock = b /\ b.n = GenesisBlockNum /\ GenesisBlockNum \in Nat
  BY <1>1, <1>2, LastIs, ChainIs, Constants
<1>4. /\ filter.last = 0 /\ filter.pending = <<>> /\ prod.pc = "select"
      /\ sync.stored = 0 /\ sync.requested = 0 /\ sync.processing = {} /\ sync.errors = <<>>
      /\ main.pc = "check" /\ main.last = b
      /\ consumer.pc = "ended" /\ consumer.processed = 0
  BY <1>1 DEF newFilter, IdleProducer, newSyncStatus, newMain, newConsumer
<1>5. \A w \in 1..NumWorkers : workers[w] = NoRequest
  BY <1>1 DEF newWorkers
<1>6. DOMAIN responses = {} /\ DOMAIN channel = {} /\ DOMAIN filter.pending = {}
  BY <1>1, <1>4
<1> HIDE DEF b
<1>7. NothingFailed
  BY <1>1, <1>4, <1>6 DEF NothingFailed, AllOk
<1>8. Booting
  BY <1>1, <1>3, <1>4, <1>5 DEF Booting
<1>9. StoresNew
  <2>1. cmds # <<>>
    BY <1>1
  <2> QED BY <1>3, <1>4, <2>1 DEF StoresNew
<1>10. \A p : Below(sync, p) <=> p <= 0
  BY <1>4 DEF Below
<1>11. /\ InFlight(sync, workers, responses) /\ Tiled(sync, filter) /\ LatestIsLast(sync)
       /\ LatestHasEvents(chain, sync, responses)
  BY <1>4, <1>5, <1>6, <1>10 DEF InFlight, Tiled, LatestIsLast, LatestHasEvents
<1>12. EventsCovered(chain, sync)
  BY <1>4, <1>10 DEF EventsCovered
<1>13. /\ PendingPlaces(sync, filter) /\ PendingApart(filter.pending)
       /\ ReadApart(sync, filter.pending) /\ AllSent(prod, filter)
       /\ AnnouncedIsSent(chain, channel, filter.last)
  BY <1>4, <1>6 DEF PendingPlaces, PendingApart, ReadApart, AllSent, AnnouncedIsSent
<1>14. Delivery
  BY <1>11, <1>12, <1>13 DEF Delivery
<1> QED BY <1>7, <1>8, <1>9, <1>14 DEF WhileNothingFails

LEMMA NextKeeps == IInv /\ [Next]_vars => IInv'
<1> SUFFICES ASSUME IInv, [Next]_vars PROVE IInv'
  OBVIOUS
<1>1. Always' /\ SameChain'
  BY NextAlways, NextSame DEF IInv, SameChain
<1>2. ASSUME faults'.seen = {}
      PROVE  WhileNothingFails'
  <2>1. Sane
    BY <1>2, SeenGrows DEF IInv, Sane
  <2>2. CASE UNCHANGED vars
    <3>1. UNCHANGED <<chain, db, status, prod, sync, filter, cmds, workers, responses>>
      BY <2>2 DEF vars, l1Vars, prodVars
    <3>2. UNCHANGED <<channel, consumer, main>>
      BY <2>2 DEF vars
    <3>3. NothingFailed' /\ Booting' /\ StoresNew'
      BY <2>1, <3>1, <3>2, SaneIs DEF NothingFailed, Booting, StoresNew, GetLastBlock
    <3>4. Delivery'
      BY <2>1, <3>1, <3>2, SaneIs DEF Delivery
    <3> QED BY <3>3, <3>4 DEF WhileNothingFails
  <2>3. CASE NewL1Block
    BY <2>1, <2>3, NewL1BlockKeeps
  <2>4. CASE \E h \in GenesisBlockNum..MaxBlock - 1 : L1Reorg(h)
    BY <1>2, <2>4 DEF L1Reorg, Fault
  <2>5. CASE \E w \in 1..NumWorkers : executeRequestRollupInfoByBlockRange(w) \/ RequestFails(w)
    <3>1. \A w \in 1..NumWorkers : ~RequestFails(w)
      BY <1>2 DEF RequestFails, Fault
    <3> QED BY <2>1, <2>5, <3>1, ExecuteKeeps
  <2>6. CASE Producer \/ Consumer \/ Main
    BY <1>2, <2>1, <2>6, ProducerKeeps, ConsumerKeeps, MainKeeps
  <2>7. CASE Crash
    BY <1>2, <2>7 DEF Crash, Fault
  <2> QED BY <2>2, <2>3, <2>4, <2>5, <2>6, <2>7 DEF Next
<1> QED BY <1>1, <1>2 DEF IInv, SameChain

LEMMA IInvHolds == Spec => []IInv
<1>1. Init => IInv
  BY InitAlways, InitSame, InitKeeps DEF IInv
<1> QED BY <1>1, NextKeeps, PTL DEF Spec

\* The step with which a consumer in its place stops.
LEMMA EndStored ==
  ASSUME Sane, processIncommingRollupControlData, consumer'.pc = "ended", InStep
  PROVE  StoredUpTo(Head(channel).upTo)
<1> DEFINE u == Head(channel).upTo
<1>1. SaneShapes /\ Delivery /\ Always /\ WhileSameChain
  BY SaneIs
<1>2. HeadFacts /\ IsControl(Head(channel))
  BY <1>1, HeadIs DEF processIncommingRollupControlData
<1>3. Tail(channel) = <<>>
  <2>1. consumer.pc = "run" /\ consumer \in ConsumerType
    BY <1>1, <1>2, MainIs DEF HeadFacts
  <2>2. consumer' = [consumer EXCEPT !.pc = IF Tail(channel) = <<>> THEN "ended" ELSE @]
    BY DEF processIncommingRollupControlData, Take
  <2> QED BY <2>1, <2>2 DEF ConsumerType
<1>4. /\ channel \in Seq(Msg) /\ Head(channel) = channel[1] /\ 1 \in DOMAIN channel
      /\ consumer.pc = "run" /\ main.pc = "wait" /\ channel # <<>>
  BY <1>1, <1>2 DEF HeadFacts, SaneShapes, Shapes
<1>5. \A k \in DOMAIN channel : k = 1
  <2>1. Len(channel) = 1
    <3>1. Len(Tail(channel)) = Len(channel) - 1 /\ Len(channel) \in Nat
      BY <1>4, TailElements
    <3>2. Len(<<>>) = 0
      OBVIOUS
    <3>3. Len(Tail(channel)) = 0
      BY <1>3, <3>2, Zenon
    <3> QED BY <3>1, <3>3
  <2> QED BY <1>4, <2>1
<1>6. \A k \in DOMAIN channel : IsControl(channel[k]) /\ ~Data(channel, k)
  BY <1>2, <1>4, <1>5 DEF Data
<1>7. Position = filter.last
  <2>1. {i \in DOMAIN channel : ~IsControl(channel[i])} = {}
    BY <1>6
  <2> QED BY <2>1 DEF Position
<1>8. StoredIn(chain, db, filter.last)
  <2>1. PlaceStored(chain, db, channel, filter.last, consumer)
    BY <1>1, <1>4 DEF WhileSameChain, Recovering
  <2>2. filter.last \in Nat
    BY <1>1 DEF SaneShapes, Shapes
  <2>3. CASE consumer.processed = 0
    <3>1. NextIs(channel, filter.last, filter.last + 1)
      BY <1>6 DEF NextIs
    <3>2. filter.last + 1 \in Nat /\ (filter.last + 1) - 1 = filter.last
      BY <2>2
    <3>3. StoredIn(chain, db, (filter.last + 1) - 1)
      BY <2>1, <2>3, <3>1, <3>2 DEF PlaceStored
    <3> QED BY <3>2, <3>3
  <2>4. CASE consumer.processed # 0
    <3>1. consumer.processed = filter.last
      BY <1>7, <2>4 DEF InStep, invalidBlockNumber
    <3> QED BY <2>1, <2>4, <3>1 DEF PlaceStored
  <2> QED BY <2>3, <2>4
<1>9. u <= Len(chain) /\ \A n \in DOMAIN chain : n <= u /\ chain[n].event => n <= filter.last
  BY <1>1, <1>2, <1>4 DEF Delivery, AnnouncedIsSent
<1>10. u \in Nat
  <2>1. Head(channel) \in Msg /\ Head(channel) \notin Response
    BY <1>2, ResponseIs DEF HeadFacts
  <2>2. PICK n \in 1..MaxBlock : Head(channel) = FullySynced(n)
    BY <2>1 DEF Msg
  <2> QED BY <2>2, Constants DEF FullySynced
<1> HIDE DEF u
<1>11. ASSUME NEW n \in GenesisBlockNum..u, chain[n].event
       PROVE  chain[n] \in db
  <2>1. n \in DOMAIN chain /\ n \in Nat /\ GenesisBlockNum <= n /\ n <= u
    <3>1. DOMAIN chain = 1..Len(chain) /\ Len(chain) \in Nat
      BY <1>1, ChainIs
    <3> QED BY <1>9, <1>10, <3>1, Constants
  <2>2. n <= filter.last
    BY <1>9, <1>11, <2>1
  <2>3. n \in GenesisBlockNum..filter.last
    BY <1>1, <2>1, <2>2, Constants DEF SaneShapes, Shapes
  <2> QED BY <1>8, <1>11, <2>3 DEF StoredIn
<1> QED BY <1>11 DEF StoredUpTo, u

\* As long as nothing fails, only the announcement ends the consumer.
LEMMA OnlyControlEnds ==
  ASSUME Sane, [Next]_vars, EndsSynced
  PROVE  processIncommingRollupControlData
<1>1. consumer.pc = "run" /\ consumer'.pc = "ended" /\ faults'.seen = {}
  BY DEF EndsSynced
<1>2. consumer' # consumer
  BY <1>1
<1>3. consumer \in ConsumerType
  BY SaneIs, MainIs
<1>4. Consumer \/ Main \/ Crash
  BY <1>2 DEF Next, vars, NewL1Block, L1Reorg, executeRequestRollupInfoByBlockRange, RequestFails,
         Answered, Producer, resetUnsafe, onResponseRollupInfo, onResponseError, onResponseIgnored,
         sendResultIfPossible, Switch, StepIdle, StepWorking, launchWork, LaunchedAll, Announce, others
<1>5. ~Crash
  BY <1>1 DEF Crash, Fault
<1>6. ~Main
  <2>1. main.pc = "wait"
    BY <1>1, SaneIs DEF Always, ControlOK
  <2> QED BY <1>2, <2>1 DEF Main, Start, resetState, checkReorgError, reset, QueueReset, orchestrate
<1>7. ~IgnoreRange /\ ~FindReorg /\ ~processIncommingRollupInfoData /\ ~ProcessingFails
  <2>1. ~IgnoreRange
    BY <1>2 DEF IgnoreRange, Take
  <2>2. ~FindReorg
    BY SaneIs, FindReorgSame
  <2>3. ~processIncommingRollupInfoData
    <3> SUFFICES ASSUME processIncommingRollupInfoData PROVE FALSE
      OBVIOUS
    <3> DEFINE r == Head(channel)
    <3>1. processBlockRange(r, BlocksToStore(r), "run")
      BY DEF processIncommingRollupInfoData
    <3> HIDE DEF r
    <3>2. consumer'.pc = "run"
      BY <3>1 DEF processBlockRange, Take
    <3> QED BY <1>1, <3>2
  <2>4. ~ProcessingFails
    BY <1>1, NothingRefused
  <2> QED BY <2>1, <2>2, <2>3, <2>4
<1> QED BY <1>4, <1>5, <1>6, <1>7 DEF Consumer

\* As long as nothing fails, a consumer that is in step with the producer and
\* stops with "consumer:stopped because is synchronized" has stored every event
\* up to the last block of L1 the producer knew of: no range is still being
\* read, waiting in the filter or in the channel.
THEOREM SyncedMeansStoredHolds == Spec => SyncedMeansStored
<1>1. IInv /\ [Next]_vars => [EndsSynced /\ InStep => StoredUpTo(Head(channel).upTo)]_vars
  <2> SUFFICES ASSUME IInv, [Next]_vars, EndsSynced, InStep
               PROVE  StoredUpTo(Head(channel).upTo)
    OBVIOUS
  <2>1. Sane
    BY SeenGrows DEF IInv, Sane, EndsSynced
  <2>2. processIncommingRollupControlData
    BY <2>1, OnlyControlEnds
  <2> QED BY <2>1, <2>2, EndStored DEF EndsSynced
<1> QED BY <1>1, IInvHolds, PTL DEF Spec, SyncedMeansStored
=============================================================================

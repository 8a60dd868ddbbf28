-------------------------- MODULE AggregatorProofs --------------------------
(***************************************************************************)
(* Proofs about the aggregator, for any number of provers, batches and     *)
(* faults: no batch is in two proofs, every row is proved or somebody's,   *)
(* and L1 is only asked to verify whole sequences.                         *)
(***************************************************************************)
EXTENDS Aggregator, FiniteSetTheorems, TLAPS

-----------------------------------------------------------------------------
(***************************************************************************)
(* The inductive invariant, in parts.                                      *)
(***************************************************************************)

\* What a prover's loop holds goes with its place in the loop, and while the
\* server is not started no loop runs.
Hands ==
  /\ \A p \in Prover :
       /\ provers[p].pc \in {"final", "sync", "pick"} =>
            IF provers[p].given THEN Len(provers[p].mine) = 1 ELSE provers[p].mine = <<>>
       /\ provers[p].pc \in {"unlock", "proving", "aggregating"} => provers[p].given
       /\ provers[p].pc = "aggregating" =>
            provers[p].mine[2].from = provers[p].mine[1].to + 1
       /\ provers[p].last <= synced
  /\ sender.pc = "boot" => \A p \in Prover : provers[p].mine = <<>> /\ provers[p].pc = "idle"

\* A proof on its way to L1 consists of whole sequences.
Whole ==
  /\ \A p \in Prover : provers[p].pc \in {"build", "send"} =>
       CheckProofContainsCompleteSequences(provers[p].mine[1])
  /\ \A k \in sender.msg : CheckProofContainsCompleteSequences(k)
  /\ WholeSequences

Apart(k, j) == k.to < j.from \/ j.to < k.from

\* What a prover holds, and what the sender has got from one.
Hand(p) == {provers[p].mine[i] : i \in DOMAIN provers[p].mine}
Desk == IF sender.pc \in {"got", "add"} THEN sender.msg ELSE {}

\* Somebody works with the proof k: its row is locked, or was cleaned up
\* because k is verified, and no other row overlaps k.
Claimed(k) ==
  /\ IF k \in DOMAIN proofs THEN ~Unlocked(k) ELSE k.to <= synced
  /\ \A r \in DOMAIN proofs : r = k \/ Apart(r, k)

Claims ==
  /\ \A k \in DOMAIN proofs : proofs[k].since # "stale"
  /\ \A k, j \in DOMAIN proofs : k # j => Apart(k, j)
  /\ \A p \in Prover : \A h \in Hand(p) : Claimed(h)
  /\ \A h \in Desk : Claimed(h)
  /\ \A p, q \in Prover : p # q => \A h \in Hand(p), g \in Hand(q) : Apart(h, g)
  /\ \A p \in Prover : \A h \in Hand(p), g \in Desk : Apart(h, g)

IInv ==
  /\ TypeOK /\ Hands /\ Whole /\ RowsProvedOrOwned
  /\ "slow" \notin faults.seen => Claims

-----------------------------------------------------------------------------
(***************************************************************************)
(* A prover's loop takes a step.                                           *)
(***************************************************************************)
Places == {"idle", "final", "sync", "pick", "build", "send", "aggregate", "aggregating",
           "generate", "proving", "unlock"}

\* What a state of a prover's loop consists of.
LEMMA ProverFacts ==
  ASSUME TypeOK, NEW p \in Prover
  PROVE  /\ provers[p].pc \in Places /\ provers[p].mine \in Seq(Key)
         /\ provers[p].last \in 0..MaxBatch
BY DEF TypeOK, ProverState, Places

\* Only the program counter changes.
LEMMA PcFacts ==
  ASSUME NEW r \in ProverState, NEW c \in Places, NEW s, s = [r EXCEPT !.pc = c]
  PROVE  /\ s \in ProverState /\ s.pc = c /\ s.mine = r.mine /\ s.given = r.given
         /\ s.last = r.last
<1>1. s \in ProverState
  BY DEF ProverState, Places
<1>2. s.pc = c /\ s.mine = r.mine
  BY DEF ProverState
<1>3. s.given = r.given /\ s.last = r.last
  BY Zenon DEF ProverState
<1> QED BY <1>1, <1>2, <1>3

\* Goto changes the place of one prover and nothing else.
LEMMA GotoFacts ==
  ASSUME TypeOK, NEW p \in Prover, NEW c \in Places, Goto(p, c)
  PROVE  /\ provers' \in [Prover -> ProverState]
         /\ provers'[p].pc = c /\ provers'[p].mine = provers[p].mine
         /\ provers'[p].given = provers[p].given /\ provers'[p].last = provers[p].last
         /\ \A q \in Prover : q # p => provers'[q] = provers[q]
<1>1. provers \in [Prover -> ProverState] /\ provers[p] \in ProverState
  BY DEF TypeOK
<1>2. /\ provers'[p] = [provers[p] EXCEPT !.pc = c]
      /\ \A q \in Prover : q # p => provers'[q] = provers[q]
  BY <1>1, Zenon DEF Goto
<1>3. [provers[p] EXCEPT !.pc = c] \in ProverState
  BY <1>1, PcFacts
<1>4. provers' \in [Prover -> ProverState]
  BY <1>1, <1>3, Zenon DEF Goto
<1> QED BY <1>1, <1>2, <1>4, PcFacts

\* Become gives one prover a new state.
LEMMA BecomeFacts ==
  ASSUME TypeOK, NEW p \in Prover, NEW c \in Places, NEW m \in Seq(Key), NEW g \in BOOLEAN,
         Become(p, c, m, g)
  PROVE  /\ provers' \in [Prover -> ProverState]
         /\ provers'[p].pc = c /\ provers'[p].mine = m
         /\ provers'[p].given = g /\ provers'[p].last = 0
         /\ \A q \in Prover : q # p => provers'[q] = provers[q]
<1> DEFINE s == [pc |-> c, mine |-> m, given |-> g, last |-> 0]
<1>1. s \in ProverState
  BY AggregatorAssumption DEF ProverState, Places
<1>2. s.pc = c /\ s.mine = m /\ s.given = g /\ s.last = 0
  OBVIOUS
<1>3. provers' = [provers EXCEPT ![p] = s] /\ provers \in [Prover -> ProverState]
  BY DEF TypeOK, Become
<1> HIDE DEF s
<1> QED BY <1>1, <1>2, <1>3

\* A key is a non-empty interval of batches.
LEMMA KeyFacts ==
  ASSUME NEW k \in Key
  PROVE  /\ k.from \in 1..MaxBatch /\ k.to \in 1..MaxBatch /\ k.from <= k.to
         /\ k.from \in Nat /\ k.to \in Nat /\ ~Apart(k, k)
BY AggregatorAssumption DEF Key, Apart

\* What a prover holds are keys.
LEMMA HandFacts ==
  ASSUME TypeOK, NEW p \in Prover
  PROVE  /\ Hand(p) \subseteq Key
         /\ \A k : Holds(p, k) <=> k \in Hand(p)
         /\ provers[p].mine = <<>> => Hand(p) = {}
         /\ Len(provers[p].mine) = 1 =>
              Hand(p) = {provers[p].mine[1]} /\ provers[p].mine[1] \in Key
         /\ Len(provers[p].mine) = 2 =>
              /\ Hand(p) = {provers[p].mine[1], provers[p].mine[2]}
              /\ provers[p].mine[1] \in Key /\ provers[p].mine[2] \in Key
<1>1. provers[p].mine \in Seq(Key)
  BY ProverFacts
<1> QED BY <1>1 DEF Hand, Holds

\* The place of p in its loop and what it holds go together.
InPlace(p) ==
  /\ provers[p].pc \in {"build", "send", "proving", "unlock"} => Len(provers[p].mine) = 1
  /\ provers[p].pc = "aggregating" =>
       /\ Len(provers[p].mine) = 2
       /\ provers[p].mine[2].from = provers[p].mine[1].to + 1
  /\ provers[p].pc \in {"idle", "aggregate", "generate"} => provers[p].mine = <<>>
  /\ provers[p].pc \in {"final", "sync", "pick"} =>
       IF provers[p].given THEN Len(provers[p].mine) = 1 ELSE provers[p].mine = <<>>
  /\ provers[p].pc \in {"unlock", "proving", "aggregating"} => provers[p].given
  /\ provers[p].last <= synced

FaultsGrow ==
  /\ faults' \in [left : 0..MaxFaults, seen : SUBSET Kinds]
  /\ faults.seen \subseteq faults'.seen

\* The step of a prover that leaves the sender and the requests alone: its
\* shape.
LEMMA ProverShape ==
  ASSUME IInv, FaultsGrow, NEW p \in Prover, sender.pc # "boot", UNCHANGED <<sender, Env>>,
         provers' \in [Prover -> ProverState],
         \A q \in Prover : q # p => provers'[q] = provers[q],
         InPlace(p)',
         DOMAIN proofs' \subseteq Key, proofs' \in [DOMAIN proofs' -> Row],
         provers'[p].pc \in {"build", "send"} =>
           CheckProofContainsCompleteSequences(provers'[p].mine[1])
  PROVE  TypeOK' /\ Hands' /\ Whole'
<1>1. /\ UNCHANGED <<sender, sequences, monitored, clock, verified, synced>>
  BY DEF Env
<1>2. \A q \in Prover : InPlace(q)'
  <2>1. ASSUME NEW q \in Prover, q # p
        PROVE  InPlace(q)'
    <3>1. provers'[q] = provers[q]
      BY <2>1
    <3>2. InPlace(q)
      BY DEF IInv, TypeOK, Hands, InPlace
    <3> QED BY <1>1, <3>1, <3>2 DEF InPlace
  <2> QED BY <2>1
<1>3. TypeOK'
  <2>1. /\ sequences \subseteq Key
        /\ sender \in [pc : {"boot", "recv", "got", "add", "pending"}, msg : SUBSET Key]
        /\ sender.pc \in {"got", "add"} => \E k \in Key : sender.msg = {k}
        /\ sender.pc = "recv" => sender.msg = {}
        /\ sender.pc \in {"boot", "pending"} => \A k \in sender.msg : monitored[k] = "done"
        /\ monitored \in [Key -> {"none", "created", "confirmed", "done"}]
        /\ clock \in [due : BOOLEAN, verifying : BOOLEAN]
        /\ verified \in 0..MaxBatch /\ synced \in 0..verified
    BY DEF IInv, TypeOK
  <2> QED BY <1>1, <1>2, <2>1 DEF TypeOK, InPlace, FaultsGrow
<1>4. Hands'
  BY <1>1, <1>2 DEF Hands, InPlace
<1>5. Whole'
  <2>1. \A q \in Prover : provers'[q].pc \in {"build", "send"} =>
          CheckProofContainsCompleteSequences(provers'[q].mine[1])
    <3>1. \A q \in Prover : q # p => (provers[q].pc \in {"build", "send"} =>
            CheckProofContainsCompleteSequences(provers[q].mine[1]))
      BY DEF IInv, Whole
    <3> QED BY <3>1
  <2> QED BY <1>1, <2>1 DEF IInv, Whole, WholeSequences, CheckProofContainsCompleteSequences
<1> QED BY <1>3, <1>4, <1>5

\* Its rows: a row is as it was and p goes on holding it, if it did, or it is
\* unlocked and proved, or it is locked and p holds it.
LEMMA ProverOwned ==
  ASSUME IInv, FaultsGrow, NEW p \in Prover, UNCHANGED <<sender, Env>>,
         \A q \in Prover : q # p => provers'[q] = provers[q],
         \A k \in DOMAIN proofs' :
           \/ proofs'[k].since = "null" /\ proofs'[k].proof
           \/ proofs'[k].since # "null" /\ Holds(p, k)'
           \/ k \in DOMAIN proofs /\ proofs'[k] = proofs[k] /\ (Holds(p, k) => Holds(p, k)')
  PROVE  RowsProvedOrOwned'
<1>1. UNCHANGED <<sender, monitored>>
  BY DEF Env
<1>2. \A q \in Prover : q # p => \A k : Holds(q, k) => Holds(q, k)'
  BY DEF Holds
<1> SUFFICES ASSUME NEW k \in DOMAIN proofs'
             PROVE  IF Unlocked(k)' THEN proofs'[k].proof
                    ELSE sender'.pc # "boot" /\ "lost" \notin faults'.seen =>
                      \/ \E q \in Prover : Holds(q, k)'
                      \/ k \in sender'.msg
                      \/ monitored'[k] \in {"created", "confirmed"}
  BY DEF RowsProvedOrOwned
<1>3. CASE proofs'[k].since = "null" /\ proofs'[k].proof
  BY <1>3 DEF Unlocked
<1>4. CASE proofs'[k].since # "null" /\ Holds(p, k)'
  BY <1>4 DEF Unlocked
<1>5. CASE k \in DOMAIN proofs /\ proofs'[k] = proofs[k] /\ (Holds(p, k) => Holds(p, k)')
  <2>1. Unlocked(k)' <=> Unlocked(k)
    BY <1>5 DEF Unlocked
  <2>2. CASE Unlocked(k)
    BY <1>5, <2>1, <2>2 DEF IInv, RowsProvedOrOwned
  <2>3. CASE ~Unlocked(k)
    <3> SUFFICES ASSUME sender'.pc # "boot", "lost" \notin faults'.seen
                 PROVE  \/ \E q \in Prover : Holds(q, k)'
                        \/ k \in sender'.msg
                        \/ monitored'[k] \in {"created", "confirmed"}
      BY <2>1, <2>3
    <3>1. \/ \E q \in Prover : Holds(q, k)
          \/ k \in sender.msg
          \/ monitored[k] \in {"created", "confirmed"}
      BY <1>1, <1>5, <2>3 DEF IInv, RowsProvedOrOwned, FaultsGrow
    <3> QED BY <1>1, <1>2, <1>5, <3>1
  <2> QED BY <2>2, <2>3
<1> QED BY <1>3, <1>4, <1>5

-----------------------------------------------------------------------------
(***************************************************************************)
(* Claims.                                                                 *)
(***************************************************************************)
Held(k) == k \in Desk \/ \E p \in Prover : k \in Hand(p)

\* Claims are given up, rows deleted when nobody claims them or they are
\* verified, and rows unlocked that nobody claims any more.
LEMMA ClaimsKept ==
  ASSUME IInv, Claims, synced' \in Nat, synced <= synced',
         DOMAIN proofs' \subseteq DOMAIN proofs,
         \A p \in Prover : Hand(p)' \subseteq Hand(p),
         Desk' \subseteq Desk,
         \A k \in DOMAIN proofs' : proofs'[k].since \in {"null", "fresh"},
         \A k \in DOMAIN proofs' : Held(k)' => ~Unlocked(k)',
         \A k \in DOMAIN proofs \ DOMAIN proofs' : Held(k)' => k.to <= synced'
  PROVE  Claims'
<1>1. synced \in Nat /\ DOMAIN proofs \subseteq Key
  <2>1. verified \in Nat
    BY AggregatorAssumption DEF IInv, TypeOK
  <2> QED BY <2>1 DEF IInv, TypeOK
<1>2. \A p \in Prover : Hand(p) \subseteq Key
  BY HandFacts DEF IInv
<1>3. Desk \subseteq Key
  BY DEF IInv, TypeOK, Desk
<1>4. ASSUME NEW h \in Key, Claimed(h), Held(h)'
      PROVE  Claimed(h)'
  <2>1. CASE h \in DOMAIN proofs'
    BY <1>4, <2>1 DEF Claimed, Apart
  <2>2. CASE h \notin DOMAIN proofs'
    <3>1. h.to <= synced'
      <4>1. CASE h \in DOMAIN proofs
        BY <1>4, <2>2, <4>1
      <4>2. CASE h \notin DOMAIN proofs
        BY <1>1, <1>4, <4>2, KeyFacts DEF Claimed
      <4> QED BY <4>1, <4>2
    <3> QED BY <1>4, <2>2, <3>1 DEF Claimed, Apart
  <2> QED BY <2>1, <2>2
<1>5. \A p \in Prover : \A h \in Hand(p)' : Claimed(h)'
  <2> SUFFICES ASSUME NEW p \in Prover, NEW h \in Hand(p)'
               PROVE  Claimed(h)'
    OBVIOUS
  <2>1. Held(h)' /\ h \in Hand(p) /\ h \in Key
    BY <1>2 DEF Held
  <2>2. Claimed(h)
    BY <2>1 DEF Claims
  <2> QED BY <1>4, <2>1, <2>2
<1>6. \A h \in Desk' : Claimed(h)'
  <2> SUFFICES ASSUME NEW h \in Desk'
               PROVE  Claimed(h)'
    OBVIOUS
  <2>1. Held(h)' /\ h \in Desk /\ h \in Key
    BY <1>3 DEF Held
  <2>2. Claimed(h)
    BY <2>1 DEF Claims
  <2> QED BY <1>4, <2>1, <2>2
<1>7. \A p, q \in Prover : p # q => \A h \in Hand(p)', g \in Hand(q)' : Apart(h, g)
  BY DEF Claims
<1>8. \A p \in Prover : \A h \in Hand(p)', g \in Desk' : Apart(h, g)
  BY DEF Claims
<1>9. \A k, j \in DOMAIN proofs' : k # j => Apart(k, j)
  BY DEF Claims
<1> QED BY <1>5, <1>6, <1>7, <1>8, <1>9 DEF Claims, Apart

\* What p claims nobody else does.
LEMMA NobodyElse ==
  ASSUME IInv, Claims, NEW p \in Prover, NEW k \in Hand(p)
  PROVE  k \notin Desk /\ \A q \in Prover : q # p => k \notin Hand(q)
<1>1. k \in Key
  BY HandFacts DEF IInv
<1> QED BY <1>1, KeyFacts DEF Claims

\* A step of p that leaves the sender alone, gives up claims and changes only
\* rows that p claimed and no longer claims.
LEMMA ProverClaims ==
  ASSUME IInv, Claims, NEW p \in Prover, UNCHANGED <<sender, Env>>,
         \A q \in Prover : q # p => provers'[q] = provers[q],
         Hand(p)' \subseteq Hand(p),
         DOMAIN proofs' \subseteq DOMAIN proofs,
         \A k \in DOMAIN proofs' : \/ proofs'[k] = proofs[k]
                                   \/ /\ k \in Hand(p) \ Hand(p)'
                                      /\ proofs'[k].since \in {"null", "fresh"},
         \A k \in DOMAIN proofs \ DOMAIN proofs' :
            k \in Hand(p) /\ (k \in Hand(p)' => k.to <= synced)
  PROVE  Claims'
<1>1. synced' = synced /\ synced \in Nat /\ Desk' = Desk /\ proofs \in [DOMAIN proofs -> Row]
  <2>1. verified \in Nat
    BY AggregatorAssumption DEF IInv, TypeOK
  <2> QED BY <2>1 DEF IInv, TypeOK, Env, Desk
<1>2. \A q \in Prover : q # p => Hand(q)' = Hand(q)
  BY DEF Hand
<1>3. \A k \in Hand(p) \ Hand(p)' : ~Held(k)'
  BY <1>1, <1>2, NobodyElse DEF Held
<1>4. \A k : Held(k)' => Held(k)
  BY <1>1, <1>2 DEF Held
<1>5. \A k \in DOMAIN proofs' : proofs'[k].since \in {"null", "fresh"}
  BY <1>1 DEF Claims, Row
<1>6. \A k \in DOMAIN proofs' : Held(k)' => ~Unlocked(k)'
  <2> SUFFICES ASSUME NEW k \in DOMAIN proofs', Held(k)'
               PROVE  ~Unlocked(k)'
    OBVIOUS
  <2>1. proofs'[k] = proofs[k]
    BY <1>3
  <2>2. Claimed(k)
    BY <1>4 DEF Held, Claims
  <2> QED BY <2>1, <2>2 DEF Claimed, Unlocked
<1>7. \A k \in DOMAIN proofs \ DOMAIN proofs' : Held(k)' => k.to <= synced'
  BY <1>1, <1>3
<1>8. \A q \in Prover : Hand(q)' \subseteq Hand(q)
  BY <1>2
<1>9. synced <= synced'
  BY <1>1
<1> QED BY <1>1, <1>5, <1>6, <1>7, <1>8, <1>9, ClaimsKept

-----------------------------------------------------------------------------
(***************************************************************************)
(* The provers' steps.                                                     *)
(***************************************************************************)
\* What is known of a prover at a place of its loop.
LEMMA AtFacts ==
  ASSUME IInv, NEW p \in Prover, NEW c, At(p, c)
  PROVE  /\ TypeOK /\ sender.pc # "boot" /\ provers[p].pc = c /\ InPlace(p)
         /\ provers[p].mine \in Seq(Key)
BY ProverFacts DEF IInv, At, InPlace, TypeOK, Hands

\* Where a prover goes on when there is no final proof.
LEMMA NoFinalProofFacts ==
  ASSUME TypeOK, NEW p \in Prover, NoFinalProof(p)
  PROVE  /\ provers' \in [Prover -> ProverState]
         /\ \A q \in Prover : q # p => provers'[q] = provers[q]
         /\ \/ /\ provers[p].given /\ provers'[p].given = provers[p].given
               /\ provers'[p].pc = "unlock"
               /\ provers'[p].mine = provers[p].mine /\ provers'[p].last = provers[p].last
            \/ /\ ~provers[p].given /\ provers'[p].pc = "aggregate"
               /\ provers'[p].mine = <<>> /\ provers'[p].last = 0
<1>1. <<>> \in Seq(Key) /\ FALSE \in BOOLEAN /\ "unlock" \in Places /\ "aggregate" \in Places
  BY DEF Places
<1>2. CASE provers[p].given
  <2>1. Goto(p, "unlock")
    BY <1>2 DEF NoFinalProof
  <2> QED BY <1>1, <1>2, <2>1, GotoFacts
<1>3. CASE ~provers[p].given
  <2>1. Become(p, "aggregate", <<>>, FALSE)
    BY <1>3 DEF NoFinalProof
  <2> QED BY <1>1, <1>3, <2>1, BecomeFacts
<1> QED BY <1>2, <1>3

\* A step that changes nothing but p's place in its loop.
LEMMA ProverQuiet ==
  ASSUME IInv, FaultsGrow, NEW p \in Prover, sender.pc # "boot",
         UNCHANGED <<proofs, sender, Env>>,
         provers' \in [Prover -> ProverState],
         \A q \in Prover : q # p => provers'[q] = provers[q],
         InPlace(p)', provers'[p].mine = provers[p].mine,
         provers'[p].pc \in {"build", "send"} =>
           CheckProofContainsCompleteSequences(provers'[p].mine[1])
  PROVE  IInv'
<1>1. TypeOK' /\ Hands' /\ Whole'
  <2>1. DOMAIN proofs' \subseteq Key /\ proofs' \in [DOMAIN proofs' -> Row]
    BY DEF IInv, TypeOK
  <2> QED BY <2>1, ProverShape
<1>2. \A k : Holds(p, k)' <=> Holds(p, k)
  BY DEF Holds
<1>3. RowsProvedOrOwned'
  BY <1>2, ProverOwned
<1>4. ASSUME Claims PROVE Claims'
  <2>1. Hand(p)' = Hand(p)
    BY DEF Hand
  <2> QED BY <1>4, <2>1, ProverClaims
<1> QED BY <1>1, <1>3, <1>4 DEF IInv, FaultsGrow

\* A round of Channel starts.
LEMMA ChannelIInv ==
  ASSUME IInv, FaultsGrow, NEW p \in Prover, Channel(p)
  PROVE  IInv'
<1>1. At(p, "idle") /\ Become(p, "final", <<>>, FALSE) /\ UNCHANGED <<proofs, sender, Env>>
  BY DEF Channel
<1>2. /\ TypeOK /\ sender.pc # "boot" /\ provers[p].mine = <<>>
  BY <1>1, AtFacts DEF InPlace
<1>3. /\ provers' \in [Prover -> ProverState]
      /\ provers'[p].pc = "final" /\ provers'[p].mine = <<>>
      /\ provers'[p].given = FALSE /\ provers'[p].last = 0
      /\ \A q \in Prover : q # p => provers'[q] = provers[q]
  <2>1. <<>> \in Seq(Key) /\ FALSE \in BOOLEAN /\ "final" \in Places
    BY DEF Places
  <2> QED BY <1>1, <1>2, <2>1, BecomeFacts
<1>4. InPlace(p)'
  BY <1>1, <1>3 DEF InPlace, Env, IInv, TypeOK
<1> QED BY <1>1, <1>2, <1>3, <1>4, ProverQuiet

\* No final proof is built and nothing else happens.
LEMMA NoFinalProofIInv ==
  ASSUME IInv, FaultsGrow, NEW p \in Prover, NEW c \in {"final", "pick"}, At(p, c),
         NoFinalProof(p), UNCHANGED <<proofs, sender, Env>>
  PROVE  IInv'
<1>1. TypeOK /\ sender.pc # "boot" /\ provers[p].pc = c /\ InPlace(p)
  BY AtFacts
<1>2. /\ provers' \in [Prover -> ProverState]
      /\ \A q \in Prover : q # p => provers'[q] = provers[q]
      /\ \/ /\ provers[p].given /\ provers'[p].given = provers[p].given
            /\ provers'[p].pc = "unlock"
            /\ provers'[p].mine = provers[p].mine /\ provers'[p].last = provers[p].last
         \/ /\ ~provers[p].given /\ provers'[p].pc = "aggregate"
            /\ provers'[p].mine = <<>> /\ provers'[p].last = 0
  BY <1>1, NoFinalProofFacts
<1>3. synced' = synced /\ 0 <= synced
  BY DEF Env, IInv, TypeOK
<1>4. CASE provers[p].given
  <2>1. /\ provers'[p].given /\ provers'[p].pc = "unlock"
        /\ provers'[p].mine = provers[p].mine /\ provers'[p].last = provers[p].last
    BY <1>2, <1>4
  <2>2. Len(provers[p].mine) = 1
    BY <1>1, <1>4 DEF InPlace
  <2>3. InPlace(p)'
    BY <1>1, <1>3, <2>1, <2>2 DEF InPlace
  <2> QED BY <1>1, <1>2, <2>1, <2>3, ProverQuiet
<1>5. CASE ~provers[p].given
  <2>1. /\ provers'[p].pc = "aggregate" /\ provers'[p].mine = <<>> /\ provers'[p].last = 0
    BY <1>2, <1>5
  <2>2. provers[p].mine = <<>>
    BY <1>1, <1>5 DEF InPlace
  <2>3. InPlace(p)'
    BY <1>3, <2>1 DEF InPlace
  <2> QED BY <1>1, <1>2, <2>1, <2>2, <2>3, ProverQuiet
<1> QED BY <1>4, <1>5

\* It is, or is not, time to verify a proof.
LEMMA tryBuildFinalProofIInv ==
  ASSUME IInv, FaultsGrow, NEW p \in Prover, tryBuildFinalProof(p)
  PROVE  IInv'
<1>1. At(p, "final") /\ UNCHANGED <<proofs, sender, Env>>
  BY DEF tryBuildFinalProof
<1>2. TypeOK /\ sender.pc # "boot" /\ provers[p].pc = "final" /\ InPlace(p)
  BY <1>1, AtFacts
<1>3. CASE Goto(p, "sync")
  <2>1. /\ provers' \in [Prover -> ProverState]
        /\ provers'[p].pc = "sync" /\ provers'[p].mine = provers[p].mine
        /\ provers'[p].given = provers[p].given /\ provers'[p].last = provers[p].last
        /\ \A q \in Prover : q # p => provers'[q] = provers[q]
    <3>1. "sync" \in Places
      BY DEF Places
    <3> QED BY <1>2, <1>3, <3>1, GotoFacts
  <2>2. InPlace(p)'
    BY <1>1, <1>2, <2>1 DEF InPlace, Env
  <2> QED BY <1>1, <1>2, <2>1, <2>2, ProverQuiet
<1>4. CASE NoFinalProof(p)
  BY <1>1, <1>4, NoFinalProofIInv
<1> QED BY <1>3, <1>4 DEF tryBuildFinalProof

\* The state is synced and the last verified batch is read.
LEMMA WaitSyncedIInv ==
  ASSUME IInv, FaultsGrow, NEW p \in Prover, WaitSynced(p)
  PROVE  IInv'
<1>1. /\ At(p, "sync") /\ UNCHANGED <<proofs, sender, Env>>
      /\ provers' = [provers EXCEPT ![p].pc = "pick", ![p].last = synced]
  BY DEF WaitSynced
<1>2. TypeOK /\ sender.pc # "boot" /\ provers[p].pc = "sync" /\ InPlace(p)
  BY <1>1, AtFacts
<1> DEFINE r == provers[p]
           s == [[r EXCEPT !.pc = "pick"] EXCEPT !.last = synced]
<1>3. r \in ProverState /\ provers \in [Prover -> ProverState] /\ synced \in 0..MaxBatch
  <2>1. verified \in 0..MaxBatch /\ synced \in 0..verified
    BY DEF IInv, TypeOK
  <2> QED BY <2>1, AggregatorAssumption DEF IInv, TypeOK
<1>4. provers'[p] = s /\ \A q \in Prover : q # p => provers'[q] = provers[q]
  BY <1>1, <1>3, Zenon
<1> HIDE DEF r
<1>5. s \in ProverState
  BY <1>3 DEF ProverState
<1>6. s.pc = "pick" /\ s.mine = r.mine /\ s.last = synced
  BY <1>3 DEF ProverState
<1>7. s.given = r.given
  BY <1>3, Zenon DEF ProverState
<1>8. provers' \in [Prover -> ProverState]
  BY <1>1, <1>3, <1>5, Zenon DEF r
<1> HIDE DEF s
<1>9. InPlace(p)'
  BY <1>1, <1>2, <1>3, <1>4, <1>6, <1>7 DEF InPlace, Env, r
<1> QED BY <1>1, <1>2, <1>4, <1>6, <1>8, <1>9, ProverQuiet DEF r

\* The rows after an update and after a deletion.
LEMMA UpdateFacts ==
  ASSUME TypeOK, NEW keys, NEW row \in Row, proofs' = UpdateGeneratedProof(keys, row)
  PROVE  /\ DOMAIN proofs' = DOMAIN proofs /\ proofs' \in [DOMAIN proofs' -> Row]
         /\ \A k \in DOMAIN proofs : proofs'[k] = IF k \in keys THEN row ELSE proofs[k]
BY DEF TypeOK, UpdateGeneratedProof

\* The rows after a deletion.
LEMMA WithoutFacts ==
  ASSUME TypeOK, NEW keys, proofs' = Without(keys)
  PROVE  /\ DOMAIN proofs' = DOMAIN proofs \ keys /\ proofs' \in [DOMAIN proofs' -> Row]
         /\ \A k \in DOMAIN proofs' : proofs'[k] = proofs[k]
BY DEF TypeOK, Without

\* The rows that are written.
LEMMA RowFacts ==
  /\ Unlocking \in Row /\ Unlocking.since = "null" /\ Unlocking.proof = TRUE
  /\ Locking \in Row /\ Locking.since = "fresh"
  /\ NewRow \in Row /\ NewRow.since = "fresh"
BY DEF Unlocking, Locking, NewRow, Row

\* A prover gives up what it holds and unlocks it.
LEMMA ProverUnlocks ==
  ASSUME IInv, FaultsGrow, NEW p \in Prover, sender.pc # "boot", UNCHANGED <<sender, Env>>,
         proofs' = UpdateGeneratedProof(Hand(p), Unlocking),
         NEW c \in {"idle", "aggregate", "generate"},
         Become(p, c, <<>>, FALSE)
  PROVE  IInv'
<1>1. TypeOK
  BY DEF IInv
<1>2. /\ provers' \in [Prover -> ProverState]
      /\ provers'[p].pc = c /\ provers'[p].mine = <<>> /\ provers'[p].last = 0
      /\ \A q \in Prover : q # p => provers'[q] = provers[q]
  <2>1. <<>> \in Seq(Key) /\ FALSE \in BOOLEAN /\ c \in Places
    BY DEF Places
  <2> QED BY <1>1, <2>1, BecomeFacts
<1>3. /\ DOMAIN proofs' = DOMAIN proofs /\ proofs' \in [DOMAIN proofs' -> Row]
      /\ \A k \in DOMAIN proofs : proofs'[k] = IF k \in Hand(p) THEN Unlocking ELSE proofs[k]
  BY <1>1, RowFacts, UpdateFacts
<1>4. TypeOK' /\ Hands' /\ Whole'
  <2>1. InPlace(p)'
    BY <1>2 DEF InPlace, Env, IInv, TypeOK
  <2>2. DOMAIN proofs' \subseteq Key
    BY <1>1, <1>3 DEF TypeOK
  <2> QED BY <1>2, <1>3, <2>1, <2>2, ProverShape
<1>5. RowsProvedOrOwned'
  <2>1. \A k : Holds(p, k) <=> k \in Hand(p)
    BY <1>1, HandFacts
  <2>2. \A k \in DOMAIN proofs' :
          \/ proofs'[k].since = "null" /\ proofs'[k].proof
          \/ k \in DOMAIN proofs /\ proofs'[k] = proofs[k] /\ ~Holds(p, k)
    BY <1>3, <2>1, RowFacts
  <2> QED BY <1>2, <2>2, ProverOwned
<1>6. ASSUME Claims PROVE Claims'
  <2>1. Hand(p)' = {}
    BY <1>2 DEF Hand
  <2>2. \A k \in DOMAIN proofs' :
          \/ proofs'[k] = proofs[k]
          \/ k \in Hand(p) \ Hand(p)' /\ proofs'[k].since \in {"null", "fresh"}
    BY <1>3, <2>1, RowFacts
  <2> QED BY <1>2, <1>3, <1>6, <2>1, <2>2, ProverClaims
<1> QED BY <1>4, <1>5, <1>6 DEF IInv, FaultsGrow

\* The rows inside a proof that somebody claims are that proof's.
LEMMA OnlyOwnRow ==
  ASSUME TypeOK, NEW k \in Key, \A r \in DOMAIN proofs : r = k \/ Apart(r, k)
  PROVE  \A r \in DOMAIN proofs : r.from >= k.from /\ r.to <= k.to => r = k
<1> SUFFICES ASSUME NEW r \in DOMAIN proofs, r.from >= k.from, r.to <= k.to, Apart(r, k)
             PROVE  FALSE
  OBVIOUS
<1>1. r \in Key
  BY DEF TypeOK
<1> QED BY <1>1, KeyFacts DEF Apart

\* A prover deletes the proof it holds, and gives it up or finds it verified.
LEMMA ProverDeletes ==
  ASSUME IInv, FaultsGrow, NEW p \in Prover, sender.pc # "boot", UNCHANGED <<sender, Env>>,
         NEW k \in Key, Hand(p) = {k}, proofs' = DeleteGeneratedProofs(k.from, k.to),
         provers' \in [Prover -> ProverState],
         \A q \in Prover : q # p => provers'[q] = provers[q],
         InPlace(p)', provers'[p].pc \notin {"build", "send"},
         \/ provers'[p].mine = <<>>
         \/ provers'[p].mine = provers[p].mine /\ k.to <= synced
  PROVE  IInv'
<1>1. TypeOK /\ k.from \in Nat /\ k.to \in Nat
  BY KeyFacts DEF IInv
<1> DEFINE gone == {r \in DOMAIN proofs : r.from >= k.from /\ r.to <= k.to}
<1>2. /\ DOMAIN proofs' = DOMAIN proofs \ gone /\ proofs' \in [DOMAIN proofs' -> Row]
      /\ \A r \in DOMAIN proofs' : proofs'[r] = proofs[r]
  <2>1. proofs' = Without(gone)
    BY DEF DeleteGeneratedProofs
  <2> HIDE DEF gone
  <2> QED BY <1>1, <2>1, WithoutFacts
<1>3. k \notin DOMAIN proofs'
  BY <1>1, <1>2
<1>4. TypeOK' /\ Hands' /\ Whole'
  <2>1. DOMAIN proofs' \subseteq Key
    BY <1>1, <1>2 DEF TypeOK
  <2> QED BY <1>2, <2>1, ProverShape
<1>5. RowsProvedOrOwned'
  <2>1. \A r : Holds(p, r) <=> r = k
    BY <1>1, HandFacts
  <2>2. \A r \in DOMAIN proofs' : r \in DOMAIN proofs /\ proofs'[r] = proofs[r] /\ ~Holds(p, r)
    BY <1>2, <1>3, <2>1
  <2> QED BY <2>2, ProverOwned
<1>6. ASSUME Claims PROVE Claims'
  <2>1. \A r \in DOMAIN proofs : r = k \/ Apart(r, k)
    BY <1>6 DEF Claims, Claimed
  <2>2. \A r \in DOMAIN proofs : r.from >= k.from /\ r.to <= k.to => r = k
    BY <1>1, <2>1, OnlyOwnRow
  <2>3. Hand(p)' = {} \/ (Hand(p)' = Hand(p) /\ k.to <= synced)
    BY DEF Hand
  <2>4. \A r \in DOMAIN proofs \ DOMAIN proofs' :
          r \in Hand(p) /\ (r \in Hand(p)' => r.to <= synced)
    BY <1>2, <2>2, <2>3
  <2> QED BY <1>2, <1>6, <2>3, <2>4, ProverClaims
<1> QED BY <1>4, <1>5, <1>6 DEF IInv, FaultsGrow

\* The proof just made is used, kept or deleted.
LEMMA validateEligibleFinalProofIInv ==
  ASSUME IInv, FaultsGrow, NEW p \in Prover, validateEligibleFinalProof(p)
  PROVE  IInv'
<1> DEFINE k == provers[p].mine[1]
<1>1. At(p, "pick") /\ provers[p].given /\ UNCHANGED <<sender, Env>>
  BY DEF validateEligibleFinalProof
<1>2. /\ TypeOK /\ sender.pc # "boot" /\ provers[p].pc = "pick" /\ InPlace(p)
      /\ Len(provers[p].mine) = 1
  BY <1>1, AtFacts DEF InPlace
<1>3. k \in Key /\ Hand(p) = {k}
  BY <1>2, HandFacts
<1>4. synced' = synced
  BY <1>1 DEF Env
<1> HIDE DEF k
<1>5. CASE /\ k.to < provers[p].last + 1 /\ proofs' = DeleteGeneratedProofs(k.from, k.to)
           /\ NoFinalProof(p)
  <2>1. /\ provers' \in [Prover -> ProverState]
        /\ \A q \in Prover : q # p => provers'[q] = provers[q]
        /\ provers'[p].given /\ provers'[p].pc = "unlock"
        /\ provers'[p].mine = provers[p].mine /\ provers'[p].last = provers[p].last
    BY <1>1, <1>2, <1>5, NoFinalProofFacts
  <2>2. InPlace(p)'
    BY <1>2, <1>4, <2>1 DEF InPlace
  <2>3. k.to <= synced
    <3>1. provers[p].last \in Nat /\ k.to \in Nat /\ synced \in Nat /\ provers[p].last <= synced
      <4>1. verified \in Nat /\ synced \in Nat /\ provers[p].last \in Nat
        BY <1>2, ProverFacts, AggregatorAssumption DEF TypeOK
      <4> QED BY <1>2, <1>3, <4>1, KeyFacts DEF InPlace
    <3> QED BY <1>5, <3>1
  <2> QED BY <1>1, <1>2, <1>3, <1>5, <2>1, <2>2, <2>3, ProverDeletes
<1>6. CASE UNCHANGED proofs /\ CheckProofContainsCompleteSequences(k) /\ Goto(p, "build")
  <2>1. /\ provers' \in [Prover -> ProverState]
        /\ provers'[p].pc = "build" /\ provers'[p].mine = provers[p].mine
        /\ provers'[p].given = provers[p].given /\ provers'[p].last = provers[p].last
        /\ \A q \in Prover : q # p => provers'[q] = provers[q]
    <3>1. "build" \in Places
      BY DEF Places
    <3> QED BY <1>2, <1>6, <3>1, GotoFacts
  <2>2. InPlace(p)'
    BY <1>2, <1>4, <2>1 DEF InPlace
  <2>3. CheckProofContainsCompleteSequences(provers'[p].mine[1])
    BY <1>6, <2>1 DEF k
  <2> QED BY <1>1, <1>2, <1>6, <2>1, <2>2, <2>3, ProverQuiet
<1>7. CASE UNCHANGED proofs /\ NoFinalProof(p)
  BY <1>1, <1>7, NoFinalProofIInv
<1> QED BY <1>5, <1>6, <1>7 DEF validateEligibleFinalProof, k

\* The prover returns a final proof.
LEMMA buildFinalProofIInv ==
  ASSUME IInv, FaultsGrow, NEW p \in Prover, buildFinalProof(p)
  PROVE  IInv'
<1>1. At(p, "build") /\ Goto(p, "send") /\ UNCHANGED <<proofs, sender, Env>>
  BY DEF buildFinalProof
<1>2. TypeOK /\ sender.pc # "boot" /\ provers[p].pc = "build" /\ InPlace(p)
  BY <1>1, AtFacts
<1>3. /\ provers' \in [Prover -> ProverState]
      /\ provers'[p].pc = "send" /\ provers'[p].mine = provers[p].mine
      /\ provers'[p].given = provers[p].given /\ provers'[p].last = provers[p].last
      /\ \A q \in Prover : q # p => provers'[q] = provers[q]
  <2>1. "send" \in Places
    BY DEF Places
  <2> QED BY <1>1, <1>2, <2>1, GotoFacts
<1>4. InPlace(p)'
  BY <1>1, <1>2, <1>3 DEF InPlace, Env
<1>5. CheckProofContainsCompleteSequences(provers'[p].mine[1])
  BY <1>2, <1>3 DEF IInv, Whole
<1> QED BY <1>1, <1>2, <1>3, <1>4, <1>5, ProverQuiet

\* The prover fails to build a final proof.
LEMMA buildFinalProofErrorIInv ==
  ASSUME IInv, FaultsGrow, NEW p \in Prover, buildFinalProofError(p)
  PROVE  IInv'
<1>1. At(p, "build") /\ UNCHANGED <<sender, Env>>
  BY DEF buildFinalProofError
<1>2. /\ TypeOK /\ sender.pc # "boot" /\ provers[p].pc = "build" /\ InPlace(p)
      /\ Len(provers[p].mine) = 1
  BY <1>1, AtFacts DEF InPlace
<1>3. CASE provers[p].given
  <2>1. Goto(p, "unlock") /\ proofs' = proofs
    BY <1>3 DEF buildFinalProofError, NoFinalProof
  <2>2. /\ provers' \in [Prover -> ProverState]
        /\ provers'[p].pc = "unlock" /\ provers'[p].mine = provers[p].mine
        /\ provers'[p].given = provers[p].given /\ provers'[p].last = provers[p].last
        /\ \A q \in Prover : q # p => provers'[q] = provers[q]
    <3>1. "unlock" \in Places
      BY DEF Places
    <3> QED BY <1>2, <2>1, <3>1, GotoFacts
  <2>3. InPlace(p)'
    BY <1>1, <1>2, <1>3, <2>2 DEF InPlace, Env
  <2> QED BY <1>1, <1>2, <2>1, <2>2, <2>3, ProverQuiet
<1>4. CASE ~provers[p].given
  <2>1. /\ Become(p, "aggregate", <<>>, FALSE)
        /\ proofs' = UpdateGeneratedProof({provers[p].mine[1]}, Unlocking)
    BY <1>4 DEF buildFinalProofError, NoFinalProof
  <2>2. Hand(p) = {provers[p].mine[1]}
    BY <1>2, HandFacts
  <2> QED BY <1>1, <1>2, <2>1, <2>2, ProverUnlocks
<1> QED BY <1>3, <1>4

\* The proof just made is stored and unlocked.
LEMMA StoreProofIInv ==
  ASSUME IInv, FaultsGrow, NEW p \in Prover, StoreProof(p)
  PROVE  IInv'
<1>1. /\ At(p, "unlock") /\ Become(p, "idle", <<>>, FALSE) /\ UNCHANGED <<sender, Env>>
      /\ proofs' = UpdateGeneratedProof({provers[p].mine[1]}, Unlocking)
  BY DEF StoreProof
<1>2. TypeOK /\ sender.pc # "boot" /\ Len(provers[p].mine) = 1
  BY <1>1, AtFacts DEF InPlace
<1>3. Hand(p) = {provers[p].mine[1]}
  BY <1>2, HandFacts
<1> QED BY <1>1, <1>2, <1>3, ProverUnlocks

\* The aggregation fails and both proofs are unlocked.
LEMMA tryAggregateProofsErrorIInv ==
  ASSUME IInv, FaultsGrow, NEW p \in Prover, tryAggregateProofsError(p)
  PROVE  IInv'
<1>1. /\ At(p, "aggregating") /\ Become(p, "generate", <<>>, FALSE) /\ UNCHANGED <<sender, Env>>
      /\ proofs' = UpdateGeneratedProof({provers[p].mine[1], provers[p].mine[2]}, Unlocking)
  BY DEF tryAggregateProofsError
<1>2. TypeOK /\ sender.pc # "boot" /\ Len(provers[p].mine) = 2
  BY <1>1, AtFacts DEF InPlace
<1>3. Hand(p) = {provers[p].mine[1], provers[p].mine[2]}
  BY <1>2, HandFacts
<1> QED BY <1>1, <1>2, <1>3, ProverUnlocks

\* The prover returns the proof of a batch.
LEMMA tryGenerateBatchProofIInv ==
  ASSUME IInv, FaultsGrow, NEW p \in Prover, tryGenerateBatchProof(p)
  PROVE  IInv'
<1>1. At(p, "proving") /\ Goto(p, "final") /\ UNCHANGED <<proofs, sender, Env>>
  BY DEF tryGenerateBatchProof
<1>2. TypeOK /\ sender.pc # "boot" /\ provers[p].pc = "proving" /\ InPlace(p)
  BY <1>1, AtFacts
<1>3. /\ provers' \in [Prover -> ProverState]
      /\ provers'[p].pc = "final" /\ provers'[p].mine = provers[p].mine
      /\ provers'[p].given = provers[p].given /\ provers'[p].last = provers[p].last
      /\ \A q \in Prover : q # p => provers'[q] = provers[q]
  <2>1. "final" \in Places
    BY DEF Places
  <2> QED BY <1>1, <1>2, <2>1, GotoFacts
<1>4. InPlace(p)'
  BY <1>1, <1>2, <1>3 DEF InPlace, Env
<1> QED BY <1>1, <1>2, <1>3, <1>4, ProverQuiet

\* The prover fails and the row of the batch is deleted.
LEMMA tryGenerateBatchProofErrorIInv ==
  ASSUME IInv, FaultsGrow, NEW p \in Prover, tryGenerateBatchProofError(p)
  PROVE  IInv'
<1> DEFINE k == provers[p].mine[1]
<1>1. /\ At(p, "proving") /\ Become(p, "idle", <<>>, FALSE) /\ UNCHANGED <<sender, Env>>
      /\ proofs' = DeleteGeneratedProofs(k.from, k.to)
  BY DEF tryGenerateBatchProofError
<1>2. TypeOK /\ sender.pc # "boot" /\ Len(provers[p].mine) = 1
  BY <1>1, AtFacts DEF InPlace
<1>3. k \in Key /\ Hand(p) = {k}
  BY <1>2, HandFacts
<1> HIDE DEF k
<1>4. /\ provers' \in [Prover -> ProverState]
      /\ provers'[p].pc = "idle" /\ provers'[p].mine = <<>> /\ provers'[p].last = 0
      /\ \A q \in Prover : q # p => provers'[q] = provers[q]
  <2>1. <<>> \in Seq(Key) /\ FALSE \in BOOLEAN /\ "idle" \in Places
    BY DEF Places
  <2> QED BY <1>1, <1>2, <2>1, BecomeFacts
<1>5. InPlace(p)'
  BY <1>1, <1>4 DEF InPlace, Env, IInv, TypeOK
<1> QED BY <1>1, <1>2, <1>3, <1>4, <1>5, ProverDeletes

\* What somebody else than p claims.
Others(p) == Desk \cup UNION {Hand(q) : q \in Prover \ {p}}

\* A prover claims rows that nobody else does.
LEMMA ClaimsNew ==
  ASSUME IInv, Claims, NEW p \in Prover, UNCHANGED <<sender, Env>>,
         \A q \in Prover : q # p => provers'[q] = provers[q],
         \A k \in DOMAIN proofs' : proofs'[k].since \in {"null", "fresh"},
         \A k, j \in DOMAIN proofs' : k # j => Apart(k, j),
         \A h \in Hand(p)' : h \in DOMAIN proofs' /\ proofs'[h].since = "fresh",
         \A h \in Hand(p)', g \in Others(p) : Apart(h, g),
         \A g \in Others(p) : /\ g \in DOMAIN proofs <=> g \in DOMAIN proofs'
                              /\ g \in DOMAIN proofs => proofs'[g].since = proofs[g].since,
         \A r \in DOMAIN proofs' : r \in DOMAIN proofs \/ r \in Hand(p)'
  PROVE  Claims'
<1>1. synced' = synced /\ Desk' = Desk
  BY DEF Env, Desk
<1>2. \A q \in Prover : q # p => Hand(q)' = Hand(q)
  BY DEF Hand
<1>3. \A h \in Hand(p)' : Claimed(h)'
  BY DEF Claimed, Unlocked, Apart
<1>4. \A g \in Others(p) : Claimed(g)'
  <2> SUFFICES ASSUME NEW g \in Others(p)
               PROVE  Claimed(g)'
    OBVIOUS
  <2>1. Claimed(g)
    BY DEF Others, Claims
  <2>2. \A r \in DOMAIN proofs' : r = g \/ Apart(r, g)
    BY <2>1 DEF Claimed
  <2>3. IF g \in DOMAIN proofs' THEN ~Unlocked(g)' ELSE g.to <= synced'
    BY <1>1, <2>1 DEF Claimed, Unlocked
  <2> QED BY <2>2, <2>3 DEF Claimed, Apart
<1>5. \A h \in Desk : h \in Others(p)
  BY DEF Others
<1>6. \A q \in Prover : q # p => \A h \in Hand(q) : h \in Others(p)
  BY DEF Others
<1>7. \A q \in Prover : \A h \in Hand(q)' : Claimed(h)'
  BY <1>2, <1>3, <1>4, <1>6
<1>8. \A h \in Desk' : Claimed(h)'
  BY <1>1, <1>4, <1>5
<1>9. \A q, s \in Prover : q # s => \A h \in Hand(q)', g \in Hand(s)' : Apart(h, g)
  <2> SUFFICES ASSUME NEW q \in Prover, NEW s \in Prover, q # s,
                      NEW h \in Hand(q)', NEW g \in Hand(s)'
               PROVE  Apart(h, g)
    OBVIOUS
  <2>1. CASE q = p
    BY <1>2, <1>6, <2>1
  <2>2. CASE s = p
    <3>1. Apart(g, h)
      BY <1>2, <1>6, <2>2
    <3> QED BY <3>1 DEF Apart
  <2>3. CASE q # p /\ s # p
    BY <1>2, <2>3 DEF Claims
  <2> QED BY <2>1, <2>2, <2>3
<1>10. \A q \in Prover : \A h \in Hand(q)', g \in Desk' : Apart(h, g)
  BY <1>1, <1>2, <1>5 DEF Claims
<1>11. \A k \in DOMAIN proofs' : proofs'[k].since # "stale"
  OBVIOUS
<1>12. \A k, j \in DOMAIN proofs' : k # j => Apart(k, j)
  OBVIOUS
<1> QED BY <1>7, <1>8, <1>9, <1>10, <1>11, <1>12 DEF Claims, Apart

\* What nobody locked nobody claims.
LEMMA UnlockedIsFree ==
  ASSUME IInv, Claims, NEW p \in Prover, NEW k \in DOMAIN proofs, Unlocked(k)
  PROVE  \A g \in Others(p) : g # k /\ Apart(k, g)
BY DEF Others, Claims, Claimed

\* An empty-handed prover locks and takes unlocked rows.
LEMMA ProverTakes ==
  ASSUME IInv, FaultsGrow, NEW p \in Prover, sender.pc # "boot", UNCHANGED <<sender, Env>>,
         provers[p].mine = <<>>,
         NEW keys \in SUBSET DOMAIN proofs, \A k \in keys : Unlocked(k),
         NEW row \in Row, row.since = "fresh", proofs' = UpdateGeneratedProof(keys, row),
         provers' \in [Prover -> ProverState],
         \A q \in Prover : q # p => provers'[q] = provers[q],
         InPlace(p)', Hand(p)' = keys,
         provers'[p].pc \in {"build", "send"} =>
           CheckProofContainsCompleteSequences(provers'[p].mine[1])
  PROVE  IInv'
<1>1. TypeOK
  BY DEF IInv
<1>2. /\ DOMAIN proofs' = DOMAIN proofs /\ proofs' \in [DOMAIN proofs' -> Row]
      /\ \A k \in DOMAIN proofs : proofs'[k] = IF k \in keys THEN row ELSE proofs[k]
  BY <1>1, UpdateFacts
<1>3. TypeOK' /\ Hands' /\ Whole'
  <2>1. DOMAIN proofs' \subseteq Key
    BY <1>1, <1>2 DEF TypeOK
  <2> QED BY <1>2, <2>1, ProverShape
<1>4. RowsProvedOrOwned'
  <2>1. \A k : (Holds(p, k)' <=> k \in keys) /\ ~Holds(p, k)
    <3>1. \A k : Holds(p, k)' <=> k \in Hand(p)'
      BY DEF Holds, Hand
    <3>2. \A k : ~Holds(p, k)
      BY DEF Holds
    <3> QED BY <3>1, <3>2
  <2>2. \A k \in DOMAIN proofs' :
          \/ proofs'[k].since # "null" /\ Holds(p, k)'
          \/ k \in DOMAIN proofs /\ proofs'[k] = proofs[k] /\ ~Holds(p, k)
    BY <1>2, <2>1
  <2> QED BY <2>2, ProverOwned
<1>5. ASSUME Claims PROVE Claims'
  <2>1. \A k \in keys, g \in Others(p) : g # k /\ Apart(k, g)
    BY <1>5, UnlockedIsFree
  <2>2. \A k \in DOMAIN proofs' : proofs'[k].since \in {"null", "fresh"}
    <3>1. \A k \in DOMAIN proofs : proofs[k].since \in {"null", "fresh"}
      BY <1>1, <1>5 DEF TypeOK, Claims, Row
    <3> QED BY <1>2, <3>1
  <2>3. \A k, j \in DOMAIN proofs' : k # j => Apart(k, j)
    BY <1>2, <1>5 DEF Claims
  <2>4. \A g \in Others(p) : /\ g \in DOMAIN proofs <=> g \in DOMAIN proofs'
                             /\ g \in DOMAIN proofs => proofs'[g].since = proofs[g].since
    BY <1>2, <2>1
  <2>5. \A h \in Hand(p)' : h \in DOMAIN proofs' /\ proofs'[h].since = "fresh"
    BY <1>2
  <2> QED BY <1>2, <1>5, <2>1, <2>2, <2>3, <2>4, <2>5, ClaimsNew
<1> QED BY <1>3, <1>4, <1>5 DEF IInv, FaultsGrow

\* An unlocked proof of whole sequences is locked, if there is one.
LEMMA getAndLockProofReadyToVerifyIInv ==
  ASSUME IInv, FaultsGrow, NEW p \in Prover, getAndLockProofReadyToVerify(p)
  PROVE  IInv'
<1>1. At(p, "pick") /\ ~provers[p].given /\ UNCHANGED <<sender, Env>>
  BY DEF getAndLockProofReadyToVerify
<1>2. /\ TypeOK /\ sender.pc # "boot" /\ provers[p].mine = <<>>
  BY <1>1, AtFacts DEF InPlace
<1>3. ASSUME NEW k \in GetProofReadyToVerify(provers[p].last),
             proofs' = UpdateGeneratedProof({k}, Locked(proofs[k])),
             Become(p, "build", <<k>>, FALSE)
      PROVE  IInv'
  <2>1. /\ k \in DOMAIN proofs /\ Unlocked(k) /\ CheckProofContainsCompleteSequences(k)
        /\ k \in Key
    BY <1>2, <1>3 DEF GetProofReadyToVerify, TypeOK
  <2>2. <<k>> \in Seq(Key) /\ Len(<<k>>) = 1 /\ <<k>>[1] = k /\ DOMAIN <<k>> = {1}
    BY <2>1
  <2>3. /\ provers' \in [Prover -> ProverState]
        /\ provers'[p].pc = "build" /\ provers'[p].mine = <<k>>
        /\ provers'[p].given = FALSE /\ provers'[p].last = 0
        /\ \A q \in Prover : q # p => provers'[q] = provers[q]
    <3>1. FALSE \in BOOLEAN /\ "build" \in Places
      BY DEF Places
    <3> QED BY <1>2, <1>3, <2>2, <3>1, BecomeFacts
  <2>4. Locked(proofs[k]) \in Row /\ Locked(proofs[k]).since = "fresh"
    <3>1. proofs[k] \in Row
      BY <1>2, <2>1 DEF TypeOK
    <3> QED BY <3>1 DEF Row, Locked
  <2>5. InPlace(p)'
    BY <1>1, <2>2, <2>3 DEF InPlace, Env, IInv, TypeOK
  <2>6. Hand(p)' = {k}
    BY <2>2, <2>3 DEF Hand
  <2>7. CheckProofContainsCompleteSequences(provers'[p].mine[1])
    BY <2>1, <2>2, <2>3
  <2>8. {k} \in SUBSET DOMAIN proofs /\ \A j \in {k} : Unlocked(j)
    BY <2>1
  <2> QED BY <1>1, <1>2, <1>3, <2>3, <2>4, <2>5, <2>6, <2>7, <2>8, ProverTakes
<1>4. CASE NoFinalProof(p) /\ UNCHANGED proofs
  BY <1>1, <1>4, NoFinalProofIInv
<1> QED BY <1>3, <1>4 DEF getAndLockProofReadyToVerify

\* Two adjacent unlocked proofs are locked, if there are any.
LEMMA getAndLockProofsToAggregateIInv ==
  ASSUME IInv, FaultsGrow, NEW p \in Prover, getAndLockProofsToAggregate(p)
  PROVE  IInv'
<1>1. At(p, "aggregate") /\ UNCHANGED <<sender, Env>>
  BY DEF getAndLockProofsToAggregate
<1>2. /\ TypeOK /\ sender.pc # "boot" /\ provers[p].mine = <<>>
  BY <1>1, AtFacts DEF InPlace
<1>3. ASSUME NEW pair \in GetProofsToAggregate,
             proofs' = UpdateGeneratedProof({pair[1], pair[2]}, Locking),
             Become(p, "aggregating", pair, TRUE)
      PROVE  IInv'
  <2>1. /\ pair \in (DOMAIN proofs) \X (DOMAIN proofs)
        /\ pair[2].from = pair[1].to + 1 /\ Unlocked(pair[1]) /\ Unlocked(pair[2])
    BY <1>3 DEF GetProofsToAggregate, Aggregatable
  <2>2. pair[1] \in DOMAIN proofs /\ pair[2] \in DOMAIN proofs /\ pair = <<pair[1], pair[2]>>
    BY <2>1
  <2>3. pair \in Seq(Key) /\ Len(pair) = 2 /\ DOMAIN pair = {1, 2}
    <3>1. pair[1] \in Key /\ pair[2] \in Key
      BY <1>2, <2>2 DEF TypeOK
    <3>2. \A a, b \in Key : /\ <<a, b>> \in Seq(Key) /\ Len(<<a, b>>) = 2
                            /\ DOMAIN <<a, b>> = {1, 2}
      OBVIOUS
    <3> QED BY <2>2, <3>1, <3>2, Zenon
  <2>4. /\ provers' \in [Prover -> ProverState]
        /\ provers'[p].pc = "aggregating" /\ provers'[p].mine = pair
        /\ provers'[p].given = TRUE /\ provers'[p].last = 0
        /\ \A q \in Prover : q # p => provers'[q] = provers[q]
    <3>1. TRUE \in BOOLEAN /\ "aggregating" \in Places
      BY DEF Places
    <3> QED BY <1>2, <1>3, <2>3, <3>1, BecomeFacts
  <2>5. InPlace(p)'
    BY <1>1, <2>1, <2>3, <2>4 DEF InPlace, Env, IInv, TypeOK
  <2>6. Hand(p)' = {pair[1], pair[2]}
    BY <2>3, <2>4 DEF Hand
  <2>7. /\ {pair[1], pair[2]} \in SUBSET DOMAIN proofs
        /\ \A j \in {pair[1], pair[2]} : Unlocked(j)
    BY <2>1, <2>2
  <2> QED BY <1>1, <1>2, <1>3, <2>4, <2>5, <2>6, <2>7, RowFacts, ProverTakes
<1>4. CASE Become(p, "generate", <<>>, FALSE) /\ UNCHANGED proofs
  <2>1. /\ provers' \in [Prover -> ProverState]
        /\ provers'[p].pc = "generate" /\ provers'[p].mine = <<>> /\ provers'[p].last = 0
        /\ \A q \in Prover : q # p => provers'[q] = provers[q]
    <3>1. <<>> \in Seq(Key) /\ FALSE \in BOOLEAN /\ "generate" \in Places
      BY DEF Places
    <3> QED BY <1>2, <1>4, <3>1, BecomeFacts
  <2>2. InPlace(p)'
    BY <1>1, <2>1 DEF InPlace, Env, IInv, TypeOK
  <2> QED BY <1>1, <1>2, <1>4, <2>1, <2>2, ProverQuiet
<1> QED BY <1>3, <1>4 DEF getAndLockProofsToAggregate

\* A prover puts a row of its own into the table, in place of what it held.
LEMMA ProverAdds ==
  ASSUME IInv, FaultsGrow, NEW p \in Prover, sender.pc # "boot", UNCHANGED <<sender, Env>>,
         NEW k \in Key, NEW row \in Row, row.since = "fresh",
         DOMAIN proofs' \subseteq DOMAIN proofs \cup {k}, k \in DOMAIN proofs',
         proofs' \in [DOMAIN proofs' -> Row],
         \A r \in DOMAIN proofs' : proofs'[r] = IF r = k THEN row ELSE proofs[r],
         \A r \in DOMAIN proofs' : r # k => r \notin Hand(p),
         provers' \in [Prover -> ProverState],
         \A q \in Prover : q # p => provers'[q] = provers[q],
         InPlace(p)', Hand(p)' = {k}, provers'[p].pc \notin {"build", "send"},
         Claims => /\ \A r \in DOMAIN proofs' : r # k => Apart(r, k)
                   /\ \A g \in Others(p) : /\ Apart(k, g)
                                           /\ g \in DOMAIN proofs => g \in DOMAIN proofs'
  PROVE  IInv'
<1>1. TypeOK
  BY DEF IInv
<1>2. TypeOK' /\ Hands' /\ Whole'
  <2>1. DOMAIN proofs' \subseteq Key
    BY <1>1 DEF TypeOK
  <2> QED BY <2>1, ProverShape
<1>3. RowsProvedOrOwned'
  <2>1. \A r : Holds(p, r)' <=> r = k
    BY DEF Holds, Hand
  <2>2. \A r : Holds(p, r) <=> r \in Hand(p)
    BY <1>1, HandFacts
  <2>3. \A r \in DOMAIN proofs' :
          \/ proofs'[r].since # "null" /\ Holds(p, r)'
          \/ r \in DOMAIN proofs /\ proofs'[r] = proofs[r] /\ ~Holds(p, r)
    BY <2>1, <2>2
  <2> QED BY <2>3, ProverOwned
<1>4. ASSUME Claims PROVE Claims'
  <2>1. \A r \in DOMAIN proofs' : proofs'[r].since \in {"null", "fresh"}
    <3>1. \A r \in DOMAIN proofs : proofs[r].since \in {"null", "fresh"}
      BY <1>1, <1>4 DEF TypeOK, Claims, Row
    <3> QED BY <3>1
  <2>2. \A r, j \in DOMAIN proofs' : r # j => Apart(r, j)
    <3>1. \A r, j \in DOMAIN proofs : r # j => Apart(r, j)
      BY <1>4 DEF Claims
    <3>2. \A r \in DOMAIN proofs' : r # k => Apart(r, k)
      BY <1>4
    <3>3. \A r \in DOMAIN proofs' : r # k => Apart(k, r)
      BY <3>2 DEF Apart
    <3> QED BY <3>1, <3>2, <3>3
  <2>3. \A g \in Others(p) : g # k
    BY <1>4, KeyFacts
  <2>4. \A g \in Others(p) : /\ g \in DOMAIN proofs <=> g \in DOMAIN proofs'
                             /\ g \in DOMAIN proofs => proofs'[g].since = proofs[g].since
    BY <1>4, <2>3
  <2>5. \A h \in Hand(p)', g \in Others(p) : Apart(h, g)
    BY <1>4
  <2>6. \A h \in Hand(p)' : h \in DOMAIN proofs' /\ proofs'[h].since = "fresh"
    OBVIOUS
  <2>7. \A r \in DOMAIN proofs' : r \in DOMAIN proofs \/ r \in Hand(p)'
    OBVIOUS
  <2> QED BY <1>4, <2>1, <2>2, <2>4, <2>5, <2>6, <2>7, ClaimsNew
<1> QED BY <1>2, <1>3, <1>4 DEF IInv, FaultsGrow

\* What is apart from two adjacent proofs is apart from their aggregation.
LEMMA ApartFromBoth ==
  ASSUME NEW a \in Key, NEW b \in Key, b.from = a.to + 1, NEW k \in Key,
         k.from = a.from, k.to = b.to, NEW r \in Key
  PROVE  /\ Apart(r, a) /\ Apart(r, b) => Apart(r, k)
         /\ Apart(a, r) /\ Apart(b, r) => Apart(k, r)
         /\ Apart(r, k) => ~(r.from >= k.from /\ r.to <= k.to)
         /\ Apart(k, r) => ~(r.from >= k.from /\ r.to <= k.to)
<1>1. /\ a.from \in Nat /\ a.to \in Nat /\ b.from \in Nat /\ b.to \in Nat
      /\ r.from \in Nat /\ r.to \in Nat /\ a.from <= a.to /\ b.from <= b.to /\ r.from <= r.to
  BY KeyFacts
<1> QED BY <1>1 DEF Apart

\* What the others claim are keys.
LEMMA OthersAreKeys ==
  ASSUME TypeOK, NEW p \in Prover
  PROVE  Others(p) \subseteq Key
<1>1. Desk \subseteq Key
  BY DEF TypeOK, Desk
<1> QED BY <1>1, HandFacts DEF Others

\* Two proofs are replaced by the one of their union.
LEMMA tryAggregateProofsIInv ==
  ASSUME IInv, FaultsGrow, NEW p \in Prover, tryAggregateProofs(p)
  PROVE  IInv'
<1> DEFINE a == provers[p].mine[1]
           b == provers[p].mine[2]
           k == [from |-> a.from, to |-> b.to]
           gone == {r \in DOMAIN proofs : r.from >= k.from /\ r.to <= k.to}
<1>1. /\ At(p, "aggregating") /\ UNCHANGED <<sender, Env>> /\ Become(p, "final", <<k>>, TRUE)
      /\ proofs' = AddGeneratedProof(DeleteGeneratedProofs(k.from, k.to), k, Locking)
  BY DEF tryAggregateProofs
<1>2. /\ TypeOK /\ sender.pc # "boot" /\ Len(provers[p].mine) = 2 /\ b.from = a.to + 1
  BY <1>1, AtFacts DEF InPlace
<1>3. a \in Key /\ b \in Key /\ Hand(p) = {a, b}
  BY <1>2, HandFacts
<1> HIDE DEF a, b
<1>4. k \in Key /\ k.from = a.from /\ k.to = b.to
  <2>1. /\ a.from \in 1..MaxBatch /\ b.to \in 1..MaxBatch /\ a.from \in Nat /\ a.to \in Nat
        /\ b.from \in Nat /\ b.to \in Nat /\ a.from <= a.to /\ b.from <= b.to
    BY <1>3, KeyFacts
  <2>2. a.from <= b.to
    BY <1>2, <2>1
  <2> QED BY <2>1, <2>2 DEF Key
<1> HIDE DEF k
<1>5. <<k>> \in Seq(Key) /\ Len(<<k>>) = 1 /\ <<k>>[1] = k /\ DOMAIN <<k>> = {1}
  BY <1>4
<1>6. /\ provers' \in [Prover -> ProverState]
      /\ provers'[p].pc = "final" /\ provers'[p].mine = <<k>>
      /\ provers'[p].given = TRUE /\ provers'[p].last = 0
      /\ \A q \in Prover : q # p => provers'[q] = provers[q]
  <2>1. TRUE \in BOOLEAN /\ "final" \in Places
    BY DEF Places
  <2> QED BY <1>1, <1>2, <1>5, <2>1, BecomeFacts
<1>7. InPlace(p)'
  BY <1>1, <1>5, <1>6 DEF InPlace, Env, IInv, TypeOK
<1>8. Hand(p)' = {k}
  BY <1>5, <1>6 DEF Hand
<1>9. /\ DOMAIN proofs' = (DOMAIN proofs \ gone) \cup {k}
      /\ proofs' \in [DOMAIN proofs' -> Row]
      /\ \A r \in DOMAIN proofs' : proofs'[r] = IF r = k THEN Locking ELSE proofs[r]
  <2> DEFINE table == Without(gone)
  <2>1. /\ DOMAIN table = DOMAIN proofs \ gone
        /\ \A r \in DOMAIN table : table[r] = proofs[r] /\ table[r] \in Row
    BY <1>2 DEF Without, TypeOK
  <2>2. proofs' = AddGeneratedProof(table, k, Locking)
    BY <1>1 DEF DeleteGeneratedProofs
  <2> HIDE DEF table, gone
  <2> QED BY <2>1, <2>2, RowFacts DEF AddGeneratedProof
<1>10. \A r \in DOMAIN proofs' : r # k => r \notin Hand(p)
  <2>1. a \notin DOMAIN proofs \ gone
    <3>1. a.from \in Nat /\ a.to \in Nat /\ b.from \in Nat /\ b.to \in Nat /\ b.from <= b.to
      BY <1>3, KeyFacts
    <3> QED BY <1>2, <1>4, <3>1
  <2>2. b \notin DOMAIN proofs \ gone
    <3>1. /\ a.from \in Nat /\ a.to \in Nat /\ b.from \in Nat /\ b.to \in Nat
          /\ a.from <= a.to
      BY <1>3, KeyFacts
    <3> QED BY <1>2, <1>4, <3>1
  <2> QED BY <1>3, <1>9, <2>1, <2>2
<1>11. ASSUME Claims
       PROVE  /\ \A r \in DOMAIN proofs' : r # k => Apart(r, k)
              /\ \A g \in Others(p) : /\ Apart(k, g)
                                      /\ g \in DOMAIN proofs => g \in DOMAIN proofs'
  <2>1. \A r \in DOMAIN proofs : (r = a \/ Apart(r, a)) /\ (r = b \/ Apart(r, b))
    BY <1>3, <1>11 DEF Claims, Claimed
  <2>2. \A r \in DOMAIN proofs' : r # k => Apart(r, k)
    <3> SUFFICES ASSUME NEW r \in DOMAIN proofs', r # k
                 PROVE  Apart(r, k)
      OBVIOUS
    <3>1. r \in DOMAIN proofs /\ r \in Key
      BY <1>2, <1>9 DEF TypeOK
    <3>2. r # a /\ r # b
      BY <1>3, <1>10
    <3> QED BY <1>2, <1>3, <1>4, <2>1, <3>1, <3>2, ApartFromBoth
  <2>3. \A g \in Others(p) : Apart(a, g) /\ Apart(b, g)
    <3>1. \A h \in Hand(p), g \in Others(p) : Apart(h, g)
      BY <1>11 DEF Claims, Others
    <3> QED BY <1>3, <3>1
  <2>4. \A g \in Others(p) : g \in Key
    BY <1>2, OthersAreKeys
  <2>5. \A g \in Others(p) : Apart(k, g) /\ ~(g.from >= k.from /\ g.to <= k.to)
    BY <1>2, <1>3, <1>4, <2>3, <2>4, ApartFromBoth
  <2> QED BY <1>9, <2>2, <2>5
<1> HIDE DEF gone
<1>12. DOMAIN proofs' \subseteq DOMAIN proofs \cup {k} /\ k \in DOMAIN proofs'
  BY <1>9
<1> QED BY <1>1, <1>2, <1>4, <1>6, <1>7, <1>8, <1>9, <1>10, <1>11, <1>12, RowFacts, ProverAdds

\* A batch that no proof holds gets a locked row, if there is one.
LEMMA getAndLockBatchToProveIInv ==
  ASSUME IInv, FaultsGrow, NEW p \in Prover, getAndLockBatchToProve(p)
  PROVE  IInv'
<1>1. At(p, "generate") /\ UNCHANGED <<sender, Env>>
  BY DEF getAndLockBatchToProve
<1>2. TypeOK /\ sender.pc # "boot" /\ provers[p].mine = <<>>
  BY <1>1, AtFacts DEF InPlace
<1>3. CASE Become(p, "idle", <<>>, FALSE) /\ UNCHANGED proofs
  <2>1. /\ provers' \in [Prover -> ProverState]
        /\ provers'[p].pc = "idle" /\ provers'[p].mine = <<>> /\ provers'[p].last = 0
        /\ \A q \in Prover : q # p => provers'[q] = provers[q]
    <3>1. <<>> \in Seq(Key) /\ FALSE \in BOOLEAN /\ "idle" \in Places
      BY DEF Places
    <3> QED BY <1>2, <1>3, <3>1, BecomeFacts
  <2>2. InPlace(p)'
    BY <1>1, <2>1 DEF InPlace, Env, IInv, TypeOK
  <2> QED BY <1>1, <1>2, <1>3, <2>1, <2>2, ProverQuiet
<1>4. ASSUME NEW b \in GetVirtualBatchToProve,
             proofs' = AddGeneratedProof(proofs, [from |-> b, to |-> b], NewRow),
             Become(p, "proving", <<[from |-> b, to |-> b]>>, TRUE)
      PROVE  IInv'
  <2> DEFINE k == [from |-> b, to |-> b]
  <2>1. b \in Virtual /\ b > synced /\ \A r \in DOMAIN proofs : b \notin r.from..r.to
    BY DEF GetVirtualBatchToProve
  <2>2. b \in 1..MaxBatch /\ b \in Nat
    <3>1. PICK s \in sequences : b \in s.from..s.to
      BY <2>1 DEF Virtual
    <3>2. s \in Key
      BY <1>2 DEF TypeOK
    <3> QED BY <3>1, <3>2, KeyFacts, AggregatorAssumption
  <2>3. k \in Key /\ k.from = b /\ k.to = b
    BY <2>2 DEF Key
  <2> HIDE DEF k
  <2>4. <<k>> \in Seq(Key) /\ Len(<<k>>) = 1 /\ <<k>>[1] = k /\ DOMAIN <<k>> = {1}
    BY <2>3
  <2>5. /\ provers' \in [Prover -> ProverState]
        /\ provers'[p].pc = "proving" /\ provers'[p].mine = <<k>>
        /\ provers'[p].given = TRUE /\ provers'[p].last = 0
        /\ \A q \in Prover : q # p => provers'[q] = provers[q]
    <3>1. TRUE \in BOOLEAN /\ "proving" \in Places /\ Become(p, "proving", <<k>>, TRUE)
      BY <1>4 DEF Places, k
    <3> QED BY <1>2, <2>4, <3>1, BecomeFacts
  <2>6. InPlace(p)'
    BY <1>1, <2>4, <2>5 DEF InPlace, Env, IInv, TypeOK
  <2>7. Hand(p)' = {k} /\ Hand(p) = {}
    BY <1>2, <2>4, <2>5 DEF Hand
  <2>8. /\ DOMAIN proofs' = DOMAIN proofs \cup {k} /\ proofs' \in [DOMAIN proofs' -> Row]
        /\ \A r \in DOMAIN proofs' : proofs'[r] = IF r = k THEN NewRow ELSE proofs[r]
    BY <1>2, <1>4, RowFacts DEF TypeOK, AddGeneratedProof, k
  <2>9. ASSUME NEW r \in Key, b \notin r.from..r.to
        PROVE  Apart(r, k) /\ Apart(k, r)
    BY <2>2, <2>3, <2>9, KeyFacts DEF Apart
  <2>10. ASSUME Claims
         PROVE  /\ \A r \in DOMAIN proofs' : r # k => Apart(r, k)
                /\ \A g \in Others(p) : /\ Apart(k, g)
                                        /\ g \in DOMAIN proofs => g \in DOMAIN proofs'
    <3>1. \A r \in DOMAIN proofs : r \in Key
      BY <1>2 DEF TypeOK
    <3>2. \A g \in Others(p) : Apart(k, g)
      <4> SUFFICES ASSUME NEW g \in Others(p)
                   PROVE  Apart(k, g)
        OBVIOUS
      <4>1. g \in Key /\ Claimed(g)
        BY <1>2, <2>10, OthersAreKeys DEF Others, Claims
      <4>2. b \notin g.from..g.to
        <5>1. CASE g \in DOMAIN proofs
          BY <2>1, <5>1
        <5>2. CASE g \notin DOMAIN proofs
          <6>1. g.to <= synced /\ g.to \in Nat /\ g.from \in Nat
            BY <4>1, <5>2, KeyFacts DEF Claimed
          <6>2. verified \in Nat /\ synced \in Nat
            BY <1>2, AggregatorAssumption DEF TypeOK
          <6> QED BY <2>1, <2>2, <6>1, <6>2
        <5> QED BY <5>1, <5>2
      <4> QED BY <2>9, <4>1, <4>2
    <3> QED BY <2>1, <2>8, <2>9, <3>1, <3>2
  <2>11. provers'[p].pc \notin {"build", "send"}
    BY <2>5
  <2> QED BY <1>1, <1>2, <2>3, <2>5, <2>6, <2>7, <2>8, <2>10, <2>11, RowFacts, ProverAdds
<1> QED BY <1>3, <1>4 DEF getAndLockBatchToProve

-----------------------------------------------------------------------------
(***************************************************************************)
(* The steps of the sender and of the environment.                         *)
(***************************************************************************)

\* The sender and the requests.
SenderOK ==
  /\ sender \in [pc : {"boot", "recv", "got", "add", "pending"}, msg : SUBSET Key]
  /\ sender.pc \in {"got", "add"} => \E k \in Key : sender.msg = {k}
  /\ sender.pc = "recv" => sender.msg = {}
  /\ sender.pc \in {"boot", "pending"} => \A k \in sender.msg : monitored[k] = "done"
  /\ monitored \in [Key -> {"none", "created", "confirmed", "done"}]

TimeOK ==
  /\ clock \in [due : BOOLEAN, verifying : BOOLEAN]
  /\ verified \in 0..MaxBatch /\ synced \in 0..verified

\* What the invariant says of the variables other than the provers.
LEMMA IInvFacts ==
  ASSUME IInv
  PROVE  /\ SenderOK /\ TimeOK /\ sequences \subseteq Key
         /\ DOMAIN proofs \subseteq Key /\ proofs \in [DOMAIN proofs -> Row]
         /\ synced \in Nat /\ verified \in Nat /\ synced <= verified
<1>1. SenderOK /\ TimeOK /\ sequences \subseteq Key
  BY DEF IInv, TypeOK, SenderOK, TimeOK
<1>2. DOMAIN proofs \subseteq Key /\ proofs \in [DOMAIN proofs -> Row]
  BY DEF IInv, TypeOK
<1>3. verified \in Nat
  BY <1>1, AggregatorAssumption DEF TimeOK
<1>4. synced \in Nat /\ synced <= verified
  BY <1>1, <1>3 DEF TimeOK
<1> QED BY <1>1, <1>2, <1>3, <1>4

\* A step that leaves the provers alone: its shape.
LEMMA StillShape ==
  ASSUME IInv, FaultsGrow, UNCHANGED provers,
         DOMAIN proofs' \subseteq Key, proofs' \in [DOMAIN proofs' -> Row],
         sequences \subseteq sequences', sequences' \subseteq Key,
         SenderOK', TimeOK', synced <= synced', synced' \in Nat,
         sender'.pc = "boot" => sender.pc = "boot",
         \A k \in sender'.msg : k \in sender.msg \/ monitored[k] # "none",
         \A k \in Key : monitored'[k] # "none" => monitored[k] # "none" \/ k \in sender.msg
  PROVE  TypeOK' /\ Hands' /\ Whole'
<1>1. TypeOK'
  <2>1. /\ provers \in [Prover -> ProverState]
        /\ \A p \in Prover :
             /\ provers[p].pc \in {"build", "send", "proving", "unlock"} =>
                  Len(provers[p].mine) = 1
             /\ provers[p].pc = "aggregating" => Len(provers[p].mine) = 2
             /\ provers[p].pc \in {"idle", "aggregate", "generate"} => provers[p].mine = <<>>
    BY DEF IInv, TypeOK
  <2> QED BY <2>1 DEF TypeOK, SenderOK, TimeOK, FaultsGrow
<1>2. Hands'
  <2>1. \A p \in Prover : provers[p].last <= synced'
    <3> SUFFICES ASSUME NEW p \in Prover PROVE provers[p].last <= synced'
      OBVIOUS
    <3>1. provers[p].last \in Nat /\ provers[p].last <= synced /\ synced \in Nat
      BY ProverFacts, IInvFacts, AggregatorAssumption DEF IInv, Hands
    <3> QED BY <3>1
  <2> QED BY <2>1 DEF IInv, Hands
<1>3. \A k : CheckProofContainsCompleteSequences(k) => CheckProofContainsCompleteSequences(k)'
  BY DEF CheckProofContainsCompleteSequences
<1>4. \A k \in Key : monitored[k] # "none" => CheckProofContainsCompleteSequences(k)
  BY DEF IInv, Whole, WholeSequences
<1>5. \A k \in sender.msg : CheckProofContainsCompleteSequences(k)
  BY DEF IInv, Whole
<1>6. \A k \in sender'.msg : CheckProofContainsCompleteSequences(k)'
  <2>1. sender'.msg \subseteq Key
    BY DEF SenderOK
  <2> QED BY <1>3, <1>4, <1>5, <2>1
<1>7. WholeSequences'
  BY <1>3, <1>4, <1>5 DEF WholeSequences
<1>8. \A p \in Prover : provers[p].pc \in {"build", "send"} =>
        CheckProofContainsCompleteSequences(provers[p].mine[1])'
  <2>1. \A p \in Prover : provers[p].pc \in {"build", "send"} =>
          CheckProofContainsCompleteSequences(provers[p].mine[1])
    BY DEF IInv, Whole
  <2>2. SUFFICES ASSUME NEW p \in Prover, provers[p].pc \in {"build", "send"}
                 PROVE  CheckProofContainsCompleteSequences(provers[p].mine[1])'
    OBVIOUS
  <2>3. CheckProofContainsCompleteSequences(provers[p].mine[1])
    BY <2>1, <2>2
  <2> QED BY <2>3 DEF CheckProofContainsCompleteSequences
<1> QED BY <1>1, <1>2, <1>6, <1>7, <1>8 DEF Whole

\* Its rows: one is unlocked and proved, or it is locked as it was and whoever
\* owned it still does.
LEMMA StillOwned ==
  ASSUME IInv, FaultsGrow, UNCHANGED provers,
         \A k \in DOMAIN proofs' :
           \/ proofs'[k].since = "null" /\ proofs'[k].proof
           \/ /\ k \in DOMAIN proofs /\ ~Unlocked(k) /\ proofs'[k].since # "null"
              /\ sender'.pc # "boot" /\ "lost" \notin faults'.seen =>
                   /\ sender.pc # "boot"
                   /\ k \in sender.msg \/ monitored[k] \in {"created", "confirmed"} =>
                        k \in sender'.msg \/ monitored'[k] \in {"created", "confirmed"}
  PROVE  RowsProvedOrOwned'
<1> SUFFICES ASSUME NEW k \in DOMAIN proofs'
             PROVE  IF Unlocked(k)' THEN proofs'[k].proof
                    ELSE sender'.pc # "boot" /\ "lost" \notin faults'.seen =>
                      \/ \E q \in Prover : Holds(q, k)'
                      \/ k \in sender'.msg
                      \/ monitored'[k] \in {"created", "confirmed"}
  BY DEF RowsProvedOrOwned
<1>1. CASE proofs'[k].since = "null" /\ proofs'[k].proof
  BY <1>1 DEF Unlocked
<1>2. CASE /\ k \in DOMAIN proofs /\ ~Unlocked(k) /\ proofs'[k].since # "null"
           /\ sender'.pc # "boot" /\ "lost" \notin faults'.seen =>
                /\ sender.pc # "boot"
                /\ k \in sender.msg \/ monitored[k] \in {"created", "confirmed"} =>
                     k \in sender'.msg \/ monitored'[k] \in {"created", "confirmed"}
  <2> SUFFICES ASSUME sender'.pc # "boot", "lost" \notin faults'.seen
               PROVE  \/ \E q \in Prover : Holds(q, k)'
                      \/ k \in sender'.msg
                      \/ monitored'[k] \in {"created", "confirmed"}
    BY <1>2 DEF Unlocked
  <2>1. \/ \E q \in Prover : Holds(q, k)
        \/ k \in sender.msg
        \/ monitored[k] \in {"created", "confirmed"}
    BY <1>2 DEF IInv, RowsProvedOrOwned, FaultsGrow
  <2> QED BY <1>2, <2>1 DEF Holds
<1> QED BY <1>1, <1>2

\* The same for a step that leaves the table alone.
LEMMA StillRows ==
  ASSUME IInv, FaultsGrow, UNCHANGED <<provers, proofs>>,
         sender'.pc # "boot" /\ "lost" \notin faults'.seen =>
           /\ sender.pc # "boot"
           /\ \A k \in Key : k \in sender.msg \/ monitored[k] \in {"created", "confirmed"} =>
                k \in sender'.msg \/ monitored'[k] \in {"created", "confirmed"}
  PROVE  RowsProvedOrOwned'
<1>1. \A k \in DOMAIN proofs : Unlocked(k) => proofs[k].since = "null" /\ proofs[k].proof
  BY DEF IInv, RowsProvedOrOwned, Unlocked
<1>2. \A k \in DOMAIN proofs : ~Unlocked(k) => proofs[k].since # "null"
  BY DEF Unlocked
<1>3. DOMAIN proofs \subseteq Key
  BY IInvFacts
<1> QED BY <1>1, <1>2, <1>3, StillOwned

\* The claims of a step that leaves the provers and the table alone.
LEMMA StillClaims ==
  ASSUME IInv, Claims, UNCHANGED <<provers, proofs>>, Desk' \subseteq Desk,
         synced' \in Nat, synced <= synced'
  PROVE  Claims'
<1>1. \A p \in Prover : Hand(p)' = Hand(p)
  BY DEF Hand
<1>2. \A k \in DOMAIN proofs' : proofs'[k].since \in {"null", "fresh"}
  BY IInvFacts DEF Claims, Row
<1>3. \A k \in DOMAIN proofs' : Held(k)' => ~Unlocked(k)'
  BY <1>1 DEF Held, Claims, Claimed, Unlocked
<1> QED BY <1>1, <1>2, <1>3, ClaimsKept
\* The sender starts a verification.
LEMMA startProofVerificationIInv ==
  ASSUME IInv, FaultsGrow, startProofVerification
  PROVE  IInv'
<1>1. /\ sender.pc = "got" /\ UNCHANGED <<sequences, proofs, provers, monitored, verified, synced>>
      /\ sender' = [sender EXCEPT !.pc = "add"] /\ clock' = [clock EXCEPT !.verifying = TRUE]
  BY DEF startProofVerification
<1>2. sender'.pc = "add" /\ sender'.msg = sender.msg /\ Desk' = Desk
  BY <1>1, IInvFacts DEF SenderOK, Desk
<1>3. SenderOK'
  BY <1>1, <1>2, IInvFacts DEF SenderOK
<1>4. TimeOK'
  BY <1>1, IInvFacts DEF TimeOK
<1>5. TypeOK' /\ Hands' /\ Whole'
  BY <1>1, <1>2, <1>3, <1>4, IInvFacts, StillShape
<1>6. RowsProvedOrOwned'
  BY <1>1, <1>2, StillRows
<1>7. ASSUME Claims PROVE Claims'
  BY <1>1, <1>2, <1>7, IInvFacts, StillClaims
<1> QED BY <1>5, <1>6, <1>7 DEF IInv, FaultsGrow

\* The request is added: the proof is now the request's.
LEMMA AddVerificationIInv ==
  ASSUME IInv, FaultsGrow, NEW k \in Key, AddVerification(k)
  PROVE  IInv'
<1>1. /\ sender.pc = "add" /\ sender.msg = {k} /\ monitored[k] = "none"
      /\ monitored' = [monitored EXCEPT ![k] = "created"]
      /\ sender' = [pc |-> "pending", msg |-> {}]
      /\ UNCHANGED <<sequences, proofs, provers, clock, verified, synced>>
  BY DEF AddVerification
<1>2. sender'.pc = "pending" /\ sender'.msg = {} /\ Desk' = {}
  BY <1>1 DEF Desk
<1>3. /\ monitored' \in [Key -> {"none", "created", "confirmed", "done"}]
      /\ monitored'[k] = "created" /\ \A j \in Key : j # k => monitored'[j] = monitored[j]
  BY <1>1, IInvFacts DEF SenderOK
<1>4. SenderOK' /\ TimeOK'
  BY <1>1, <1>3, IInvFacts DEF SenderOK, TimeOK
<1>5. TypeOK' /\ Hands' /\ Whole'
  BY <1>1, <1>2, <1>3, <1>4, IInvFacts, StillShape
<1>6. RowsProvedOrOwned'
  BY <1>1, <1>2, <1>3, StillRows
<1>7. ASSUME Claims PROVE Claims'
  BY <1>1, <1>2, <1>7, IInvFacts, StillClaims
<1> QED BY <1>5, <1>6, <1>7 DEF IInv, FaultsGrow

\* The sender after a failed verification.
LEMMA EndVerificationFacts ==
  ASSUME IInv, EndVerification, UNCHANGED <<monitored, verified, synced>>
  PROVE  /\ SenderOK' /\ TimeOK' /\ sender'.pc = "recv" /\ sender'.msg = {} /\ Desk' = {}
<1>1. sender' = [pc |-> "recv", msg |-> {}] /\ clock' = [clock EXCEPT !.verifying = FALSE]
  BY DEF EndVerification
<1> QED BY <1>1, IInvFacts DEF SenderOK, TimeOK, Desk

\* The request cannot be added: the proof is unlocked.
LEMMA handleFailureIInv ==
  ASSUME IInv, FaultsGrow, NEW k \in Key, handleFailureToAddVerifyBatchToBeMonitored(k)
  PROVE  IInv'
<1>1. /\ sender.pc = "add" /\ sender.msg = {k} /\ EndVerification
      /\ proofs' = UpdateGeneratedProof({k}, Unlocking)
      /\ UNCHANGED <<sequences, provers, monitored, verified, synced>>
  BY DEF handleFailureToAddVerifyBatchToBeMonitored
<1>2. /\ SenderOK' /\ TimeOK' /\ sender'.pc = "recv" /\ sender'.msg = {} /\ Desk' = {}
      /\ Desk = {k}
  BY <1>1, EndVerificationFacts DEF Desk
<1>3. /\ DOMAIN proofs' = DOMAIN proofs /\ proofs' \in [DOMAIN proofs' -> Row]
      /\ \A j \in DOMAIN proofs : proofs'[j] = IF j \in {k} THEN Unlocking ELSE proofs[j]
  BY <1>1, RowFacts, UpdateFacts DEF IInv
<1>4. TypeOK' /\ Hands' /\ Whole'
  BY <1>1, <1>2, <1>3, IInvFacts, StillShape
<1>5. RowsProvedOrOwned'
  <2>1. \A j \in DOMAIN proofs : Unlocked(j) => proofs[j].since = "null" /\ proofs[j].proof
    BY DEF IInv, RowsProvedOrOwned, Unlocked
  <2>2. (proofs'[k].since = "null" /\ proofs'[k].proof) \/ k \notin DOMAIN proofs
    BY <1>3, RowFacts
  <2>3. \A j \in DOMAIN proofs' :
          \/ proofs'[j].since = "null" /\ proofs'[j].proof
          \/ /\ j \in DOMAIN proofs /\ ~Unlocked(j) /\ proofs'[j].since # "null"
             /\ sender.pc # "boot" /\ j \notin sender.msg /\ monitored'[j] = monitored[j]
    <3> SUFFICES ASSUME NEW j \in DOMAIN proofs, j # k, ~Unlocked(j)
                 PROVE  proofs'[j].since # "null"
      BY <1>1, <1>3, <2>1, <2>2
    <3> QED BY <1>3 DEF Unlocked
  <2> QED BY <1>1, <2>3, StillOwned
<1>6. ASSUME Claims PROVE Claims'
  <2>1. \A p \in Prover : Hand(p)' = Hand(p)
    BY <1>1 DEF Hand
  <2>2. \A p \in Prover : k \notin Hand(p)
    BY <1>2, <1>6, KeyFacts DEF Claims
  <2>3. \A j \in DOMAIN proofs' : proofs'[j].since \in {"null", "fresh"}
    BY <1>3, <1>6, RowFacts, IInvFacts DEF Claims, Row
  <2>4. \A j \in DOMAIN proofs' : Held(j)' => ~Unlocked(j)'
    <3> SUFFICES ASSUME NEW j \in DOMAIN proofs, Held(j)'
                 PROVE  ~Unlocked(j)'
      BY <1>3
    <3>1. j # k /\ \E p \in Prover : j \in Hand(p)
      BY <1>2, <2>1, <2>2 DEF Held
    <3>2. Claimed(j)
      BY <1>6, <3>1 DEF Claims
    <3> QED BY <1>3, <3>1, <3>2 DEF Claimed, Unlocked
  <2>5. synced' \in Nat /\ synced <= synced' /\ DOMAIN proofs' \subseteq DOMAIN proofs
    BY <1>1, <1>3, IInvFacts
  <2>6. Desk' \subseteq Desk /\ \A p \in Prover : Hand(p)' \subseteq Hand(p)
    BY <1>2, <2>1
  <2>7. \A j \in DOMAIN proofs \ DOMAIN proofs' : Held(j)' => j.to <= synced'
    BY <1>3
  <2> QED BY <1>6, <2>3, <2>4, <2>5, <2>6, <2>7, ClaimsKept
<1> QED BY <1>4, <1>5, <1>6 DEF IInv, FaultsGrow

\* The batch cannot be read: the lock is lost, and that is remembered.
LEMMA GetBatchByNumberErrorIInv ==
  ASSUME IInv, FaultsGrow, GetBatchByNumberError, "lost" \in faults'.seen
  PROVE  IInv'
<1>1. /\ sender.pc = "add" /\ EndVerification
      /\ UNCHANGED <<sequences, proofs, provers, monitored, verified, synced>>
  BY DEF GetBatchByNumberError
<1>2. /\ SenderOK' /\ TimeOK' /\ sender'.pc = "recv" /\ sender'.msg = {} /\ Desk' = {}
  BY <1>1, EndVerificationFacts
<1>3. TypeOK' /\ Hands' /\ Whole'
  BY <1>1, <1>2, IInvFacts, StillShape
<1>4. RowsProvedOrOwned'
  BY <1>1, StillRows
<1>5. ASSUME Claims PROVE Claims'
  BY <1>1, <1>2, <1>5, IInvFacts, StillClaims
<1> QED BY <1>3, <1>4, <1>5 DEF IInv, FaultsGrow

\* A confirmed request is marked as done.
LEMMA setStatusDoneIInv ==
  ASSUME IInv, FaultsGrow, NEW k \in Key, setStatusDone(k)
  PROVE  IInv'
<1>1. /\ sender.pc \in {"boot", "pending"} /\ sender.msg = {} /\ monitored[k] = "confirmed"
      /\ monitored' = [monitored EXCEPT ![k] = "done"] /\ sender' = [sender EXCEPT !.msg = {k}]
      /\ UNCHANGED <<sequences, proofs, provers, clock, verified, synced>>
  BY DEF setStatusDone
<1>2. sender'.pc = sender.pc /\ sender'.msg = {k} /\ Desk' = {}
  BY <1>1, IInvFacts DEF SenderOK, Desk
<1>3. /\ monitored' \in [Key -> {"none", "created", "confirmed", "done"}]
      /\ monitored'[k] = "done" /\ \A j \in Key : j # k => monitored'[j] = monitored[j]
  BY <1>1, IInvFacts DEF SenderOK
<1>4. SenderOK'
  BY <1>1, <1>2, <1>3, IInvFacts DEF SenderOK
<1>5. TimeOK'
  BY <1>1, IInvFacts DEF TimeOK
<1>6. TypeOK' /\ Hands' /\ Whole'
  BY <1>1, <1>2, <1>3, <1>4, <1>5, IInvFacts, StillShape
<1>7. RowsProvedOrOwned'
  BY <1>1, <1>2, <1>3, StillRows
<1>8. ASSUME Claims PROVE Claims'
  BY <1>1, <1>2, <1>8, IInvFacts, StillClaims
<1> QED BY <1>6, <1>7, <1>8 DEF IInv, FaultsGrow

\* A step of the sender or of the environment that deletes rows and leaves the
\* others as they are.
LEMMA StillWithout ==
  ASSUME IInv, NEW keys, proofs' = Without(keys)
  PROVE  /\ DOMAIN proofs' = DOMAIN proofs \ keys /\ DOMAIN proofs' \subseteq Key
         /\ proofs' \in [DOMAIN proofs' -> Row]
         /\ \A k \in DOMAIN proofs' :
              /\ proofs'[k] = proofs[k] /\ proofs'[k].since = proofs[k].since
              /\ Unlocked(k) => proofs'[k].since = "null" /\ proofs'[k].proof
              /\ ~Unlocked(k) => proofs'[k].since # "null"
<1>1. /\ DOMAIN proofs' = DOMAIN proofs \ keys /\ proofs' \in [DOMAIN proofs' -> Row]
      /\ \A k \in DOMAIN proofs' : proofs'[k] = proofs[k]
  BY WithoutFacts DEF IInv
<1> QED BY <1>1, IInvFacts DEF IInv, RowsProvedOrOwned, Unlocked

\* The proofs up to a verified batch are deleted.
LEMMA handleMonitoredTxResultIInv ==
  ASSUME IInv, FaultsGrow, NEW k \in Key, handleMonitoredTxResult(k)
  PROVE  IInv'
<1> DEFINE old == {j \in DOMAIN proofs : j.to <= k.to}
<1>1. /\ sender.pc \in {"boot", "pending"} /\ sender.msg = {k} /\ k.to <= synced
      /\ proofs' = Without(old) /\ sender' = [sender EXCEPT !.msg = {}]
      /\ UNCHANGED <<sequences, provers, monitored, clock, verified, synced>>
  BY IInvFacts, KeyFacts DEF handleMonitoredTxResult, isSynced, CleanupGeneratedProofs
<1>2. sender'.pc = sender.pc /\ sender'.msg = {} /\ Desk' = {} /\ Desk = {}
  BY <1>1, IInvFacts DEF SenderOK, Desk
<1>3. SenderOK'
  BY <1>1, <1>2, IInvFacts DEF SenderOK
<1>4. TimeOK'
  BY <1>1, IInvFacts DEF TimeOK
<1>5. k \notin DOMAIN proofs \ old /\ \A j \in old : j \in Key /\ j.to <= k.to
  BY KeyFacts, IInvFacts
<1> HIDE DEF old
<1>6. /\ DOMAIN proofs' = DOMAIN proofs \ old /\ DOMAIN proofs' \subseteq Key
      /\ proofs' \in [DOMAIN proofs' -> Row]
      /\ \A j \in DOMAIN proofs' :
           /\ proofs'[j] = proofs[j] /\ proofs'[j].since = proofs[j].since
           /\ Unlocked(j) => proofs'[j].since = "null" /\ proofs'[j].proof
           /\ ~Unlocked(j) => proofs'[j].since # "null"
  BY <1>1, StillWithout
<1>7. TypeOK' /\ Hands' /\ Whole'
  BY <1>1, <1>2, <1>3, <1>4, <1>6, IInvFacts, StillShape
<1>8. RowsProvedOrOwned'
  <2>1. \A j \in DOMAIN proofs' :
          \/ proofs'[j].since = "null" /\ proofs'[j].proof
          \/ j \in DOMAIN proofs /\ ~Unlocked(j) /\ proofs'[j].since # "null" /\ j \notin sender.msg
    BY <1>1, <1>5, <1>6
  <2> QED BY <1>1, <1>2, <2>1, StillOwned
<1>9. ASSUME Claims PROVE Claims'
  <2>1. \A p \in Prover : Hand(p)' = Hand(p)
    BY <1>1 DEF Hand
  <2>2. \A j \in DOMAIN proofs' : proofs'[j].since \in {"null", "fresh"}
    BY <1>6, <1>9, IInvFacts DEF Claims, Row
  <2>3. \A j \in DOMAIN proofs' : Held(j)' => ~Unlocked(j)'
    <3> SUFFICES ASSUME NEW j \in DOMAIN proofs', Held(j)'
                 PROVE  ~Unlocked(j)'
      OBVIOUS
    <3>1. Claimed(j) /\ j \in DOMAIN proofs
      BY <1>2, <1>6, <1>9, <2>1 DEF Claims, Held
    <3> QED BY <1>6, <3>1 DEF Claimed, Unlocked
  <2>4. \A j \in DOMAIN proofs \ DOMAIN proofs' : j.to <= synced'
    <3> SUFFICES ASSUME NEW j \in old PROVE j.to <= synced
      BY <1>1, <1>6
    <3>1. j \in Key /\ j.to <= k.to
      BY <1>5
    <3> QED BY <1>1, <3>1, KeyFacts, IInvFacts
  <2> QED BY <1>1, <1>2, <1>6, <1>9, <2>1, <2>2, <2>3, <2>4, IInvFacts, ClaimsKept
<1> QED BY <1>7, <1>8, <1>9 DEF IInv, FaultsGrow

\* No request is left: the sender waits for the next proof.
LEMMA ProcessPendingIInv ==
  ASSUME IInv, FaultsGrow, ProcessPendingMonitoredTxs
  PROVE  IInv'
<1>1. /\ sender.pc = "pending" /\ sender.msg = {}
      /\ \A k \in Key : monitored[k] \in {"none", "done"}
      /\ sender' = [sender EXCEPT !.pc = "recv"] /\ clock' = [due |-> FALSE, verifying |-> FALSE]
      /\ UNCHANGED <<sequences, proofs, provers, monitored, verified, synced>>
  BY DEF ProcessPendingMonitoredTxs, Settled
<1>2. sender'.pc = "recv" /\ sender'.msg = {} /\ Desk' = {}
  BY <1>1, IInvFacts DEF SenderOK, Desk
<1>3. SenderOK'
  BY <1>1, <1>2, IInvFacts DEF SenderOK
<1>4. TimeOK'
  BY <1>1, IInvFacts DEF TimeOK
<1>5. TypeOK' /\ Hands' /\ Whole'
  BY <1>1, <1>2, <1>3, <1>4, IInvFacts, StillShape
<1>6. RowsProvedOrOwned'
  BY <1>1, StillRows
<1>7. ASSUME Claims PROVE Claims'
  BY <1>1, <1>2, <1>7, IInvFacts, StillClaims
<1> QED BY <1>5, <1>6, <1>7 DEF IInv, FaultsGrow
\* The server starts: locked rows of an earlier life are deleted.
LEMMA StartIInv ==
  ASSUME IInv, FaultsGrow, Start
  PROVE  IInv'
<1> DEFINE held == {k \in DOMAIN proofs : ~Unlocked(k)}
<1>1. /\ sender.pc = "boot" /\ sender.msg = {}
      /\ proofs' = Without(held)
      /\ sender' = [sender EXCEPT !.pc = "recv"] /\ clock' = [due |-> FALSE, verifying |-> FALSE]
      /\ UNCHANGED <<sequences, provers, monitored, verified, synced>>
  BY DEF Start, Settled, DeleteUngeneratedProofs
<1>2. sender'.pc = "recv" /\ sender'.msg = {} /\ Desk' = {}
  BY <1>1, IInvFacts DEF SenderOK, Desk
<1>3. SenderOK'
  BY <1>1, <1>2, IInvFacts DEF SenderOK
<1>4. TimeOK'
  BY <1>1, IInvFacts DEF TimeOK
<1>5. \A k \in DOMAIN proofs \ held : Unlocked(k)
  OBVIOUS
<1> HIDE DEF held
<1>6. /\ DOMAIN proofs' = DOMAIN proofs \ held /\ DOMAIN proofs' \subseteq Key
      /\ proofs' \in [DOMAIN proofs' -> Row]
      /\ \A k \in DOMAIN proofs' :
           /\ proofs'[k] = proofs[k] /\ proofs'[k].since = proofs[k].since
           /\ Unlocked(k) => proofs'[k].since = "null" /\ proofs'[k].proof
           /\ ~Unlocked(k) => proofs'[k].since # "null"
  BY <1>1, StillWithout
<1>7. TypeOK' /\ Hands' /\ Whole'
  BY <1>1, <1>2, <1>3, <1>4, <1>6, IInvFacts, StillShape
<1>8. RowsProvedOrOwned'
  BY <1>1, <1>5, <1>6, StillOwned
<1>9. ASSUME Claims PROVE Claims'
  <2>1. \A p \in Prover : Hand(p) = {} /\ Hand(p)' = {}
    BY <1>1 DEF IInv, Hands, Hand
  <2>2. \A k \in DOMAIN proofs' : proofs'[k].since \in {"null", "fresh"}
    BY <1>5, <1>6
  <2>3. \A k : ~Held(k)'
    BY <1>2, <2>1 DEF Held
  <2>4. synced' \in Nat /\ synced <= synced'
    BY <1>1, IInvFacts
  <2> QED BY <1>2, <1>6, <1>9, <2>1, <2>2, <2>3, <2>4, ClaimsKept
<1> QED BY <1>7, <1>8, <1>9 DEF IInv, FaultsGrow

\* The aggregator dies: nobody holds anything.
LEMMA CrashIInv ==
  ASSUME IInv, FaultsGrow, Crash
  PROVE  IInv'
<1>1. /\ sender' = [pc |-> "boot", msg |-> {}] /\ provers' = [p \in Prover |-> Idle]
      /\ UNCHANGED <<sequences, proofs, monitored, clock, verified, synced>>
  BY DEF Crash
<1>2. /\ Idle \in ProverState /\ Idle.pc = "idle" /\ Idle.mine = <<>> /\ Idle.last = 0
  <2>1. <<>> \in Seq(Key)
    OBVIOUS
  <2> QED BY <2>1, AggregatorAssumption DEF Idle, ProverState
<1>3. provers' \in [Prover -> ProverState] /\ \A p \in Prover : provers'[p] = Idle
  BY <1>1, <1>2
<1>4. SenderOK' /\ TimeOK' /\ sender'.pc = "boot" /\ sender'.msg = {} /\ Desk' = {}
  BY <1>1, IInvFacts DEF SenderOK, TimeOK, Desk
<1>5. TypeOK'
  <2>1. /\ sequences' \subseteq Key /\ DOMAIN proofs' \subseteq Key
        /\ proofs' \in [DOMAIN proofs' -> Row]
    BY <1>1, IInvFacts
  <2> QED BY <1>2, <1>3, <1>4, <2>1 DEF TypeOK, SenderOK, TimeOK, FaultsGrow
<1>6. Hands'
  BY <1>1, <1>2, <1>3, IInvFacts DEF Hands
<1>7. Whole'
  BY <1>1, <1>2, <1>3, <1>4 DEF IInv, Whole, WholeSequences, CheckProofContainsCompleteSequences
<1>8. RowsProvedOrOwned'
  BY <1>1, <1>4 DEF IInv, RowsProvedOrOwned, Unlocked
<1>9. ASSUME Claims PROVE Claims'
  <2>1. \A p \in Prover : Hand(p)' = {}
    BY <1>2, <1>3 DEF Hand
  <2>2. \A k \in DOMAIN proofs' : proofs'[k].since \in {"null", "fresh"}
    BY <1>1, <1>9, IInvFacts DEF Claims, Row
  <2>3. \A k : ~Held(k)'
    BY <1>4, <2>1 DEF Held
  <2>4. synced' \in Nat /\ synced <= synced' /\ DOMAIN proofs' = DOMAIN proofs
    BY <1>1, IInvFacts
  <2> QED BY <1>4, <1>9, <2>1, <2>2, <2>3, <2>4, ClaimsKept
<1> QED BY <1>5, <1>6, <1>7, <1>8, <1>9 DEF IInv, FaultsGrow

\* A step that leaves the provers, the table and the sender alone.
LEMMA OutsideIInv ==
  ASSUME IInv, FaultsGrow, UNCHANGED <<provers, proofs, sender>>,
         sequences \subseteq sequences', sequences' \subseteq Key,
         monitored' \in [Key -> {"none", "created", "confirmed", "done"}],
         \A k \in Key : monitored'[k] = monitored[k]
                        \/ (monitored[k] = "created" /\ monitored'[k] = "confirmed"),
         TimeOK', synced <= synced', synced' \in Nat
  PROVE  IInv'
<1>1. SenderOK'
  <2>1. sender.msg \subseteq Key
    BY IInvFacts DEF SenderOK
  <2> QED BY <2>1, IInvFacts DEF SenderOK
<1>2. \A k \in sender.msg : k \in Key
  BY IInvFacts DEF SenderOK
<1>3. TypeOK' /\ Hands' /\ Whole'
  <2>1. \A k \in Key : monitored'[k] # "none" => monitored[k] # "none"
    OBVIOUS
  <2> QED BY <1>1, <2>1, IInvFacts, StillShape
<1>4. RowsProvedOrOwned'
  <2>1. CASE sender.pc = "boot"
    BY <2>1, StillRows
  <2>2. CASE sender.pc # "boot"
    <3>1. \A k \in Key : monitored[k] \in {"created", "confirmed"} =>
            monitored'[k] \in {"created", "confirmed"}
      OBVIOUS
    <3> QED BY <2>2, <3>1, StillRows
  <2> QED BY <2>1, <2>2
<1>5. ASSUME Claims PROVE Claims'
  <2>1. Desk' = Desk
    BY DEF Desk
  <2> QED BY <1>5, <2>1, StillClaims
<1> QED BY <1>3, <1>4, <1>5 DEF IInv, FaultsGrow

\* It becomes time to verify a proof.
LEMMA VerifyTimeIInv ==
  ASSUME IInv, FaultsGrow, VerifyTime
  PROVE  IInv'
<1>1. /\ clock' = [clock EXCEPT !.due = TRUE]
      /\ UNCHANGED <<sequences, proofs, provers, sender, monitored, verified, synced>>
  BY DEF VerifyTime
<1>2. TimeOK'
  BY <1>1, IInvFacts DEF TimeOK
<1>3. synced <= synced' /\ synced' \in Nat
  BY <1>1, IInvFacts
<1> QED BY <1>1, <1>2, <1>3, IInvFacts, OutsideIInv DEF SenderOK

\* L1 verifies a request.
LEMMA VerifyIInv ==
  ASSUME IInv, FaultsGrow, NEW k \in Key, Verify(k)
  PROVE  IInv'
<1>1. /\ monitored[k] = "created" /\ k.to > verified /\ verified' = k.to
      /\ monitored' = [monitored EXCEPT ![k] = "confirmed"]
      /\ UNCHANGED <<sequences, proofs, provers, sender, clock, synced>>
  BY DEF Verify, Verifiable
<1>2. TimeOK'
  BY <1>1, IInvFacts, KeyFacts DEF TimeOK
<1>3. /\ monitored' \in [Key -> {"none", "created", "confirmed", "done"}]
      /\ \A j \in Key : monitored'[j] = monitored[j]
                        \/ (monitored[j] = "created" /\ monitored'[j] = "confirmed")
  BY <1>1, IInvFacts DEF SenderOK
<1> QED BY <1>1, <1>2, <1>3, IInvFacts, OutsideIInv

\* L1 verifies a proof of another aggregator.
LEMMA VerifyElsewhereIInv ==
  ASSUME IInv, FaultsGrow, VerifyElsewhere
  PROVE  IInv'
<1>1. PICK s \in sequences : s.to > verified /\ verified' = s.to
  BY DEF VerifyElsewhere
<1>2. UNCHANGED <<sequences, proofs, provers, sender, monitored, clock, synced>>
  BY DEF VerifyElsewhere
<1>3. s \in Key
  BY IInvFacts
<1>4. TimeOK'
  BY <1>1, <1>2, <1>3, IInvFacts, KeyFacts DEF TimeOK
<1> QED BY <1>2, <1>4, IInvFacts, OutsideIInv DEF SenderOK

\* The synchronizer learns what L1 verified.
LEMMA SyncVerifiedIInv ==
  ASSUME IInv, FaultsGrow, SyncVerified
  PROVE  IInv'
<1>1. /\ synced' = verified
      /\ UNCHANGED <<sequences, proofs, provers, sender, monitored, clock, verified>>
  BY DEF SyncVerified
<1>2. TimeOK' /\ synced <= synced' /\ synced' \in Nat
  BY <1>1, IInvFacts DEF TimeOK
<1> QED BY <1>1, <1>2, IInvFacts, OutsideIInv DEF SenderOK

\* The synchronizer learns of a sequence.
LEMMA SyncSequenceIInv ==
  ASSUME IInv, FaultsGrow, SyncSequence
  PROVE  IInv'
<1> DEFINE n == Cardinality(Virtual)
<1>1. n \in Nat
  <2>1. Virtual \subseteq 1..MaxBatch
    <3> SUFFICES ASSUME NEW s \in sequences, NEW b \in s.from..s.to
                 PROVE  b \in 1..MaxBatch
      BY DEF Virtual
    <3>1. s \in Key
      BY IInvFacts
    <3> QED BY <3>1, KeyFacts, AggregatorAssumption
  <2>2. IsFiniteSet(1..MaxBatch)
    BY FS_Interval, AggregatorAssumption
  <2> QED BY <2>1, <2>2, FS_Subset, FS_CardinalityType
<1> HIDE DEF n
<1>2. PICK to \in (n + 1)..MaxBatch : sequences' = sequences \cup {[from |-> n + 1, to |-> to]}
  BY DEF SyncSequence, n
<1>3. UNCHANGED <<proofs, provers, sender, monitored, clock, verified, synced>>
  BY DEF SyncSequence
<1>4. [from |-> n + 1, to |-> to] \in Key
  BY <1>1, <1>2, AggregatorAssumption DEF Key
<1>5. TimeOK'
  BY <1>3, IInvFacts DEF TimeOK
<1> QED BY <1>2, <1>3, <1>4, <1>5, IInvFacts, OutsideIInv DEF SenderOK

\* Locks outlast the threshold, and that is remembered.
LEMMA AgeIInv ==
  ASSUME IInv, FaultsGrow, Age, "slow" \in faults'.seen
  PROVE  IInv'
<1>1. /\ UNCHANGED <<sequences, provers, sender, monitored, clock, verified, synced>>
      /\ proofs' = [k \in DOMAIN proofs |-> IF Unlocked(k) THEN proofs[k]
                                            ELSE [since |-> "stale", proof |-> proofs[k].proof]]
  BY DEF Age
<1>2. DOMAIN proofs' = DOMAIN proofs /\ proofs' \in [DOMAIN proofs' -> Row]
  BY <1>1, IInvFacts DEF Row
<1>3. \A k \in DOMAIN proofs : IF Unlocked(k) THEN proofs'[k] = proofs[k]
                               ELSE proofs'[k].since = "stale"
  BY <1>1
<1>4. SenderOK' /\ TimeOK'
  BY <1>1, IInvFacts DEF SenderOK, TimeOK
<1>5. TypeOK' /\ Hands' /\ Whole'
  <2>1. /\ DOMAIN proofs' \subseteq Key /\ sequences \subseteq sequences' /\ sequences' \subseteq Key
        /\ synced <= synced' /\ synced' \in Nat
    BY <1>1, <1>2, IInvFacts
  <2>2. \A k \in Key : monitored'[k] # "none" => monitored[k] # "none"
    BY <1>1
  <2> QED BY <1>1, <1>2, <1>4, <2>1, <2>2, StillShape
<1>6. RowsProvedOrOwned'
  <2>1. \A k \in DOMAIN proofs' :
          \/ proofs'[k].since = "null" /\ proofs'[k].proof
          \/ k \in DOMAIN proofs /\ ~Unlocked(k) /\ proofs'[k].since # "null"
    BY <1>2, <1>3 DEF IInv, RowsProvedOrOwned, Unlocked
  <2> QED BY <1>1, <2>1, StillOwned
<1> QED BY <1>5, <1>6 DEF IInv

\* Locks that outlasted the threshold are deleted.
LEMMA cleanupLockedProofsIInv ==
  ASSUME IInv, FaultsGrow, cleanupLockedProofs
  PROVE  IInv'
<1> DEFINE stale == {k \in DOMAIN proofs : proofs[k].since = "stale"}
<1>1. /\ UNCHANGED <<sequences, provers, sender, monitored, clock, verified, synced>>
      /\ proofs' = Without(stale)
  BY DEF cleanupLockedProofs
<1>2. ~Claims
  BY DEF cleanupLockedProofs, Claims
<1> HIDE DEF stale
<1>3. /\ DOMAIN proofs' = DOMAIN proofs \ stale /\ DOMAIN proofs' \subseteq Key
      /\ proofs' \in [DOMAIN proofs' -> Row]
      /\ \A k \in DOMAIN proofs' :
           /\ proofs'[k] = proofs[k] /\ proofs'[k].since = proofs[k].since
           /\ Unlocked(k) => proofs'[k].since = "null" /\ proofs'[k].proof
           /\ ~Unlocked(k) => proofs'[k].since # "null"
  BY <1>1, StillWithout
<1>4. SenderOK' /\ TimeOK'
  BY <1>1, IInvFacts DEF SenderOK, TimeOK
<1>5. TypeOK' /\ Hands' /\ Whole'
  <2>1. /\ sequences \subseteq sequences' /\ sequences' \subseteq Key
        /\ synced <= synced' /\ synced' \in Nat
    BY <1>1, IInvFacts
  <2>2. \A k \in Key : monitored'[k] # "none" => monitored[k] # "none"
    BY <1>1
  <2> QED BY <1>1, <1>3, <1>4, <2>1, <2>2, StillShape
<1>6. RowsProvedOrOwned'
  <2>1. \A k \in DOMAIN proofs' :
          \/ proofs'[k].since = "null" /\ proofs'[k].proof
          \/ k \in DOMAIN proofs /\ ~Unlocked(k) /\ proofs'[k].since # "null"
    BY <1>3
  <2> QED BY <1>1, <2>1, StillOwned
<1> QED BY <1>2, <1>5, <1>6 DEF IInv, FaultsGrow
-----------------------------------------------------------------------------
(***************************************************************************)
(* A prover hands its proof over: the claim moves from its hand to the     *)
(* sender's desk, which is empty.                                          *)
(***************************************************************************)
\* The claim on the proof moves from the prover to the sender.
LEMMA SendMsgClaims ==
  ASSUME IInv, Claims, NEW p \in Prover, Desk = {}, Desk' = Hand(p), Hand(p)' = {},
         \A q \in Prover : q # p => provers'[q] = provers[q], UNCHANGED <<proofs, Env>>
  PROVE  Claims'
<1>1. \A q \in Prover : q # p => Hand(q)' = Hand(q)
  BY DEF Hand
<1>2. \A h : Claimed(h) => Claimed(h)'
  BY DEF Env, Claimed, Unlocked, Apart
<1>3. \A q \in Prover : \A h \in Hand(q)' : Claimed(h)'
  BY <1>1, <1>2 DEF Claims
<1>4. \A h \in Desk' : Claimed(h)'
  BY <1>2 DEF Claims
<1>5. \A q, r \in Prover : q # r => \A h \in Hand(q)', g \in Hand(r)' : Apart(h, g)
  BY <1>1 DEF Claims
<1>6. \A q \in Prover : \A h \in Hand(q)', g \in Desk' : Apart(h, g)
  BY <1>1 DEF Claims
<1>7. \A k, j \in DOMAIN proofs' : k # j => Apart(k, j)
  BY DEF Claims
<1>8. \A k \in DOMAIN proofs' : proofs'[k].since # "stale"
  BY DEF Claims
<1> QED BY <1>3, <1>4, <1>5, <1>6, <1>7, <1>8 DEF Claims, Apart

\* The sender takes the final proof.
LEMMA SendMsgIInv ==
  ASSUME IInv, FaultsGrow, NEW p \in Prover, SendMsg(p)
  PROVE  IInv'
<1> DEFINE k == provers[p].mine[1]
<1>1. /\ At(p, "send") /\ sender.pc = "recv" /\ sender' = [pc |-> "got", msg |-> {k}]
      /\ UNCHANGED <<proofs, Env>>
  BY DEF SendMsg
<1>2. /\ TypeOK /\ provers[p].pc = "send" /\ Len(provers[p].mine) = 1
  BY <1>1, AtFacts DEF InPlace
<1>3. k \in Key /\ Hand(p) = {k} /\ CheckProofContainsCompleteSequences(k)
  BY <1>2, HandFacts DEF IInv, Whole
<1> HIDE DEF k
<1>4. /\ provers' \in [Prover -> ProverState]
      /\ provers'[p].pc \in {"idle", "aggregate"} /\ provers'[p].mine = <<>> /\ provers'[p].last = 0
      /\ \A q \in Prover : q # p => provers'[q] = provers[q]
  <2>1. <<>> \in Seq(Key) /\ FALSE \in BOOLEAN /\ "idle" \in Places /\ "aggregate" \in Places
    BY DEF Places
  <2>2. CASE Become(p, "idle", <<>>, FALSE)
    BY <1>2, <2>1, <2>2, BecomeFacts
  <2>3. CASE Become(p, "aggregate", <<>>, FALSE)
    BY <1>2, <2>1, <2>3, BecomeFacts
  <2> QED BY <2>2, <2>3 DEF SendMsg
<1>5. /\ sender'.pc = "got" /\ sender'.msg = {k} /\ Desk = {} /\ Desk' = {k} /\ Hand(p)' = {}
  BY <1>1, <1>4 DEF Desk, Hand
<1>6. UNCHANGED <<sequences, monitored, clock, verified, synced>>
  BY <1>1 DEF Env
<1>7. SenderOK' /\ TimeOK'
  BY <1>1, <1>3, <1>6, IInvFacts DEF SenderOK, TimeOK
<1>8. \A q \in Prover : InPlace(q)'
  <2>1. InPlace(p)'
    BY <1>4, <1>6, IInvFacts DEF InPlace
  <2>2. \A q \in Prover : InPlace(q)
    BY DEF IInv, TypeOK, Hands, InPlace
  <2>3. ASSUME NEW q \in Prover, q # p PROVE InPlace(q)'
    BY <1>4, <1>6, <2>2, <2>3 DEF InPlace
  <2> QED BY <2>1, <2>3
<1>9. TypeOK'
  BY <1>1, <1>4, <1>6, <1>7, <1>8, IInvFacts DEF TypeOK, SenderOK, TimeOK, InPlace, FaultsGrow
<1>10. Hands'
  BY <1>5, <1>8 DEF Hands, InPlace
<1>11. Whole'
  <2>1. \A q \in Prover : provers'[q].pc \in {"build", "send"} =>
          CheckProofContainsCompleteSequences(provers'[q].mine[1])
    BY <1>4 DEF IInv, Whole
  <2> QED BY <1>3, <1>5, <1>6, <2>1
         DEF IInv, Whole, WholeSequences, CheckProofContainsCompleteSequences
<1>12. RowsProvedOrOwned'
  <2> SUFFICES ASSUME NEW j \in DOMAIN proofs
               PROVE  IF Unlocked(j) THEN proofs[j].proof
                      ELSE "lost" \notin faults'.seen =>
                        \/ \E q \in Prover : Holds(q, j)'
                        \/ j \in sender'.msg
                        \/ monitored[j] \in {"created", "confirmed"}
    BY <1>1, <1>6 DEF RowsProvedOrOwned, Unlocked
  <2>1. CASE Unlocked(j)
    BY <2>1 DEF IInv, RowsProvedOrOwned
  <2>2. CASE ~Unlocked(j)
    <3> SUFFICES ASSUME "lost" \notin faults.seen
                 PROVE  \/ \E q \in Prover : Holds(q, j)'
                        \/ j \in sender'.msg
                        \/ monitored[j] \in {"created", "confirmed"}
      BY <2>2 DEF FaultsGrow
    <3>1. \/ \E q \in Prover : Holds(q, j)
          \/ j \in sender.msg
          \/ monitored[j] \in {"created", "confirmed"}
      BY <1>1, <2>2 DEF IInv, RowsProvedOrOwned
    <3>2. CASE Holds(p, j)
      BY <1>2, <1>3, <1>5, <3>2, HandFacts
    <3>3. CASE \E q \in Prover : q # p /\ Holds(q, j)
      BY <1>4, <3>3 DEF Holds
    <3>4. j \notin sender.msg
      BY <1>1, IInvFacts DEF SenderOK
    <3> QED BY <3>1, <3>2, <3>3, <3>4
  <2> QED BY <2>1, <2>2
<1>13. ASSUME Claims PROVE Claims'
  BY <1>1, <1>3, <1>4, <1>5, <1>13, SendMsgClaims
<1> QED BY <1>9, <1>10, <1>11, <1>12, <1>13 DEF IInv, FaultsGrow
-----------------------------------------------------------------------------
(***************************************************************************)
(* The invariant, and what it says.                                        *)
(***************************************************************************)
\* The invariant holds before the first start.
LEMMA InitIInv == Init => IInv
<1> SUFFICES ASSUME Init PROVE IInv
  OBVIOUS
<1>1. /\ sequences = {} /\ proofs = <<>> /\ provers = [p \in Prover |-> Idle]
      /\ sender = [pc |-> "boot", msg |-> {}] /\ monitored = [k \in Key |-> "none"]
      /\ clock = [due |-> FALSE, verifying |-> FALSE] /\ verified = 0 /\ synced = 0
      /\ faults = [left |-> MaxFaults, seen |-> {}]
  BY DEF Init
<1>2. DOMAIN proofs = {} /\ proofs \in [DOMAIN proofs -> Row]
  BY <1>1
<1>3. /\ Idle \in ProverState /\ Idle.pc = "idle" /\ Idle.mine = <<>> /\ Idle.last = 0
  <2>1. <<>> \in Seq(Key)
    OBVIOUS
  <2> QED BY <2>1, AggregatorAssumption DEF Idle, ProverState
<1>4. provers \in [Prover -> ProverState] /\ \A p \in Prover : provers[p] = Idle
  BY <1>1, <1>3
<1>5. sender.pc = "boot" /\ sender.msg = {}
  BY <1>1
<1>6. /\ sender \in [pc : {"boot", "recv", "got", "add", "pending"}, msg : SUBSET Key]
      /\ monitored \in [Key -> {"none", "created", "confirmed", "done"}]
      /\ clock \in [due : BOOLEAN, verifying : BOOLEAN]
  BY <1>1
<1>7. /\ verified \in 0..MaxBatch /\ synced \in 0..verified
      /\ faults \in [left : 0..MaxFaults, seen : SUBSET Kinds]
  BY <1>1, AggregatorAssumption
<1>8. TypeOK
  BY <1>1, <1>2, <1>3, <1>4, <1>5, <1>6, <1>7 DEF TypeOK
<1>9. Hands /\ Whole
  BY <1>1, <1>3, <1>4, <1>5 DEF Hands, Whole, WholeSequences
<1>10. RowsProvedOrOwned
  BY <1>2 DEF RowsProvedOrOwned
<1>11. Claims
  <2>1. Desk = {} /\ \A p \in Prover : Hand(p) = {}
    BY <1>3, <1>4, <1>5 DEF Desk, Hand
  <2> QED BY <1>2, <2>1 DEF Claims
<1> QED BY <1>8, <1>9, <1>10, <1>11 DEF IInv

\* A fault is counted, and remembered.
LEMMA FaultFacts ==
  ASSUME IInv, NEW kind, Fault(kind)
  PROVE  FaultsGrow /\ kind \in faults'.seen
BY AggregatorAssumption DEF IInv, TypeOK, Fault, FaultsGrow

\* Every step keeps the invariant.
LEMMA NextIInv == IInv /\ [Next]_vars => IInv'
<1> SUFFICES ASSUME IInv, [Next]_vars PROVE IInv'
  OBVIOUS
<1>1. CASE UNCHANGED vars
  BY <1>1 DEF vars, IInv, TypeOK, Hands, Whole, WholeSequences, RowsProvedOrOwned, Claims, Hand,
              Desk, Claimed, Apart, Holds, Unlocked, CheckProofContainsCompleteSequences
<1>2. ASSUME UNCHANGED faults PROVE FaultsGrow
  BY <1>2 DEF IInv, TypeOK, FaultsGrow
<1>3. ASSUME NEW p \in Prover, ProverStep(p), UNCHANGED faults PROVE IInv'
  <2>1. FaultsGrow
    BY <1>2, <1>3
  <2>2. CASE Channel(p)
    BY <2>1, <2>2, ChannelIInv
  <2>3. CASE tryBuildFinalProof(p)
    BY <2>1, <2>3, tryBuildFinalProofIInv
  <2>4. CASE WaitSynced(p)
    BY <2>1, <2>4, WaitSyncedIInv
  <2>5. CASE getAndLockProofReadyToVerify(p)
    BY <2>1, <2>5, getAndLockProofReadyToVerifyIInv
  <2>6. CASE validateEligibleFinalProof(p)
    BY <2>1, <2>6, validateEligibleFinalProofIInv
  <2>7. CASE buildFinalProof(p)
    BY <2>1, <2>7, buildFinalProofIInv
  <2>8. CASE SendMsg(p)
    BY <2>1, <2>8, SendMsgIInv
  <2>9. CASE getAndLockProofsToAggregate(p)
    BY <2>1, <2>9, getAndLockProofsToAggregateIInv
  <2>10. CASE tryAggregateProofs(p)
    BY <2>1, <2>10, tryAggregateProofsIInv
  <2>11. CASE getAndLockBatchToProve(p)
    BY <2>1, <2>11, getAndLockBatchToProveIInv
  <2>12. CASE tryGenerateBatchProof(p)
    BY <2>1, <2>12, tryGenerateBatchProofIInv
  <2>13. CASE StoreProof(p)
    BY <2>1, <2>13, StoreProofIInv
  <2> QED BY <1>3, <2>2, <2>3, <2>4, <2>5, <2>6, <2>7, <2>8, <2>9, <2>10, <2>11, <2>12, <2>13
          DEF ProverStep
<1>4. ASSUME SenderStep, UNCHANGED faults PROVE IInv'
  <2>1. FaultsGrow
    BY <1>2, <1>4
  <2>2. CASE startProofVerification
    BY <2>1, <2>2, startProofVerificationIInv
  <2>3. CASE ProcessPendingMonitoredTxs
    BY <2>1, <2>3, ProcessPendingIInv
  <2>4. CASE Start
    BY <2>1, <2>4, StartIInv
  <2>5. ASSUME NEW k \in Key, AddVerification(k) PROVE IInv'
    BY <2>1, <2>5, AddVerificationIInv
  <2>6. ASSUME NEW k \in Key, AddRefused(k) PROVE IInv'
    BY <2>1, <2>6, handleFailureIInv DEF AddRefused
  <2>7. ASSUME NEW k \in Key, setStatusDone(k) PROVE IInv'
    BY <2>1, <2>7, setStatusDoneIInv
  <2>8. ASSUME NEW k \in Key, handleMonitoredTxResult(k) PROVE IInv'
    BY <2>1, <2>8, handleMonitoredTxResultIInv
  <2> QED BY <1>4, <2>2, <2>3, <2>4, <2>5, <2>6, <2>7, <2>8 DEF SenderStep
<1>5. ASSUME Faulty PROVE IInv'
  <2>1. ASSUME NEW p \in Prover, Fault("prover"),
               buildFinalProofError(p) \/ tryAggregateProofsError(p) \/ tryGenerateBatchProofError(p)
        PROVE  IInv'
    BY <2>1, FaultFacts, buildFinalProofErrorIInv, tryAggregateProofsErrorIInv,
       tryGenerateBatchProofErrorIInv
  <2>2. ASSUME NEW k \in Key, Fault("add"), handleFailureToAddVerifyBatchToBeMonitored(k)
        PROVE  IInv'
    BY <2>2, FaultFacts, handleFailureIInv
  <2>3. CASE Fault("crash") /\ Crash
    BY <2>3, FaultFacts, CrashIInv
  <2>4. CASE Fault("lost") /\ GetBatchByNumberError
    BY <2>4, FaultFacts, GetBatchByNumberErrorIInv
  <2>5. CASE Fault("slow") /\ Age
    BY <2>5, FaultFacts, AgeIInv
  <2>6. CASE Fault("elsewhere") /\ VerifyElsewhere
    BY <2>6, FaultFacts, VerifyElsewhereIInv
  <2> QED BY <1>5, <2>1, <2>2, <2>3, <2>4, <2>5, <2>6 DEF Faulty
<1>6. CASE (SyncSequence \/ VerifyTime \/ L1Step \/ cleanupLockedProofs) /\ UNCHANGED faults
  <2>1. FaultsGrow
    BY <1>2, <1>6
  <2> QED BY <1>6, <2>1, SyncSequenceIInv, VerifyTimeIInv, SyncVerifiedIInv, VerifyIInv,
             cleanupLockedProofsIInv DEF L1Step
<1> QED BY <1>1, <1>3, <1>4, <1>5, <1>6 DEF Next

\* The invariant holds at every step of the aggregator.
THEOREM Invariance == Spec => []IInv
BY InitIInv, NextIInv, PTL DEF Spec

\* The variables have their shapes and a prover holds what its place in
\* Channel needs, whatever fails.
THEOREM TypeCorrect == Spec => []TypeOK
<1>1. IInv => TypeOK
  BY DEF IInv
<1> QED BY <1>1, Invariance, PTL

\* No batch is in two proofs of state.proof as long as no lock outlasts the
\* threshold: provers that look for work, aggregate, fail and store, and a
\* sender that cleans up, never leave two rows that overlap.
THEOREM ProofsDoNotOverlap == Spec => []NoOverlap
<1>1. IInv => NoOverlap
  BY DEF IInv, Claims, Apart, NoOverlap
<1> QED BY <1>1, Invariance, PTL

\* An unlocked row has its proof; a locked one has a prover, the sender or a
\* request that will unlock or delete it, whatever fails except the reading of
\* the batch in sendFinalProof.
THEOREM LocksAreOwned == Spec => []RowsProvedOrOwned
<1>1. IInv => RowsProvedOrOwned
  BY DEF IInv
<1> QED BY <1>1, Invariance, PTL

\* L1 is only asked to verify proofs of whole sequences.
THEOREM OnlyWholeSequences == Spec => []WholeSequences
<1>1. IInv => WholeSequences
  BY DEF IInv, Whole
<1> QED BY <1>1, Invariance, PTL
=============================================================================

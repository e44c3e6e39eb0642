------------------------- MODULE GuardedStoresProofs -------------------------
(***************************************************************************)
(* The four guarded stores, for any requests, policies, authorities and    *)
(* clocks.  Each store is an append-only image that its loader validates   *)
(* event by event, every event from the ones before it.  So two things are *)
(* shown of each: what is written keeps the image loadable, with what is   *)
(* in flight as the only other part of the invariant; and what an image    *)
(* that loads must look like, whoever wrote it.                            *)
(*                                                                         *)
(* The latter goes along the events of an image.  NatMin, the principle of *)
(* the least counterexample, stands for the induction.                     *)
(***************************************************************************)
EXTENDS GuardedStores, TLAPS, SequenceTheorems, WellFoundedInduction

-----------------------------------------------------------------------------
(* Numbers and images *)

LEMMA NatMin ==
  ASSUME NEW T \in SUBSET Nat, T # {}
  PROVE  \E m \in T : \A k \in T : m <= k
<1> DEFINE R == OpToRel(<, Nat)
<1>1. IsWellFoundedOn(R, Nat)
  BY NatLessThanWellFounded
<1>2. \A i, j \in Nat : <<i, j>> \in R <=> i < j
  BY DEF OpToRel
<1> HIDE DEF R
<1>3. PICK m \in T : \A k \in T : ~ (<<k, m>> \in R)
  BY <1>1, WFMin
<1>4. \A k \in T : ~(k < m)
  BY <1>2, <1>3, Zenon
<1> QED
  BY <1>4

\* The greatest of a set of positions.
LEMMA MaxOf ==
  ASSUME NEW n \in Nat, NEW S \in SUBSET (0..n), S # {}
  PROVE  Max(S) \in S /\ \A k \in S : k <= Max(S)
<1> DEFINE T == {n - k : k \in S}
<1>1. T \in SUBSET Nat /\ T # {}
  <2>1. \A k \in S : n - k \in Nat
    OBVIOUS
  <2> QED
    BY <2>1
<1>2. PICK m \in T : \A k \in T : m <= k
  BY <1>1, NatMin
<1>3. PICK x \in S : m = n - x
  BY <1>2
<1>4. \A k \in S : x >= k
  BY <1>2, <1>3
<1> QED
  BY <1>4 DEF Max

LEMMA MaxOfOne ==
  ASSUME NEW n \in Nat, NEW S \in SUBSET (0..n), NEW x \in S, \A k \in S : k = x
  PROVE  Max(S) = x
  BY MaxOf

\* The least of a set of numbers.
LEMMA MinOf ==
  ASSUME NEW S \in SUBSET Nat, S # {}
  PROVE  Min(S) \in S /\ \A k \in S : Min(S) <= k
<1>1. PICK m \in S : \A k \in S : m <= k
  BY NatMin
<1> QED
  BY <1>1 DEF Min

\* What is read of an image from the events before one of its own
LEMMA Before ==
  ASSUME NEW S, NEW image \in Seq(S), NEW i \in 1..(Len(image) + 1)
  PROVE  /\ SubSeq(image, 1, i - 1) \in Seq(S)
         /\ Len(SubSeq(image, 1, i - 1)) = i - 1
         /\ DOMAIN SubSeq(image, 1, i - 1) = 1..(i - 1)
         /\ \A j \in 1..(i - 1) : SubSeq(image, 1, i - 1)[j] = image[j]
<1>1. \A j \in 1..(i - 1) : image[j] \in S
  BY ElementOfSeq
<1> QED
  BY <1>1, SubSeqProperties, LenProperties

\* Two images that agree up to n agree on what is before n + 1.
LEMMA SameBefore ==
  ASSUME NEW S, NEW s \in Seq(S), NEW t \in Seq(S), NEW n \in Nat,
         n <= Len(s), n <= Len(t), \A k \in 1..n : s[k] = t[k]
  PROVE  SubSeq(s, 1, n) = SubSeq(t, 1, n)
<1>1. n + 1 \in 1..(Len(s) + 1) /\ n + 1 \in 1..(Len(t) + 1) /\ (n + 1) - 1 = n
  BY LenProperties
<1>2. /\ SubSeq(s, 1, n) \in Seq(S) /\ Len(SubSeq(s, 1, n)) = n
      /\ \A j \in 1..n : SubSeq(s, 1, n)[j] = s[j]
  BY <1>1, Before
<1>3. /\ SubSeq(t, 1, n) \in Seq(S) /\ Len(SubSeq(t, 1, n)) = n
      /\ \A j \in 1..n : SubSeq(t, 1, n)[j] = t[j]
  BY <1>1, Before
<1> QED
  BY <1>2, <1>3, SeqEqual

LEMMA Appended ==
  ASSUME NEW S, NEW s \in Seq(S), NEW e \in S
  PROVE  /\ Append(s, e) \in Seq(S) /\ Len(Append(s, e)) = Len(s) + 1
         /\ DOMAIN Append(s, e) = 1..(Len(s) + 1)
         /\ \A k \in 1..Len(s) : Append(s, e)[k] = s[k]
         /\ Append(s, e)[Len(s) + 1] = e
         /\ SubSeq(Append(s, e), 1, Len(s)) = s
<1>1. /\ Append(s, e) \in Seq(S) /\ Len(Append(s, e)) = Len(s) + 1
      /\ \A k \in 1..Len(s) : Append(s, e)[k] = s[k]
      /\ Append(s, e)[Len(s) + 1] = e
  BY AppendProperties, LenProperties
<1>2. SubSeq(Append(s, e), 1, Len(s)) = SubSeq(s, 1, Len(s))
  BY <1>1, SameBefore, LenProperties
<1> QED
  BY <1>1, <1>2, SubSeqFull, LenProperties
-----------------------------------------------------------------------------
(* The external witness *)

WitnessState == [sequence : Nat, head : Heads, updated : Nat]

Submission ==
  [id : RequestIds, principal : Principals, predecessor : WitnessState, target : Heads, until : Nat]

WitnessReceipt ==
  [request : Submission, policy : WitnessPolicies, at : Nat, state : WitnessState]

WitnessCall ==
  [phase : {"written", "committed"}, fresh : BOOLEAN, before : Nat, last : Nat,
   stale : BOOLEAN, receipt : WitnessReceipt]

WitnessTypes ==
  /\ clock \in Times
  /\ witness \in Seq(WitnessReceipt)
  /\ inputs \in WitnessPolicies
  /\ local \in [base : WitnessState, head : Heads]
  /\ asked \in Submission \cup {NoRequest}
  /\ call \in WitnessCall \cup {Idle}
  /\ adopted \in Nat

\* A submission under way: its receipt answers the request, and may still be
\* written or is on record.
Submitting ==
  /\ asked \in Submission /\ answer = NoAnswer /\ call.receipt.request = asked
  /\ call.phase = "written" \/ ~call.fresh => call.before = Len(witness)
  /\ call.phase = "written" /\ call.fresh =>
       /\ Len(witness) < MaxReceipts
       /\ ValidReceipt(Append(witness, call.receipt), Len(witness) + 1)
  /\ call.phase = "committed" \/ ~call.fresh =>
       \E i \in DOMAIN witness : witness[i] = call.receipt

Answered == answer.status \in {"SUCCESS", "HISTORICAL_RECEIPT"}

WitnessInv ==
  /\ WitnessTypes /\ ImageLoads(witness)
  /\ call # Idle => Submitting
  /\ Answered => answer.at \in DOMAIN witness /\ witness[answer.at].request = asked
  /\ adopted <= Len(witness)

(***************************************************************************)
(* Whether a receipt is valid depends on the image up to it.               *)
(***************************************************************************)
LEMMA ReceiptStands ==
  ASSUME NEW s \in Seq(WitnessReceipt), NEW t \in Seq(WitnessReceipt), NEW n \in Nat,
         n <= Len(s), n <= Len(t), \A k \in 1..n : s[k] = t[k], NEW i \in 1..n,
         ValidReceipt(s, i)
  PROVE  ValidReceipt(t, i)
<1>1. SubSeq(s, 1, i - 1) = SubSeq(t, 1, i - 1)
  <2>1. i - 1 \in Nat /\ i - 1 <= Len(s) /\ i - 1 <= Len(t) /\ \A k \in 1..(i - 1) : s[k] = t[k]
    BY LenProperties
  <2> QED
    BY <2>1, SameBefore
<1>2. s[i] = t[i] /\ \A j \in 1..(i - 1) : s[j] = t[j]
  OBVIOUS
<1> QED
  BY <1>1, <1>2 DEF ValidReceipt

LEMMA WitnessGrows ==
  ASSUME NEW s \in Seq(WitnessReceipt), NEW r \in WitnessReceipt, ImageLoads(s),
         Len(s) < MaxReceipts, ValidReceipt(Append(s, r), Len(s) + 1)
  PROVE  ImageLoads(Append(s, r))
<1>1. /\ Append(s, r) \in Seq(WitnessReceipt) /\ Len(Append(s, r)) = Len(s) + 1
      /\ DOMAIN Append(s, r) = 1..(Len(s) + 1)
      /\ \A k \in 1..Len(s) : Append(s, r)[k] = s[k]
      /\ Len(s) \in Nat /\ DOMAIN s = 1..Len(s) /\ MaxReceipts \in Nat
  BY Appended, LenProperties, WitnessConstants
<1>2. \A i \in 1..Len(s) : ValidReceipt(Append(s, r), i)
  <2> SUFFICES ASSUME NEW i \in 1..Len(s) PROVE ValidReceipt(Append(s, r), i)
    OBVIOUS
  <2>1. ValidReceipt(s, i)
    BY <1>1 DEF ImageLoads
  <2> DEFINE t == Append(s, r)
             n == Len(s)
  <2>2. /\ t \in Seq(WitnessReceipt) /\ n \in Nat /\ n <= Len(s) /\ n <= Len(t) /\ i \in 1..n
        /\ \A k \in 1..n : s[k] = t[k]
    BY <1>1
  <2> HIDE DEF t, n
  <2>3. ValidReceipt(t, i)
    BY <2>1, <2>2, ReceiptStands
  <2> QED
    BY <2>3 DEF t
<1> QED
  BY <1>1, <1>2 DEF ImageLoads

(***************************************************************************)
(* A witness counts its receipts: the state after i of them has number i.  *)
(***************************************************************************)
LEMMA StatesAreNumbered ==
  ASSUME NEW s \in Seq(WitnessReceipt), ImageLoads(s)
  PROVE  /\ \A i \in DOMAIN s : s[i].state.sequence = i
         /\ StateAfter(s).sequence = Len(s)
<1>0. Len(s) \in Nat /\ DOMAIN s = 1..Len(s)
  BY LenProperties
<1>1. \A i \in DOMAIN s : s[i].state.sequence = i
  <2> SUFFICES ASSUME NEW x \in DOMAIN s, s[x].state.sequence # x PROVE FALSE
    OBVIOUS
  <2> DEFINE T == {i \in DOMAIN s : s[i].state.sequence # i}
  <2>1. T \in SUBSET Nat /\ T # {}
    BY <1>0
  <2>2. PICK m \in T : \A k \in T : m <= k
    BY <2>1, NatMin
  <2>3. m \in 1..Len(s) /\ s[m].state.sequence # m /\ m \in 1..(Len(s) + 1)
    BY <1>0, <2>2
  <2> DEFINE before == SubSeq(s, 1, m - 1)
  <2>4. /\ before \in Seq(WitnessReceipt) /\ Len(before) = m - 1
        /\ \A j \in 1..(m - 1) : before[j] = s[j]
    BY <2>3, Before
  <2>5. s[m].state.sequence = StateAfter(before).sequence + 1
    <3>1. ValidReceipt(s, m)
      BY <1>0, <2>3 DEF ImageLoads
    <3>2. s[m].state = [sequence |-> StateAfter(before).sequence + 1, head |-> s[m].request.target,
                        updated |-> s[m].at]
      BY <3>1 DEF ValidReceipt
    <3> QED
      BY <3>2
  <2> HIDE DEF before
  <2>6. CASE m = 1
    <3>1. before = <<>>
      BY <2>4, <2>6, EmptySeq
    <3> QED
      BY <2>3, <2>5, <2>6, <3>1 DEF StateAfter, Initial
  <2>7. CASE m # 1
    <3>1. m - 1 \in DOMAIN s /\ before # <<>> /\ before[Len(before)] = s[m - 1]
      BY <1>0, <2>3, <2>4, <2>7, EmptySeq
    <3>2. m - 1 \notin T
      BY <2>2, <2>3
    <3>3. s[m - 1].state.sequence = m - 1
      BY <3>1, <3>2
    <3> QED
      BY <2>3, <2>5, <3>1, <3>3 DEF StateAfter
  <2> QED
    BY <2>6, <2>7
<1>2. CASE s = <<>>
  BY <1>1, <1>2, EmptySeq DEF StateAfter, Initial
<1>3. CASE s # <<>>
  <2>1. Len(s) \in DOMAIN s
    BY <1>0, <1>3, EmptySeq
  <2> QED
    BY <1>1, <1>3, <2>1 DEF StateAfter
<1> QED
  BY <1>1, <1>2, <1>3

(***************************************************************************)
(* What Accepts lets in is what the loader will accept.                    *)
(***************************************************************************)
LEMMA AcceptedIsValid ==
  ASSUME NEW s \in Seq(WitnessReceipt), NEW r \in Submission, NEW now \in Nat,
         inputs \in WitnessPolicies, Accepts(s, r, now)
  PROVE  /\ ReceiptFor(r, now) \in WitnessReceipt /\ ReceiptFor(r, now).request = r
         /\ Len(s) < MaxReceipts
         /\ ValidReceipt(Append(s, ReceiptFor(r, now)), Len(s) + 1)
<1> DEFINE accepted == ReceiptFor(r, now)
           n == Len(s) + 1
<1>1. accepted \in WitnessReceipt
  BY DEF ReceiptFor, WitnessReceipt, Submission, WitnessState
<1>2. /\ accepted.request = r /\ accepted.policy = inputs /\ accepted.at = now
      /\ accepted.state = [sequence |-> r.predecessor.sequence + 1, head |-> r.target, updated |-> now]
  BY DEF ReceiptFor
<1> HIDE DEF accepted
<1>3. /\ Append(s, accepted)[n] = accepted /\ SubSeq(Append(s, accepted), 1, n - 1) = s
      /\ \A k \in 1..(n - 1) : Append(s, accepted)[k] = s[k]
      /\ n - 1 = Len(s) /\ DOMAIN s = 1..Len(s)
  BY <1>1, Appended, LenProperties
<1>4. /\ PolicyProgress(s, inputs) /\ StateAfter(s).updated <= now /\ r.predecessor = StateAfter(s)
      /\ Authorized(r.principal, "advance", inputs, now) /\ now < r.until
      /\ Lineage(StateAfter(s).head, r.target)
  BY DEF Accepts, MayLookUp
<1>5. \A j \in 1..(n - 1) : Append(s, accepted)[j].request.id # r.id
  BY <1>3 DEF Accepts, Recorded
<1> HIDE DEF n
<1>6. ValidReceipt(Append(s, accepted), n)
  BY <1>2, <1>3, <1>4, <1>5 DEF ValidReceipt
<1>7. Len(s) < MaxReceipts
  BY DEF Accepts
<1> QED
  BY <1>1, <1>2, <1>6, <1>7 DEF n, accepted

LEMMA WitnessInitial == ASSUME WitnessInit, clock \in Times PROVE WitnessInv
<1>1. Initial \in WitnessState
  BY WitnessConstants DEF Initial, WitnessState
<1>2. WitnessTypes
  BY <1>1, WitnessConstants, EmptySeq DEF WitnessInit, WitnessTypes
<1>3. ImageLoads(<<>>)
  BY WitnessConstants DEF ImageLoads
<1> QED
  BY <1>2, <1>3 DEF WitnessInit, WitnessInv, Answered, NoAnswer

\* Nothing but the clock moves.
LEMMA WitnessStays ==
  ASSUME WitnessInv, UNCHANGED witnessVars, clock' \in Times
  PROVE  WitnessInv'
<1>1. /\ witness' = witness /\ inputs' = inputs /\ local' = local /\ asked' = asked
      /\ call' = call /\ answer' = answer /\ adopted' = adopted
  BY DEF witnessVars
<1>2. WitnessTypes'
  BY <1>1 DEF WitnessInv, WitnessTypes
<1>3. ImageLoads(witness)' /\ (call # Idle => Submitting)'
  BY <1>1 DEF WitnessInv, ImageLoads, ValidReceipt, Submitting
<1>4. (Answered => answer.at \in DOMAIN witness /\ witness[answer.at].request = asked)'
  BY <1>1 DEF WitnessInv, Answered
<1> QED
  BY <1>1, <1>2, <1>3, <1>4 DEF WitnessInv

LEMMA LocalStepKept ==
  ASSUME WitnessInv, UNCHANGED clock, NEW h \in Heads, LocalAdvance(h) \/ LocalRestore
  PROVE  WitnessInv'
<1>1. /\ witness' = witness /\ inputs' = inputs /\ asked' = asked
      /\ call' = call /\ answer' = answer /\ adopted' = adopted
  BY DEF LocalAdvance, LocalRestore
<1>2. local' \in [base : WitnessState, head : Heads]
  <2>1. local \in [base : WitnessState, head : Heads] /\ Initial \in WitnessState
        /\ FirstHead \in Heads
    BY WitnessConstants DEF WitnessInv, WitnessTypes, Initial, WitnessState
  <2>2. local' = [local EXCEPT !.head = h] \/ local' = [base |-> Initial, head |-> FirstHead]
    BY DEF LocalAdvance, LocalRestore
  <2> QED
    BY <2>1, <2>2
<1>3. WitnessTypes'
  BY <1>1, <1>2 DEF WitnessInv, WitnessTypes
<1>4. ImageLoads(witness)' /\ (call # Idle => Submitting)'
  BY <1>1 DEF WitnessInv, ImageLoads, ValidReceipt, Submitting
<1>5. (Answered => answer.at \in DOMAIN witness /\ witness[answer.at].request = asked)'
  BY <1>1 DEF WitnessInv, Answered
<1> QED
  BY <1>1, <1>3, <1>4, <1>5 DEF WitnessInv

LEMMA DraftKept ==
  ASSUME WitnessInv, UNCHANGED clock, NEW p \in Principals, NEW id \in RequestIds, Draft(p, id)
  PROVE  WitnessInv'
<1>1. /\ witness' = witness /\ inputs' = inputs /\ local' = local /\ answer' = NoAnswer
      /\ call = Idle /\ call' = Idle /\ adopted' = adopted
  BY DEF Draft
<1>2. asked' \in Submission
  <2>1. local.base \in WitnessState /\ local.head \in Heads /\ clock \in Times
    BY DEF WitnessInv, WitnessTypes
  <2>2. clock + Lifetime \in Nat
    <3>1. MaxTime \in Nat /\ Lifetime \in Nat
      BY ClockConstants, WitnessConstants
    <3> QED
      BY <2>1, <3>1 DEF Times
  <2>3. asked' = [id |-> id, principal |-> p, predecessor |-> local.base,
                  target |-> local.head, until |-> clock + Lifetime]
    BY DEF Draft
  <2> QED
    BY <2>1, <2>2, <2>3 DEF Submission
<1>3. WitnessTypes'
  BY <1>1, <1>2 DEF WitnessInv, WitnessTypes
<1>4. ImageLoads(witness)'
  BY <1>1 DEF WitnessInv, ImageLoads, ValidReceipt
<1> QED
  BY <1>1, <1>3, <1>4 DEF WitnessInv, Answered, NoAnswer

LEMMA AdoptKept ==
  ASSUME WitnessInv, UNCHANGED clock, Adopt
  PROVE  WitnessInv'
<1>1. /\ witness' = witness /\ inputs' = inputs /\ asked' = asked
      /\ call' = call /\ answer' = answer /\ answer.at \in DOMAIN witness
  BY DEF Adopt, WitnessInv, Answered
<1> DEFINE state == witness[answer.at].state
<1>2. local' = [local EXCEPT !.base = state] /\ adopted' \in {state.sequence, adopted}
  BY DEF Adopt
<1>3. witness \in Seq(WitnessReceipt) /\ local \in [base : WitnessState, head : Heads]
      /\ adopted \in Nat /\ adopted <= Len(witness) /\ ImageLoads(witness)
      /\ DOMAIN witness = 1..Len(witness) /\ Len(witness) \in Nat
  BY LenProperties DEF WitnessInv, WitnessTypes
<1>4. state \in WitnessState /\ state.sequence = answer.at
  <2>1. witness[answer.at] \in WitnessReceipt
    BY <1>1, <1>3, ElementOfSeq
  <2> QED
    BY <1>1, <1>3, <2>1, StatesAreNumbered DEF WitnessReceipt
<1> HIDE DEF state
<1>5. adopted' \in Nat /\ adopted' <= Len(witness)
  BY <1>1, <1>2, <1>3, <1>4
<1>6. WitnessTypes'
  BY <1>1, <1>2, <1>3, <1>4, <1>5 DEF WitnessInv, WitnessTypes
<1>7. ImageLoads(witness)' /\ (call # Idle => Submitting)'
  BY <1>1 DEF WitnessInv, ImageLoads, ValidReceipt, Submitting
<1>8. (Answered => answer.at \in DOMAIN witness /\ witness[answer.at].request = asked)'
  BY <1>1 DEF WitnessInv, Answered
<1> QED
  BY <1>1, <1>5, <1>6, <1>7, <1>8 DEF WitnessInv

LEMMA InputsKept ==
  ASSUME WitnessInv, UNCHANGED clock, NEW policy \in WitnessPolicies,
         ReplaceInputs(policy) \/ NewProvider(policy)
  PROVE  WitnessInv'
<1>1. /\ witness' = witness /\ inputs' = policy /\ asked' = asked /\ local' = local
      /\ answer' = answer /\ adopted' = adopted
      /\ call' = IF call = Idle THEN call ELSE [call EXCEPT !.stale = TRUE]
  BY DEF ReplaceInputs, NewProvider
<1>2. call \in WitnessCall \cup {Idle}
  BY DEF WitnessInv, WitnessTypes
<1>3. /\ call' \in WitnessCall \cup {Idle} /\ (call' # Idle => call # Idle)
      /\ (call # Idle => call'.phase = call.phase /\ call'.fresh = call.fresh
                           /\ call'.before = call.before /\ call'.receipt = call.receipt)
  <2>1. CASE call = Idle
    BY <1>1, <2>1 DEF Idle
  <2>2. CASE call # Idle
    BY <1>1, <1>2, <2>2 DEF WitnessCall
  <2> QED
    BY <2>1, <2>2
<1>4. WitnessTypes'
  BY <1>1, <1>3 DEF WitnessInv, WitnessTypes
<1>5. ImageLoads(witness)'
  BY <1>1 DEF WitnessInv, ImageLoads, ValidReceipt
<1>6. (call # Idle => Submitting)'
  BY <1>1, <1>3 DEF WitnessInv, ValidReceipt, Submitting
<1>7. (Answered => answer.at \in DOMAIN witness /\ witness[answer.at].request = asked)'
  BY <1>1 DEF WitnessInv, Answered
<1> QED
  BY <1>1, <1>4, <1>5, <1>6, <1>7 DEF WitnessInv

\* On a witness that loads an id is on record once.
LEMMA RecordedOnce ==
  ASSUME NEW s \in Seq(WitnessReceipt), ImageLoads(s), NEW i \in DOMAIN s
  PROVE  Recorded(s, s[i].request.id) = {i}
<1>1. DOMAIN s = 1..Len(s) /\ Len(s) \in Nat
  BY LenProperties
<1>2. \A j, k \in DOMAIN s : j < k => s[j].request.id # s[k].request.id
  <2> SUFFICES ASSUME NEW j \in DOMAIN s, NEW k \in DOMAIN s, j < k
               PROVE  s[j].request.id # s[k].request.id
    OBVIOUS
  <2>1. ValidReceipt(s, k)
    BY DEF ImageLoads
  <2>2. j \in 1..(k - 1)
    BY <1>1
  <2> QED
    BY <2>1, <2>2 DEF ValidReceipt
<1> QED
  BY <1>1, <1>2 DEF Recorded

LEMMA BeginKept ==
  ASSUME WitnessInv, UNCHANGED clock, Begin
  PROVE  WitnessInv'
<1>1. /\ witness' = witness /\ inputs' = inputs /\ asked' = asked /\ local' = local
      /\ answer' = NoAnswer /\ adopted' = adopted /\ asked # NoRequest
  BY DEF Begin
<1>2. /\ witness \in Seq(WitnessReceipt) /\ inputs \in WitnessPolicies /\ asked \in Submission
      /\ clock \in Nat /\ ImageLoads(witness) /\ DOMAIN witness = 1..Len(witness)
      /\ Len(witness) \in Nat
  BY <1>1, LenProperties, ClockConstants DEF WitnessInv, WitnessTypes, Times
<1> DEFINE fresh == Accepts(witness, asked, clock)
           recorded == witness[CHOOSE i \in Recorded(witness, asked.id) : TRUE]
<1>3. /\ fresh \/ Recovers(witness, asked, clock)
      /\ call' = [phase |-> "written", fresh |-> fresh, before |-> Len(witness),
                  last |-> clock, stale |-> FALSE,
                  receipt |-> IF fresh THEN ReceiptFor(asked, clock) ELSE recorded]
  BY DEF Begin
<1>4. fresh \in BOOLEAN
  BY DEF Accepts
<1>5. CASE fresh
  <2>1. /\ ReceiptFor(asked, clock) \in WitnessReceipt /\ ReceiptFor(asked, clock).request = asked
        /\ Len(witness) < MaxReceipts
        /\ ValidReceipt(Append(witness, ReceiptFor(asked, clock)), Len(witness) + 1)
    BY <1>2, <1>5, AcceptedIsValid
  <2> HIDE DEF fresh
  <2>2. call' = [phase |-> "written", fresh |-> TRUE, before |-> Len(witness),
                 last |-> clock, stale |-> FALSE, receipt |-> ReceiptFor(asked, clock)]
    BY <1>3, <1>4, <1>5
  <2>3. call' \in WitnessCall
    BY <1>2, <2>1, <2>2 DEF WitnessCall
  <2>4. Submitting'
    BY <1>1, <1>2, <2>1, <2>2 DEF Submitting, ValidReceipt
  <2> QED
    BY <1>1, <1>2, <2>3, <2>4 DEF WitnessInv, WitnessTypes, Answered, NoAnswer, ImageLoads, ValidReceipt
<1>6. CASE ~fresh
  <2>1. PICK i \in DOMAIN witness : witness[i].request = asked
    BY <1>3, <1>6 DEF Recovers
  <2>2. Recorded(witness, asked.id) = {i}
    BY <1>2, <2>1, RecordedOnce
  <2>3. recorded = witness[i]
    BY <2>2
  <2>4. recorded \in WitnessReceipt
    BY <1>2, <2>1, <2>3, ElementOfSeq
  <2> HIDE DEF fresh, recorded
  <2>5. call' = [phase |-> "written", fresh |-> FALSE, before |-> Len(witness),
                 last |-> clock, stale |-> FALSE, receipt |-> recorded]
    BY <1>3, <1>4, <1>6
  <2>6. call' \in WitnessCall
    BY <1>2, <2>4, <2>5 DEF WitnessCall
  <2>7. Submitting'
    BY <1>1, <1>2, <2>1, <2>3, <2>5 DEF Submitting, ValidReceipt
  <2> QED
    BY <1>1, <1>2, <2>6, <2>7 DEF WitnessInv, WitnessTypes, Answered, NoAnswer, ImageLoads, ValidReceipt
<1> QED
  BY <1>5, <1>6

\* A submission ends without an answer that claims a receipt.
LEMMA EndKept ==
  ASSUME WitnessInv, UNCHANGED clock, UNCHANGED <<inputs, local, asked, adopted>>,
         call' = Idle, ~Answered',
         witness' = witness \/ (call # Idle /\ call.phase = "written" /\ call.fresh
                                  /\ witness' = Append(witness, call.receipt))
  PROVE  WitnessInv'
<1>1. /\ witness \in Seq(WitnessReceipt) /\ Len(witness) \in Nat /\ ImageLoads(witness)
      /\ adopted <= Len(witness) /\ adopted \in Nat
  BY LenProperties DEF WitnessInv, WitnessTypes
<1>2. /\ witness' \in Seq(WitnessReceipt) /\ ImageLoads(witness') /\ Len(witness') \in Nat
      /\ Len(witness) <= Len(witness')
  <2>1. CASE witness' = witness
    BY <1>1, <2>1
  <2>2. CASE witness' # witness
    <3>1. /\ call.receipt \in WitnessReceipt /\ Submitting /\ call.fresh /\ call.phase = "written"
          /\ witness' = Append(witness, call.receipt)
      BY <2>2 DEF WitnessInv, WitnessTypes, WitnessCall
    <3>2. /\ Len(witness) < MaxReceipts
          /\ ValidReceipt(Append(witness, call.receipt), Len(witness) + 1)
      BY <3>1 DEF Submitting
    <3>3. Append(witness, call.receipt) \in Seq(WitnessReceipt)
          /\ Len(Append(witness, call.receipt)) = Len(witness) + 1
      BY <1>1, <3>1, Appended
    <3>4. ImageLoads(Append(witness, call.receipt))
      BY <1>1, <3>1, <3>2, WitnessGrows
    <3> QED
      BY <1>1, <3>1, <3>3, <3>4
  <2> QED
    BY <2>1, <2>2
<1>3. ImageLoads(witness)'
  BY <1>2 DEF ImageLoads, ValidReceipt
<1>4. WitnessTypes'
  BY <1>2 DEF WitnessInv, WitnessTypes
<1> QED
  BY <1>1, <1>2, <1>3, <1>4 DEF WitnessInv

LEMMA CommitKept ==
  ASSUME WitnessInv, UNCHANGED clock, Commit
  PROVE  WitnessInv'
<1>1. /\ witness' = Written /\ UNCHANGED <<inputs, local, asked, answer, adopted>>
      /\ call.phase = "written" /\ call' = [call EXCEPT !.phase = "committed", !.last = clock]
  BY DEF Commit
<1>2. call \in WitnessCall /\ call # Idle /\ Submitting
  BY <1>1 DEF WitnessInv, WitnessTypes, Idle
<1>3. /\ witness \in Seq(WitnessReceipt) /\ Len(witness) \in Nat /\ ImageLoads(witness)
      /\ adopted <= Len(witness) /\ adopted \in Nat /\ DOMAIN witness = 1..Len(witness)
      /\ call.receipt \in WitnessReceipt /\ call.fresh \in BOOLEAN
  BY <1>2, LenProperties DEF WitnessInv, WitnessTypes, WitnessCall
<1>4. /\ witness' \in Seq(WitnessReceipt) /\ ImageLoads(witness') /\ Len(witness') \in Nat
      /\ Len(witness) <= Len(witness')
      /\ \E i \in DOMAIN witness' : witness'[i] = call.receipt
      /\ ~call.fresh => witness' = witness /\ call.before = Len(witness)
  <2>1. CASE ~call.fresh
    BY <1>1, <1>2, <1>3, <2>1 DEF Written, Submitting
  <2>2. CASE call.fresh
    <3>1. /\ Len(witness) < MaxReceipts
          /\ ValidReceipt(Append(witness, call.receipt), Len(witness) + 1)
      BY <1>1, <1>2, <2>2 DEF Submitting
    <3>2. /\ Append(witness, call.receipt) \in Seq(WitnessReceipt)
          /\ Len(Append(witness, call.receipt)) = Len(witness) + 1
          /\ DOMAIN Append(witness, call.receipt) = 1..(Len(witness) + 1)
          /\ Append(witness, call.receipt)[Len(witness) + 1] = call.receipt
      BY <1>3, Appended
    <3>3. ImageLoads(Append(witness, call.receipt))
      BY <1>3, <3>1, WitnessGrows
    <3>4. witness' = Append(witness, call.receipt)
      BY <1>1, <2>2 DEF Written
    <3> QED
      BY <1>3, <2>2, <3>2, <3>3, <3>4
  <2> QED
    BY <1>3, <2>1, <2>2
<1>5. /\ call' \in WitnessCall /\ call'.phase = "committed" /\ call'.fresh = call.fresh
      /\ call'.receipt = call.receipt /\ call'.before = call.before
  <2>1. clock \in Nat
    BY ClockConstants DEF WitnessInv, WitnessTypes, Times
  <2> QED
    BY <1>1, <1>2, <2>1 DEF WitnessCall
<1>6. ImageLoads(witness)'
  BY <1>4 DEF ImageLoads, ValidReceipt
<1>7. WitnessTypes'
  BY <1>1, <1>4, <1>5 DEF WitnessInv, WitnessTypes
<1>8. Submitting'
  BY <1>1, <1>2, <1>4, <1>5 DEF Submitting
<1>9. ~Answered'
  BY <1>1, <1>2 DEF Submitting, Answered, NoAnswer
<1> QED
  BY <1>1, <1>3, <1>4, <1>6, <1>7, <1>8, <1>9 DEF WitnessInv

LEMMA ReturnKept ==
  ASSUME WitnessInv, UNCHANGED clock, Return
  PROVE  WitnessInv'
<1>1. /\ witness' = witness /\ UNCHANGED <<inputs, local, asked, adopted>> /\ call' = Idle
      /\ call.phase = "committed"
  BY DEF Return, Answer
<1>2. call \in WitnessCall /\ call # Idle /\ Submitting
  BY <1>1 DEF WitnessInv, WitnessTypes, Idle
<1>3. CASE ~Answered'
  BY <1>1, <1>3, EndKept
<1>4. CASE Answered'
  <2>1. answer'.at = CHOOSE i \in DOMAIN witness : witness[i] = call.receipt
    <3>1. Guard
      BY <1>4 DEF Return, Answer, Answered
    <3> QED
      BY <3>1 DEF Return, Answer
  <2>2. \E i \in DOMAIN witness : witness[i] = call.receipt
    BY <1>1, <1>2 DEF Submitting
  <2>3. answer'.at \in DOMAIN witness /\ witness[answer'.at] = call.receipt
    BY <2>1, <2>2
  <2>4. call.receipt.request = asked
    BY <1>2 DEF Submitting
  <2>5. WitnessTypes'
    BY <1>1 DEF WitnessInv, WitnessTypes
  <2>6. ImageLoads(witness)'
    BY <1>1 DEF WitnessInv, ImageLoads, ValidReceipt
  <2> QED
    BY <1>1, <2>3, <2>4, <2>5, <2>6 DEF WitnessInv
<1> QED
  BY <1>3, <1>4

LEMMA OtherEndsKept ==
  ASSUME WitnessInv, UNCHANGED clock, Refuse \/ Rollback \/ CommitFails \/ Crash
  PROVE  WitnessInv'
<1>1. UNCHANGED <<inputs, local, asked, adopted>> /\ call' = Idle /\ ~Answered'
  BY DEF Refuse, Rollback, CommitFails, Crash, Answer, Answered, NoAnswer
<1>2. witness' = witness \/ (call # Idle /\ call.phase = "written" /\ call.fresh
                               /\ witness' = Append(witness, call.receipt))
  BY DEF Refuse, Rollback, CommitFails, Crash, Written, Idle
<1> QED
  BY <1>1, <1>2, EndKept

LEMMA WitnessKept ==
  ASSUME WitnessInv, WitnessNext
  PROVE  WitnessInv'
<1>1. CASE SetClock /\ UNCHANGED witnessVars
  BY <1>1, WitnessStays DEF SetClock
<1>2. CASE UNCHANGED clock /\ \E h \in Heads : LocalAdvance(h)
  BY <1>2, LocalStepKept
<1>3. CASE UNCHANGED clock /\ LocalRestore
  BY <1>3, LocalStepKept, WitnessConstants
<1>4. CASE UNCHANGED clock /\ Adopt
  BY <1>4, AdoptKept
<1>5. CASE UNCHANGED clock /\ \E p \in Principals, id \in RequestIds : Draft(p, id)
  BY <1>5, DraftKept
<1>6. CASE UNCHANGED clock
             /\ \E policy \in WitnessPolicies : ReplaceInputs(policy) \/ NewProvider(policy)
  BY <1>6, InputsKept
<1>7. CASE UNCHANGED clock /\ Begin
  BY <1>7, BeginKept
<1>8. CASE UNCHANGED clock /\ Commit
  BY <1>8, CommitKept
<1>9. CASE UNCHANGED clock /\ Return
  BY <1>9, ReturnKept
<1>10. CASE UNCHANGED clock /\ (Refuse \/ Rollback \/ CommitFails \/ Crash)
  BY <1>10, OtherEndsKept
<1> QED
  BY <1>1, <1>2, <1>3, <1>4, <1>5, <1>6, <1>7, <1>8, <1>9, <1>10 DEF WitnessNext

LEMMA AdoptedIsExposed == WitnessInv => RollbackExposed
<1> SUFFICES ASSUME WitnessInv, adopted > local.base.sequence
             PROVE  Relationship(LocalRecord, StateAfter(witness)) = "ROLLBACK_OR_STATE_LOSS"
  BY DEF RollbackExposed
<1>1. /\ witness \in Seq(WitnessReceipt) /\ ImageLoads(witness) /\ Len(witness) \in Nat
      /\ adopted \in Nat /\ adopted <= Len(witness) /\ local \in [base : WitnessState, head : Heads]
  BY LenProperties DEF WitnessInv, WitnessTypes
<1>2. StateAfter(witness).sequence = Len(witness)
  BY <1>1, StatesAreNumbered
<1>3. LocalRecord.sequence = local.base.sequence /\ local.base.sequence \in Nat
  BY <1>1 DEF LocalRecord, WitnessState
<1>4. /\ LocalRecord.sequence < StateAfter(witness).sequence
      /\ ~(LocalRecord.sequence > StateAfter(witness).sequence)
      /\ LocalRecord # StateAfter(witness)
  BY <1>1, <1>2, <1>3
<1> QED
  BY <1>4, Zenon DEF Relationship

LEMMA WitnessStepAnswers ==
  ASSUME WitnessInv, WitnessNext, ~UNCHANGED witnessVars
  PROVE  /\ answer'.status \in {"SUCCESS", "HISTORICAL_RECEIPT"} =>
              witness'[answer'.at].request = asked'
         /\ call # Idle /\ call' = Idle /\ answer'.status = "REFUSED" =>
              Len(witness') = call.before
<1>1. WitnessInv'
  BY WitnessKept
<1>2. ASSUME answer'.status \in {"SUCCESS", "HISTORICAL_RECEIPT"}
      PROVE  witness'[answer'.at].request = asked'
  BY <1>1, <1>2 DEF WitnessInv, Answered
<1>3. ASSUME call # Idle, call' = Idle, answer'.status = "REFUSED"
      PROVE  Len(witness') = call.before
  <2>1. Submitting /\ call \in WitnessCall /\ answer.status # "REFUSED"
    BY <1>3 DEF WitnessInv, WitnessTypes, Submitting, NoAnswer
  <2>2. \/ witness' = witness /\ call.phase = "written"
        \/ witness' = witness /\ ~call.fresh
    BY <1>3, <2>1 DEF WitnessNext, LocalRestore, Adopt, LocalAdvance, Draft, ReplaceInputs,
      NewProvider, Begin, Refuse, Commit, Rollback, CommitFails, Return, Crash, Answer, NoAnswer,
      witnessVars, WitnessCall
  <2> QED
    BY <2>1, <2>2 DEF Submitting, WitnessCall
<1> QED
  BY <1>2, <1>3
-----------------------------------------------------------------------------
(* The trust distribution *)

Ingested == [bundle : Bundles, inputs : PolicyInputs]

Verdicts == {"INITIAL", "ADVANCE", "UNCHANGED"}

Ingestion == [request : Ingested, at : Nat, status : Verdicts]

DistributionHead ==
  [bundle : Bundles, policy : {in.policy : in \in PolicyInputs}, checked : Nat, accepted : Nat]
    \cup {NoHead}

DistributionImage == [history : Seq(Ingestion), head : DistributionHead]

Application ==
  [phase : {"written", "checked", "committed"}, request : Ingested, last : Nat, stale : BOOLEAN,
   before : Nat, status : Verdicts, image : DistributionImage]

DistributionTypes ==
  /\ clock \in Times
  /\ store \in DistributionImage
  /\ provider \in PolicyInputs
  /\ applying \in Application \cup {NotApplying}

\* An application under way: its image ends with what was asked, and replaces
\* the store when it is committed.
Ingesting ==
  /\ outcome = NoOutcome
  /\ applying.image.history # <<>>
  /\ applying.image.history[Len(applying.image.history)].request = applying.request
  /\ IF applying.phase = "committed" THEN store = applying.image
     ELSE applying.before = Len(store.history)

Ingests == outcome.status \in Verdicts

DistributionInv ==
  /\ DistributionTypes /\ StoreLoads(store)
  /\ applying # NotApplying => Ingesting
  /\ Ingests => store.history[outcome.receipt].request = outcome.request

(***************************************************************************)
(* The heads of a history, one after the other                             *)
(***************************************************************************)
NextHead(history, i, head) ==
  IF i = 0 THEN NoHead ELSE HeadFrom(history[i].request, head, history[i].at)

HeadsUpTo(n, history, head) == head = [i \in 0..n |-> NextHead(history, i, head[i - 1])]

\* Restated, so that the provers see a function and its arguments.
LEMMA HeadsAre ==
  ASSUME NEW n \in Nat, NEW h, NEW g, HeadsUpTo(n, h, g)
  PROVE  /\ DOMAIN g = 0..n
         /\ \A i \in 0..n : g[i] = NextHead(h, i, g[i - 1])
  BY DEF HeadsUpTo

LEMMA HeadsExist ==
  ASSUME NEW h, NEW n \in Nat
  PROVE  \E g : HeadsUpTo(n, h, g)
<1> SUFFICES ASSUME ~ \E g : HeadsUpTo(n, h, g) PROVE FALSE
  OBVIOUS
<1> DEFINE T == {k \in Nat : ~ \E g : HeadsUpTo(k, h, g)}
<1>1. PICK m \in T : \A k \in T : m <= k
  <2>1. T \in SUBSET Nat /\ T # {}
    OBVIOUS
  <2> QED
    BY <2>1, NatMin
<1>2. m \in Nat /\ ~ \E g : HeadsUpTo(m, h, g)
  OBVIOUS
<1>3. CASE m = 0
  <2> DEFINE g == [i \in 0..0 |-> NextHead(h, i, NoHead)]
  <2>1. \A i \in 0..0 : NextHead(h, i, g[i - 1]) = NextHead(h, i, NoHead)
    BY DEF NextHead
  <2>2. g = [i \in 0..0 |-> NextHead(h, i, g[i - 1])]
    BY <2>1
  <2> HIDE DEF g
  <2> QED
    BY <1>2, <1>3, <2>2 DEF HeadsUpTo
<1>4. CASE m # 0
  <2>1. m - 1 \in Nat /\ m - 1 \notin T
    BY <1>1, <1>2, <1>4
  <2>2. PICK f : HeadsUpTo(m - 1, h, f)
    BY <2>1
  <2>3. DOMAIN f = 0..(m - 1) /\ \A i \in 0..(m - 1) : f[i] = NextHead(h, i, f[i - 1])
    BY <2>1, <2>2, HeadsAre
  <2> DEFINE g == [i \in 0..m |-> IF i = m THEN NextHead(h, m, f[m - 1]) ELSE f[i]]
  <2>4. \A i \in 0..(m - 1) : g[i] = f[i]
    BY <1>2
  <2>5. g[m] = NextHead(h, m, f[m - 1])
    BY <1>2
  <2>6. \A i \in 0..m : g[i] = NextHead(h, i, g[i - 1])
    <3> SUFFICES ASSUME NEW i \in 0..m PROVE g[i] = NextHead(h, i, g[i - 1])
      OBVIOUS
    <3> HIDE DEF g
    <3>1. CASE i = m
      <4>1. g[m - 1] = f[m - 1]
        BY <1>2, <1>4, <2>4
      <4> QED
        BY <2>5, <3>1, <4>1
    <3>2. CASE i = 0
      BY <1>2, <1>4, <2>3, <2>4, <3>2 DEF NextHead
    <3>3. CASE i # m /\ i # 0
      <4>1. i \in 0..(m - 1) /\ i - 1 \in 0..(m - 1)
        BY <1>2, <3>3
      <4>2. g[i] = f[i] /\ g[i - 1] = f[i - 1] /\ f[i] = NextHead(h, i, f[i - 1])
        BY <2>3, <2>4, <4>1
      <4> QED
        BY <4>2
    <3> QED
      BY <3>1, <3>2, <3>3
  <2>7. g = [i \in 0..m |-> g[i]]
    OBVIOUS
  <2> HIDE DEF g
  <2>8. g = [i \in 0..m |-> NextHead(h, i, g[i - 1])]
    BY <2>6, <2>7
  <2> QED
    BY <1>2, <2>8 DEF HeadsUpTo
<1> QED
  BY <1>3, <1>4

LEMMA HeadsAgree ==
  ASSUME NEW s, NEW t, NEW f, NEW g, NEW a \in Nat, NEW b \in Nat,
         HeadsUpTo(a, s, f), HeadsUpTo(b, t, g),
         NEW n \in Nat, n <= a, n <= b, \A k \in 1..n : s[k] = t[k]
  PROVE  f[n] = g[n]
<1>1. /\ \A i \in 0..a : f[i] = NextHead(s, i, f[i - 1])
      /\ \A i \in 0..b : g[i] = NextHead(t, i, g[i - 1])
  BY HeadsAre
<1> DEFINE T == {k \in 0..n : f[k] # g[k]}
<1> SUFFICES ASSUME f[n] # g[n] PROVE FALSE
  OBVIOUS
<1>2. PICK m \in T : \A k \in T : m <= k
  <2>1. T \in SUBSET Nat /\ T # {}
    OBVIOUS
  <2> QED
    BY <2>1, NatMin
<1>3. m \in 0..n /\ f[m] # g[m] /\ \A k \in 0..n : f[k] # g[k] => m <= k
  BY <1>2
<1> HIDE DEF T
<1>4. f[m] = NextHead(s, m, f[m - 1]) /\ g[m] = NextHead(t, m, g[m - 1])
  BY <1>1, <1>3
<1>5. CASE m = 0
  BY <1>3, <1>4, <1>5 DEF NextHead
<1>6. CASE m # 0
  <2>1. m \in 1..n /\ m - 1 \in 0..n /\ ~(m <= m - 1)
    BY <1>3, <1>6
  <2>2. s[m] = t[m] /\ f[m - 1] = g[m - 1]
    BY <1>3, <2>1
  <2> QED
    BY <1>3, <1>4, <2>2 DEF NextHead
<1> QED
  BY <1>5, <1>6

LEMMA HeadIs ==
  ASSUME NEW h
  PROVE  Len(h) \in Nat => \E g : HeadsUpTo(Len(h), h, g) /\ HeadAfter(h) = g[Len(h)]
<1> DEFINE head == CHOOSE g : HeadsUpTo(Len(h), h, g)
<1> SUFFICES ASSUME Len(h) \in Nat
             PROVE  \E g : HeadsUpTo(Len(h), h, g) /\ HeadAfter(h) = g[Len(h)]
  OBVIOUS
<1>1. HeadsUpTo(Len(h), h, head)
  BY HeadsExist
<1>2. HeadAfter(h) = head[Len(h)]
  BY DEF HeadAfter, HeadsUpTo, NextHead
<1> HIDE DEF head
<1> QED
  BY <1>1, <1>2

LEMMA HeadStep ==
  ASSUME NEW h \in Seq(Ingestion), NEW i \in 1..Len(h)
  PROVE  HeadAfter(SubSeq(h, 1, i))
           = HeadFrom(h[i].request, HeadAfter(SubSeq(h, 1, i - 1)), h[i].at)
<1> DEFINE s == SubSeq(h, 1, i)
           t == SubSeq(h, 1, i - 1)
<1>1. /\ Len(s) = i /\ s[i] = h[i] /\ \A k \in 1..i : s[k] = h[k]
  <2>1. i + 1 \in 1..(Len(h) + 1) /\ (i + 1) - 1 = i
    BY LenProperties
  <2> QED
    BY <2>1, Before
<1>2. Len(t) = i - 1 /\ \A k \in 1..(i - 1) : t[k] = h[k]
  <2>1. i \in 1..(Len(h) + 1)
    BY LenProperties
  <2> QED
    BY <2>1, Before
<1>3. i \in Nat /\ i - 1 \in Nat /\ \A k \in 1..(i - 1) : s[k] = t[k]
  BY <1>1, <1>2, LenProperties
<1> HIDE DEF s, t
<1>4. PICK f : HeadsUpTo(i, s, f) /\ HeadAfter(s) = f[i]
  BY <1>1, <1>3, HeadIs
<1>5. PICK g : HeadsUpTo(i - 1, t, g) /\ HeadAfter(t) = g[i - 1]
  BY <1>2, <1>3, HeadIs
<1>6. f[i - 1] = g[i - 1]
  <2>1. i - 1 <= i /\ i - 1 <= i - 1
    BY <1>3
  <2> QED
    BY <1>3, <1>4, <1>5, <2>1, HeadsAgree
<1>7. f[i] = NextHead(s, i, f[i - 1])
  BY <1>3, <1>4, HeadsAre
<1> QED
  BY <1>1, <1>3, <1>4, <1>5, <1>6, <1>7 DEF NextHead, s, t

LEMMA NoHeadAtFirst == HeadAfter(<<>>) = NoHead
<1>1. PICK g : HeadsUpTo(0, <<>>, g) /\ HeadAfter(<<>>) = g[0]
  <2>1. Len(<<>>) = 0 /\ 0 \in Nat
    OBVIOUS
  <2> QED
    BY <2>1, HeadIs
<1> QED
  BY <1>1, HeadsAre DEF NextHead

(***************************************************************************)
(* Successive heads differ as the witness wants it.                        *)
(***************************************************************************)
LEMMA FrontiersAreLineage == DistributionInv => FrontierIsWitnessable
<1> SUFFICES ASSUME DistributionInv, NEW i \in 1..(Len(store.history) - 1)
             PROVE  Lineage(Frontier(i), Frontier(i + 1))
  BY DEF FrontierIsWitnessable
<1> DEFINE h == store.history
           n == i + 1
           q == h[n].request
           old == HeadAfter(SubSeq(h, 1, i))
           new == HeadAfter(SubSeq(h, 1, n))
<1>1. /\ h \in Seq(Ingestion) /\ Len(h) \in Nat /\ DOMAIN h = 1..Len(h)
      /\ i \in 1..Len(h) /\ n \in 1..Len(h) /\ n - 1 = i /\ i \in Nat
  <2>1. h \in Seq(Ingestion)
    BY DEF DistributionInv, DistributionTypes, DistributionImage
  <2> QED
    BY <2>1, LenProperties
<1>2. h[i].request \in Ingested /\ q \in Ingested
  <2>1. \A k \in 1..Len(h) : h[k] \in Ingestion
    BY <1>1, ElementOfSeq
  <2> QED
    BY <1>1, <2>1 DEF Ingestion
<1>3. ValidEntry(h, n)
  BY <1>1 DEF DistributionInv, StoreLoads
<1> HIDE DEF h
<1>4. new = HeadFrom(q, old, h[n].at)
  BY <1>1, HeadStep
<1>5. old = HeadFrom(h[i].request, HeadAfter(SubSeq(h, 1, i - 1)), h[i].at)
  BY <1>1, HeadStep
<1>6. Status(q, old, h[n].at) # "REJECTED"
  BY <1>1, <1>3 DEF ValidEntry
<1>7. /\ Len(SubSeq(h, 1, i)) = i /\ Len(SubSeq(h, 1, n)) = n
  <2>1. /\ i + 1 \in 1..(Len(h) + 1) /\ (i + 1) - 1 = i
        /\ n + 1 \in 1..(Len(h) + 1) /\ (n + 1) - 1 = n
    BY <1>1
  <2> QED
    BY <1>1, <2>1, Before
<1> HIDE DEF n, q, old, new
<1>8. old # NoHead /\ old.bundle \in Bundles
  BY <1>2, <1>5 DEF HeadFrom, Ingested, NoHead
<1>9. new.bundle = q.bundle /\ new.policy = q.inputs.policy
  BY <1>4 DEF HeadFrom
<1>10. /\ q.inputs.policy.revision > old.policy.revision \/ q.inputs.policy = old.policy
       /\ q.bundle = old.bundle \/ Follows(q.bundle, old.bundle)
  BY <1>6, <1>8 DEF Status, Onward
<1> DEFINE F == Frontier(i)
           G == Frontier(n)
<1>11. /\ F.sequence = i /\ F.history = SubSeq(h, 1, i)
       /\ F.checkpoint = <<old.bundle.revision, old.bundle.name>>
       /\ F.trust = old.bundle.trust /\ F.epoch = old.bundle.epoch
       /\ F.policy = <<old.policy.revision, old.policy>>
  BY DEF Frontier, old, h
<1>12. /\ G.sequence = n /\ G.history = SubSeq(h, 1, n)
       /\ G.checkpoint = <<new.bundle.revision, new.bundle.name>>
       /\ G.trust = new.bundle.trust /\ G.epoch = new.bundle.epoch
       /\ G.policy = <<new.policy.revision, new.policy>>
  BY DEF Frontier, new, h
<1> HIDE DEF F, G
<1>13. G.sequence = F.sequence + 1 /\ G.history # F.history
  BY <1>1, <1>7, <1>11, <1>12 DEF n
<1>14. Progresses(F.policy, G.policy)
  BY <1>9, <1>10, <1>11, <1>12 DEF Progresses
<1>15. old.bundle.revision \in Nat /\ q.bundle \in Bundles /\ q.bundle.revision \in Nat
  BY <1>2, <1>8, DistributionConstants DEF Ingested
<1>16. CASE q.bundle = old.bundle
  <2>1. G.checkpoint = F.checkpoint /\ G.trust = F.trust /\ G.epoch = F.epoch
    BY <1>9, <1>11, <1>12, <1>16
  <2>2. Progresses(F.checkpoint, G.checkpoint) /\ Progresses(F.trust, G.trust)
    BY <2>1 DEF Progresses
  <2>3. G.checkpoint[1] <= F.checkpoint[1] + 1
    BY <1>11, <1>15, <2>1
  <2> QED
    BY <1>13, <1>14, <2>1, <2>2, <2>3 DEF Lineage, F, G, n
<1>17. CASE Follows(q.bundle, old.bundle)
  <2>1. q.bundle.revision = old.bundle.revision + 1
    BY <1>17 DEF Follows
  <2>2. F.checkpoint[1] = old.bundle.revision /\ G.checkpoint[1] = q.bundle.revision
    BY <1>9, <1>11, <1>12
  <2>3. Progresses(F.checkpoint, G.checkpoint) /\ G.checkpoint[1] = F.checkpoint[1] + 1
        /\ G.checkpoint[1] <= F.checkpoint[1] + 1
    BY <1>15, <2>1, <2>2 DEF Progresses
  <2>4. Progresses(F.trust, G.trust)
    BY <1>9, <1>11, <1>12, <1>17 DEF Follows, Progresses
  <2>5. \/ G.epoch = F.epoch
        \/ G.epoch[1] = F.epoch[1] + 1 /\ G.epoch[2] # F.epoch[2]
    BY <1>9, <1>11, <1>12, <1>17 DEF Follows, SameEpoch, NewEpoch
  <2> QED
    BY <1>13, <1>14, <2>3, <2>4, <2>5 DEF Lineage, F, G, n
<1> QED
  BY <1>10, <1>16, <1>17

(***************************************************************************)
(* The steps                                                               *)
(***************************************************************************)
LEMMA DistributionInitial == ASSUME DistributionInit, clock \in Times PROVE DistributionInv
<1>1. store.history = <<>> /\ store.head = NoHead /\ DOMAIN store.history = {}
      /\ Len(store.history) = 0
  BY DEF DistributionInit
<1>2. store \in DistributionImage
  BY EmptySeq DEF DistributionInit, DistributionImage, DistributionHead
<1>3. DistributionTypes
  BY <1>2, DistributionConstants DEF DistributionInit, DistributionTypes
<1>4. StoreLoads(store)
  BY <1>1, DistributionConstants DEF StoreLoads
<1> QED
  BY <1>3, <1>4 DEF DistributionInit, DistributionInv, Ingests, Verdicts, NoOutcome

LEMMA DistributionStays ==
  ASSUME DistributionInv, UNCHANGED distributionVars, clock' \in Times
  PROVE  DistributionInv'
<1>1. store' = store /\ provider' = provider /\ applying' = applying /\ outcome' = outcome
  BY DEF distributionVars
<1>2. DistributionTypes' /\ Ingests' = Ingests /\ Ingesting' = Ingesting
  BY <1>1 DEF DistributionInv, DistributionTypes, Ingests, Verdicts, Ingesting
<1>3. StoreLoads(store')
  BY <1>1 DEF DistributionInv
<1> QED
  BY <1>1, <1>2, <1>3 DEF DistributionInv, StoreLoads, ValidEntry

LEMMA ProviderKept ==
  ASSUME DistributionInv, UNCHANGED clock, NEW in \in PolicyInputs,
         ReplaceProvider(in) \/ NewDistributionProvider(in)
  PROVE  DistributionInv'
<1>1. /\ store' = store /\ provider' = in /\ outcome' = outcome
      /\ \/ applying' = applying
         \/ applying # NotApplying /\ applying' = [applying EXCEPT !.stale = TRUE]
  BY DEF ReplaceProvider, NewDistributionProvider
<1>2. applying \in Application \cup {NotApplying}
  BY DEF DistributionInv, DistributionTypes
<1>3. /\ applying' \in Application \cup {NotApplying}
      /\ applying' # NotApplying =>
           /\ applying # NotApplying
           /\ applying'.phase = applying.phase /\ applying'.request = applying.request
           /\ applying'.before = applying.before /\ applying'.image = applying.image
  <2>1. CASE applying' = applying
    BY <1>2, <2>1
  <2>2. CASE applying # NotApplying /\ applying' = [applying EXCEPT !.stale = TRUE]
    BY <1>2, <2>2 DEF Application
  <2> QED
    BY <1>1, <2>1, <2>2
<1>4. DistributionTypes' /\ Ingests' = Ingests
  BY <1>1, <1>3 DEF DistributionInv, DistributionTypes, Ingests, Verdicts
<1>5. applying' # NotApplying => Ingesting'
  BY <1>1, <1>3 DEF DistributionInv, Ingesting
<1> QED
  BY <1>1, <1>4, <1>5 DEF DistributionInv, StoreLoads, ValidEntry

\* A head is only kept where there is one.
LEMMA HeadTyped ==
  ASSUME NEW q \in Ingested, NEW head \in DistributionHead, NEW now \in Nat
  PROVE  HeadFrom(q, head, now) \in DistributionHead
<1> DEFINE accepted == IF Status(q, head, now) = "UNCHANGED" THEN head.accepted ELSE now
<1>1. accepted \in Nat
  <2>1. CASE head = NoHead
    <3>1. Status(q, head, now) # "UNCHANGED"
      BY <2>1 DEF Status
    <3> QED
      BY <3>1
  <2>2. CASE head # NoHead
    <3>1. head.accepted \in Nat
      BY <2>2 DEF DistributionHead
    <3> QED
      BY <3>1
  <2> QED
    BY <2>1, <2>2
<1>2. HeadFrom(q, head, now)
        = [bundle |-> q.bundle, policy |-> q.inputs.policy, checked |-> now, accepted |-> accepted]
  BY DEF HeadFrom
<1> HIDE DEF accepted
<1>3. q.bundle \in Bundles /\ q.inputs.policy \in {in.policy : in \in PolicyInputs}
  BY DEF Ingested
<1> QED
  BY <1>1, <1>2, <1>3 DEF DistributionHead

LEMMA BeginApplyKept ==
  ASSUME DistributionInv, UNCHANGED clock, NEW b \in Bundles, BeginApply(b)
  PROVE  DistributionInv'
<1> DEFINE q == [bundle |-> b, inputs |-> provider]
           status == Status(q, store.head, clock)
           entry == [request |-> q, at |-> clock, status |-> status]
           history == IF Repeats(q) THEN store.history ELSE Append(store.history, entry)
           image == [history |-> history, head |-> HeadFrom(q, store.head, clock)]
<1>1. /\ store' = store /\ provider' = provider /\ outcome' = NoOutcome
      /\ applying' = [phase |-> "written", request |-> q, last |-> clock, stale |-> FALSE,
                      before |-> Len(store.history), status |-> status, image |-> image]
  BY DEF BeginApply
<1>2. /\ store.history \in Seq(Ingestion) /\ store.head \in DistributionHead
      /\ provider \in PolicyInputs /\ clock \in Nat /\ Len(store.history) \in Nat
  <2>1. store \in DistributionImage /\ provider \in PolicyInputs /\ clock \in Nat
    BY ClockConstants DEF DistributionInv, DistributionTypes, Times
  <2> QED
    BY <2>1, LenProperties DEF DistributionImage
<1>3. q \in Ingested /\ q.bundle = b
  BY <1>2 DEF Ingested
<1>0. status # "REJECTED"
  BY DEF BeginApply
<1> HIDE DEF q
<1>4. status \in Verdicts
  BY <1>0 DEF Status, Verdicts
<1> HIDE DEF status
<1>5. entry \in Ingestion /\ entry.request = q
  BY <1>2, <1>3, <1>4 DEF Ingestion
<1> HIDE DEF entry
<1>6. history \in Seq(Ingestion) /\ history # <<>> /\ history[Len(history)].request = q
  <2>1. CASE Repeats(q)
    BY <1>2, <2>1 DEF Repeats
  <2>2. CASE ~Repeats(q)
    <3>1. /\ Append(store.history, entry) \in Seq(Ingestion)
          /\ Len(Append(store.history, entry)) = Len(store.history) + 1
          /\ Append(store.history, entry)[Len(store.history) + 1] = entry
      BY <1>2, <1>5, Appended
    <3> QED
      BY <1>2, <1>5, <2>2, <3>1
  <2> QED
    BY <2>1, <2>2
<1> HIDE DEF history
<1>7. image \in DistributionImage /\ image.history = history
  BY <1>2, <1>3, <1>6, HeadTyped DEF DistributionImage
<1> HIDE DEF image
<1>8. applying' \in Application
  BY <1>1, <1>2, <1>3, <1>4, <1>7 DEF Application
<1>9. Ingesting'
  BY <1>1, <1>6, <1>7 DEF Ingesting
<1>10. DistributionTypes' /\ ~Ingests'
  BY <1>1, <1>8 DEF DistributionInv, DistributionTypes, Ingests, Verdicts, NoOutcome
<1> QED
  BY <1>1, <1>9, <1>10 DEF DistributionInv, StoreLoads, ValidEntry

LEMMA RecheckKept ==
  ASSUME DistributionInv, UNCHANGED clock, RecheckApply
  PROVE  DistributionInv'
<1> DEFINE head == HeadFrom(applying.request, applying.image.head, clock)
           image == [history |-> applying.image.history, head |-> head]
<1>1. /\ store' = store /\ provider' = provider /\ outcome' = outcome
      /\ applying.phase = "written"
      /\ applying' = [applying EXCEPT !.phase = "checked", !.last = clock, !.image = image]
  BY DEF RecheckApply
<1>2. applying \in Application /\ applying # NotApplying /\ Ingesting /\ clock \in Nat
  BY <1>1, ClockConstants DEF DistributionInv, DistributionTypes, NotApplying, Times
<1>3. /\ applying.image.head \in DistributionHead /\ applying.request \in Ingested
      /\ applying.image.history \in Seq(Ingestion)
  BY <1>2 DEF Application, DistributionImage
<1>4. head \in DistributionHead
  BY <1>2, <1>3, HeadTyped
<1> HIDE DEF head
<1>5. image \in DistributionImage /\ image.history = applying.image.history
  BY <1>3, <1>4 DEF DistributionImage
<1> HIDE DEF image
<1>6. /\ applying' \in Application /\ applying'.image = image
      /\ applying'.phase = "checked" /\ applying'.request = applying.request
      /\ applying'.before = applying.before
  BY <1>1, <1>2, <1>5 DEF Application
<1>7. Ingesting'
  BY <1>1, <1>2, <1>5, <1>6 DEF Ingesting
<1>8. DistributionTypes' /\ Ingests' = Ingests
  BY <1>1, <1>6 DEF DistributionInv, DistributionTypes, Ingests, Verdicts
<1> QED
  BY <1>1, <1>7, <1>8 DEF DistributionInv, StoreLoads, ValidEntry

\* What is committed loads, and the answer is not yet given.
LEMMA CommitApplyKept ==
  ASSUME DistributionInv, UNCHANGED clock, CommitApply
  PROVE  DistributionInv'
<1>1. /\ Commits /\ store' = applying.image /\ provider' = provider /\ outcome' = outcome
      /\ applying' = [applying EXCEPT !.phase = "committed", !.last = clock]
      /\ applying.phase = "checked"
  BY DEF CommitApply, Commits
<1>2. applying \in Application /\ Ingesting /\ clock \in Nat
  BY <1>1, ClockConstants DEF DistributionInv, DistributionTypes, NotApplying, Times
<1>3. StoreLoads(applying.image)
  BY <1>1 DEF Commits, LoadsAt
<1>4. /\ applying' \in Application /\ applying'.phase = "committed"
      /\ applying'.image = applying.image /\ applying'.request = applying.request
      /\ applying.image \in DistributionImage
  BY <1>1, <1>2 DEF Application
<1>5. Ingesting'
  BY <1>1, <1>2, <1>4 DEF Ingesting
<1>6. DistributionTypes' /\ ~Ingests'
  BY <1>1, <1>2, <1>4 DEF DistributionInv, DistributionTypes, Ingesting, Ingests, Verdicts, NoOutcome
<1>7. StoreLoads(store)'
  BY <1>1, <1>3 DEF StoreLoads, ValidEntry
<1> QED
  BY <1>5, <1>6, <1>7 DEF DistributionInv

LEMMA ReturnApplyKept ==
  ASSUME DistributionInv, UNCHANGED clock, ReturnApply
  PROVE  DistributionInv'
<1>1. /\ store' = store /\ provider' = provider /\ applying' = NotApplying
      /\ applying.phase = "committed"
      /\ \/ outcome' = [status |-> applying.status, request |-> applying.request,
                        receipt |-> Len(applying.image.history)]
         \/ outcome' = [status |-> "OUTCOME_UNKNOWN"]
  BY DEF ReturnApply, Conclude
<1>2. Ingesting
  BY <1>1 DEF DistributionInv, NotApplying
<1>3. DistributionTypes'
  BY <1>1 DEF DistributionInv, DistributionTypes
<1>4. store = applying.image
      /\ applying.image.history[Len(applying.image.history)].request = applying.request
  BY <1>1, <1>2 DEF Ingesting
<1>5. (Ingests => store.history[outcome.receipt].request = outcome.request)'
  <2>1. CASE outcome' = [status |-> "OUTCOME_UNKNOWN"]
    BY <2>1 DEF Ingests, Verdicts
  <2>2. CASE outcome' = [status |-> applying.status, request |-> applying.request,
                         receipt |-> Len(applying.image.history)]
    <3>1. outcome'.receipt = Len(applying.image.history) /\ outcome'.request = applying.request
      BY <2>2
    <3> QED
      BY <1>1, <1>4, <3>1
  <2> QED
    BY <1>1, <2>1, <2>2
<1> QED
  BY <1>1, <1>3, <1>5 DEF DistributionInv, StoreLoads, ValidEntry

LEMMA ApplyEndsKept ==
  ASSUME DistributionInv, UNCHANGED clock, CommitApplyFails \/ RollbackApply \/ CrashApply
  PROVE  DistributionInv'
<1>1. /\ provider' = provider /\ applying' = NotApplying /\ ~Ingests'
      /\ store' = store \/ (Commits /\ store' = applying.image)
  BY DEF CommitApplyFails, RollbackApply, CrashApply, Conclude, Ingests, Verdicts, NoOutcome
<1>2. store' \in DistributionImage /\ StoreLoads(store')
  <2>1. CASE store' = store
    BY <2>1 DEF DistributionInv, DistributionTypes
  <2>2. CASE Commits /\ store' = applying.image
    BY <2>2 DEF Commits, LoadsAt, DistributionInv, DistributionTypes, Application, NotApplying
  <2> QED
    BY <1>1, <2>1, <2>2
<1>3. DistributionTypes'
  BY <1>1, <1>2 DEF DistributionInv, DistributionTypes
<1>4. StoreLoads(store)'
  BY <1>2 DEF StoreLoads, ValidEntry
<1> QED
  BY <1>1, <1>3, <1>4 DEF DistributionInv

LEMMA DistributionKept ==
  ASSUME DistributionInv, DistributionNext
  PROVE  DistributionInv'
<1>1. CASE SetClock /\ UNCHANGED distributionVars
  BY <1>1, DistributionStays DEF SetClock
<1>2. CASE UNCHANGED clock
             /\ \E in \in PolicyInputs : ReplaceProvider(in) \/ NewDistributionProvider(in)
  BY <1>2, ProviderKept
<1>3. CASE UNCHANGED clock /\ \E b \in Bundles : BeginApply(b)
  BY <1>3, BeginApplyKept
<1>4. CASE UNCHANGED clock /\ RecheckApply
  BY <1>4, RecheckKept
<1>5. CASE UNCHANGED clock /\ CommitApply
  BY <1>5, CommitApplyKept
<1>6. CASE UNCHANGED clock /\ ReturnApply
  BY <1>6, ReturnApplyKept
<1>7. CASE UNCHANGED clock /\ (CommitApplyFails \/ RollbackApply \/ CrashApply)
  BY <1>7, ApplyEndsKept
<1> QED
  BY <1>1, <1>2, <1>3, <1>4, <1>5, <1>6, <1>7 DEF DistributionNext

LEMMA DistributionStepAnswers ==
  ASSUME DistributionInv, DistributionNext, ~UNCHANGED distributionVars
  PROVE  /\ outcome'.status \in {"INITIAL", "ADVANCE", "UNCHANGED"} =>
              store'.history[outcome'.receipt].request = outcome'.request
         /\ applying # NotApplying /\ outcome'.status = "REFUSED" =>
              Len(store'.history) = applying.before
<1>1. DistributionInv'
  BY DistributionKept
<1>2. ASSUME applying # NotApplying, outcome'.status = "REFUSED"
      PROVE  Len(store'.history) = applying.before
  <2>1. Ingesting /\ outcome.status # "REFUSED" /\ applying \in Application
    BY <1>2 DEF DistributionInv, DistributionTypes, Ingesting, NoOutcome
  <2>2. outcome' # outcome
    BY <1>2, <2>1
  <2>3. CommitApplyFails \/ ReturnApply \/ RollbackApply \/ CrashApply
    BY <1>2, <2>2 DEF DistributionNext, ReplaceProvider, NewDistributionProvider, BeginApply,
      RecheckApply, CommitApply, distributionVars
  <2>4. ~CommitApplyFails /\ ~CrashApply
    BY <1>2 DEF CommitApplyFails, CrashApply, Conclude, NoOutcome
  <2>5. ~ReturnApply
    BY <1>2, <2>1 DEF ReturnApply, Conclude, Application, Verdicts
  <2> QED
    BY <2>1, <2>3, <2>4, <2>5 DEF RollbackApply, Ingesting
<1> QED
  BY <1>1, <1>2 DEF DistributionInv, Ingests, Verdicts
-----------------------------------------------------------------------------
(* The update store *)

UpdateEvent ==
  [kind : {"AUTHORITY"}, at : Nat, view : Authorities]
    \cup [kind : {"REGISTER"}, at : Nat, operation : STRING, intent : Intents]
    \cup [kind : {"PREPARE"}, at : Nat, operation : STRING, finished : Nat]
    \cup [kind : {"COMMIT"}, at : Nat, operation : STRING, finished : Nat, drained : Nat,
          authority : Nat]

UpdateInv ==
  /\ clock \in Times
  /\ events \in Seq(UpdateEvent) /\ UpdateLoads(events)
  /\ update # NoUpdate =>
       \/ update.event = NoEvent
       \/ update.event \in UpdateEvent /\ Writable(Append(events, update.event))

(***************************************************************************)
(* What a ledger says, and what it said before one of its events           *)
(***************************************************************************)
LEMMA EventStands ==
  ASSUME NEW s \in Seq(UpdateEvent), NEW t \in Seq(UpdateEvent), NEW n \in Nat,
         n <= Len(s), n <= Len(t), \A k \in 1..n : s[k] = t[k], NEW i \in 1..n,
         ValidEvent(s, i)
  PROVE  ValidEvent(t, i)
<1>1. SubSeq(s, 1, i - 1) = SubSeq(t, 1, i - 1)
  <2>1. i - 1 \in Nat /\ i - 1 <= Len(s) /\ i - 1 <= Len(t) /\ \A k \in 1..(i - 1) : s[k] = t[k]
    BY LenProperties
  <2> QED
    BY <2>1, SameBefore
<1>2. s[i] = t[i] /\ (i > 1 => s[i - 1] = t[i - 1])
  OBVIOUS
<1> QED
  BY <1>1, <1>2 DEF ValidEvent

LEMMA LedgerGrows ==
  ASSUME NEW s \in Seq(UpdateEvent), NEW e \in UpdateEvent, UpdateLoads(s), Writable(Append(s, e))
  PROVE  Append(s, e) \in Seq(UpdateEvent) /\ UpdateLoads(Append(s, e))
<1> DEFINE t == Append(s, e)
           n == Len(s)
<1>1. /\ t \in Seq(UpdateEvent) /\ Len(t) = n + 1 /\ DOMAIN t = 1..(n + 1)
      /\ \A k \in 1..n : s[k] = t[k]
      /\ n \in Nat /\ DOMAIN s = 1..n /\ n <= Len(s) /\ n <= Len(t)
  BY Appended, LenProperties
<1>2. t # <<>>
  <2>1. Len(t) # 0 /\ Len(<<>>) = 0
    BY <1>1
  <2> HIDE DEF t
  <2> QED
    BY <2>1
<1>4. \A i \in 1..n : ValidEvent(s, i)
  BY <1>1 DEF UpdateLoads
<1>6. Writable(t)
  OBVIOUS
<1> HIDE DEF t, n
<1>3. Len(t) <= MaxUpdateEvents /\ ValidEvent(t, n + 1)
  <2>1. Len(t) <= MaxUpdateEvents /\ ValidEvent(t, Len(t))
    BY <1>2, <1>6 DEF Writable
  <2> QED
    BY <1>1, <2>1
<1>5. \A i \in 1..n : ValidEvent(t, i)
  BY <1>1, <1>4, EventStands
<1> QED
  BY <1>1, <1>3, <1>5 DEF UpdateLoads, t

LEMMA LedgerPrefix ==
  ASSUME NEW s \in Seq(UpdateEvent), UpdateLoads(s), NEW n \in 0..Len(s)
  PROVE  SubSeq(s, 1, n) \in Seq(UpdateEvent) /\ UpdateLoads(SubSeq(s, 1, n))
<1> DEFINE t == SubSeq(s, 1, n)
<1>1. /\ t \in Seq(UpdateEvent) /\ Len(t) = n /\ DOMAIN t = 1..n /\ \A k \in 1..n : t[k] = s[k]
  <2>1. n + 1 \in 1..(Len(s) + 1) /\ (n + 1) - 1 = n
    BY LenProperties
  <2> QED
    BY <2>1, Before
<1>2. /\ n \in Nat /\ n <= Len(s) /\ n <= Len(t) /\ DOMAIN s = 1..Len(s) /\ Len(s) \in Nat
      /\ Len(s) <= MaxUpdateEvents /\ MaxUpdateEvents \in Nat
  BY <1>1, LenProperties, UpdateConstants DEF UpdateLoads
<1>3. \A i \in 1..n : ValidEvent(s, i)
  BY <1>2 DEF UpdateLoads
<1> HIDE DEF t
<1>4. \A i \in 1..n : ValidEvent(t, i)
  BY <1>1, <1>2, <1>3, EventStands
<1> QED
  BY <1>1, <1>2, <1>4 DEF UpdateLoads, t

LEMMA EarlierEvents ==
  ASSUME NEW s \in Seq(UpdateEvent), NEW i \in 1..Len(s), NEW kind, NEW operation
  PROVE  /\ OfKind(SubSeq(s, 1, i - 1), kind) = {k \in OfKind(s, kind) : k < i}
         /\ Of(SubSeq(s, 1, i - 1), kind, operation) = {k \in Of(s, kind, operation) : k < i}
         /\ OfKind(s, kind) \subseteq 1..Len(s) /\ Of(s, kind, operation) \subseteq 1..Len(s)
         /\ \A k \in OfKind(s, kind) : s[k].kind = kind
<1> DEFINE t == SubSeq(s, 1, i - 1)
<1>1. /\ DOMAIN t = 1..(i - 1) /\ \A j \in 1..(i - 1) : t[j] = s[j]
      /\ DOMAIN s = 1..Len(s) /\ Len(s) \in Nat
  <2>1. i \in 1..(Len(s) + 1)
    BY LenProperties
  <2> QED
    BY <2>1, Before, LenProperties
<1> HIDE DEF t
<1>2. OfKind(t, kind) = {k \in OfKind(s, kind) : k < i}
  BY <1>1 DEF OfKind
<1>3. Of(t, kind, operation) = {k \in Of(s, kind, operation) : k < i}
  BY <1>1, <1>2 DEF Of, OfKind
<1>4. OfKind(s, kind) \subseteq 1..Len(s) /\ Of(s, kind, operation) \subseteq 1..Len(s)
      /\ \A k \in OfKind(s, kind) : s[k].kind = kind
  BY <1>1 DEF OfKind, Of
<1> QED
  BY <1>2, <1>3, <1>4 DEF t

\* What a ledger that loads requires of one of its operations
LEMMA OperationIsValid ==
  ASSUME NEW s \in Seq(UpdateEvent), UpdateLoads(s), NEW i \in 1..Len(s), s[i].kind # "AUTHORITY"
  PROVE  ValidOperation(SubSeq(s, 1, i - 1), s[i])
<1>1. ValidEvent(s, i)
  BY LenProperties DEF UpdateLoads
<1> QED
  BY <1>1 DEF ValidEvent

LEMMA RegisteredOnce ==
  ASSUME NEW s \in Seq(UpdateEvent), UpdateLoads(s), NEW op,
         NEW i \in Of(s, "REGISTER", op), NEW j \in Of(s, "REGISTER", op)
  PROVE  i = j
<1>1. \A a, b \in Of(s, "REGISTER", op) : ~(a < b)
  <2> SUFFICES ASSUME NEW a \in Of(s, "REGISTER", op), NEW b \in Of(s, "REGISTER", op), a < b
               PROVE  FALSE
    OBVIOUS
  <2>1. b \in 1..Len(s) /\ s[b].kind = "REGISTER" /\ s[b].operation = op
    BY LenProperties DEF Of, OfKind
  <2>2. ~Registered(SubSeq(s, 1, b - 1), op)
    <3>1. ValidOperation(SubSeq(s, 1, b - 1), s[b])
      BY <2>1, OperationIsValid
    <3> QED
      BY <2>1, <3>1 DEF ValidOperation
  <2>3. a \in Of(SubSeq(s, 1, b - 1), "REGISTER", op)
    <3>1. Of(SubSeq(s, 1, b - 1), "REGISTER", op) = {k \in Of(s, "REGISTER", op) : k < b}
      BY <2>1, EarlierEvents
    <3> QED
      BY <3>1
  <2> QED
    BY <2>2, <2>3 DEF Registered
<1>2. i \in Nat /\ j \in Nat
  BY LenProperties DEF Of, OfKind
<1> QED
  BY <1>1, <1>2

\* An operation means what it was registered for, then and now.
LEMMA IntentStands ==
  ASSUME NEW s \in Seq(UpdateEvent), UpdateLoads(s), NEW i \in 1..Len(s), NEW op,
         Registered(SubSeq(s, 1, i - 1), op)
  PROVE  /\ Registered(s, op)
         /\ IntentOf(SubSeq(s, 1, i - 1), op) = IntentOf(s, op)
         /\ IntentOf(s, op) \in Intents
<1> DEFINE t == SubSeq(s, 1, i - 1)
<1>1. /\ Of(t, "REGISTER", op) = {k \in Of(s, "REGISTER", op) : k < i}
      /\ Of(s, "REGISTER", op) \subseteq 1..Len(s) /\ Len(s) \in Nat
  BY EarlierEvents, LenProperties
<1>2. PICK r : r \in Of(t, "REGISTER", op)
  BY DEF Registered
<1>3. r \in Of(s, "REGISTER", op) /\ r < i /\ r \in 1..(i - 1)
  BY <1>1, <1>2
<1>4. \A k \in Of(s, "REGISTER", op) : k = r
  BY <1>3, RegisteredOnce
<1>5. Max(Of(s, "REGISTER", op)) = r
  <2>1. Of(s, "REGISTER", op) \in SUBSET (0..Len(s))
    BY <1>1
  <2> QED
    BY <1>1, <1>3, <1>4, <2>1, MaxOfOne
<1>6. Max(Of(t, "REGISTER", op)) = r
  <2>1. Of(t, "REGISTER", op) \in SUBSET (0..Len(s)) /\ \A k \in Of(t, "REGISTER", op) : k = r
    BY <1>1, <1>4
  <2> QED
    BY <1>1, <1>2, <2>1, MaxOfOne
<1>7. t[r] = s[r]
  <2>1. i \in 1..(Len(s) + 1)
    BY <1>1
  <2> QED
    BY <1>3, <2>1, Before
<1>8. s[r] \in UpdateEvent /\ s[r].kind = "REGISTER"
  BY <1>1, <1>3, ElementOfSeq DEF Of, OfKind
<1>9. s[r].intent \in Intents
  BY <1>8 DEF UpdateEvent
<1> QED
  BY <1>3, <1>5, <1>6, <1>7, <1>9 DEF IntentOf, Registered

(***************************************************************************)
(* Commits                                                                 *)
(***************************************************************************)
LEMMA CommitIsValid ==
  ASSUME NEW s \in Seq(UpdateEvent), UpdateLoads(s), NEW j \in OfKind(s, "COMMIT")
  PROVE  LET before == SubSeq(s, 1, j - 1)
             intent == IntentOf(s, s[j].operation)
         IN /\ j \in 1..Len(s) /\ ~Committed(before, s[j].operation)
            /\ Registered(before, s[j].operation) /\ Registered(s, s[j].operation)
            /\ intent \in Intents
            /\ FitsHead(intent, UpdateHead(before))
            /\ Revision(before) # 0 /\ Signed(View(before), intent, s[j].at)
<1> DEFINE before == SubSeq(s, 1, j - 1)
           intent == IntentOf(s, s[j].operation)
<1>1. j \in 1..Len(s) /\ s[j].kind = "COMMIT"
  BY LenProperties DEF OfKind
<1>2. ValidOperation(before, s[j])
  BY <1>1, OperationIsValid
<1> HIDE DEF before
<1>3. /\ ~Committed(before, s[j].operation) /\ Registered(before, s[j].operation)
      /\ Revision(before) # 0
      /\ Signed(View(before), IntentOf(before, s[j].operation), s[j].at)
      /\ MayCommit(before, IntentOf(before, s[j].operation), s[j], s[j].at)
  BY <1>1, <1>2 DEF ValidOperation
<1>4. /\ Registered(s, s[j].operation) /\ IntentOf(before, s[j].operation) = intent
      /\ intent \in Intents
  BY <1>1, <1>3, IntentStands DEF before
<1>5. FitsHead(intent, UpdateHead(before))
  BY <1>3, <1>4 DEF MayCommit, MayPrepare
<1> QED
  BY <1>1, <1>3, <1>4, <1>5 DEF before

LEMMA CommittedOnce ==
  ASSUME NEW s \in Seq(UpdateEvent), UpdateLoads(s),
         NEW i \in OfKind(s, "COMMIT"), NEW j \in OfKind(s, "COMMIT"),
         s[i].operation = s[j].operation
  PROVE  i = j
<1>1. \A a, b \in OfKind(s, "COMMIT") : a < b => s[a].operation # s[b].operation
  <2> SUFFICES ASSUME NEW a \in OfKind(s, "COMMIT"), NEW b \in OfKind(s, "COMMIT"), a < b,
                      s[a].operation = s[b].operation
               PROVE  FALSE
    OBVIOUS
  <2>1. b \in 1..Len(s) /\ ~Committed(SubSeq(s, 1, b - 1), s[b].operation)
    BY CommitIsValid
  <2>2. /\ Of(SubSeq(s, 1, b - 1), "COMMIT", s[b].operation)
             = {k \in Of(s, "COMMIT", s[b].operation) : k < b}
    BY <2>1, EarlierEvents
  <2>3. a \in Of(s, "COMMIT", s[b].operation)
    BY DEF Of
  <2> QED
    BY <2>1, <2>2, <2>3 DEF Committed
<1>2. i \in Nat /\ j \in Nat
  BY LenProperties DEF OfKind
<1> QED
  BY <1>1, <1>2

\* A commit moves the head that the one before it left.
LEMMA CommitFollows ==
  ASSUME NEW s \in Seq(UpdateEvent), UpdateLoads(s), NEW j \in OfKind(s, "COMMIT"),
         {k \in OfKind(s, "COMMIT") : k < j} # {}
  PROVE  LET p == Max({k \in OfKind(s, "COMMIT") : k < j})
             last == IntentOf(s, s[p].operation)
             next == IntentOf(s, s[j].operation)
         IN /\ p \in OfKind(s, "COMMIT") /\ p < j
            /\ \A k \in OfKind(s, "COMMIT") : k < j => k <= p
            /\ next.sequence = last.sequence + 1 /\ next.expected = last.candidate
            /\ next.generation > last.generation
<1> DEFINE earlier == {k \in OfKind(s, "COMMIT") : k < j}
           p == Max(earlier)
           last == IntentOf(s, s[p].operation)
           next == IntentOf(s, s[j].operation)
           before == SubSeq(s, 1, j - 1)
<1>1. j \in 1..Len(s) /\ Len(s) \in Nat /\ FitsHead(next, UpdateHead(before))
  BY CommitIsValid, LenProperties
<1>2. OfKind(before, "COMMIT") = earlier
  BY <1>1, EarlierEvents
<1>3. p \in earlier /\ \A k \in earlier : k <= p
  <2>1. earlier \in SUBSET (0..Len(s))
    BY <1>1, LenProperties DEF OfKind
  <2> QED
    BY <1>1, <2>1, MaxOf
<1> HIDE DEF p
<1>4. p \in OfKind(s, "COMMIT") /\ p < j /\ p \in 1..(j - 1)
  BY <1>1, <1>3, LenProperties DEF OfKind
<1>5. before[p] = s[p]
  <2>1. j \in 1..(Len(s) + 1)
    BY <1>1
  <2> QED
    BY <1>4, <2>1, Before
<1>6. IntentOf(before, s[p].operation) = last
  <2>1. Registered(SubSeq(s, 1, p - 1), s[p].operation)
    BY <1>4, CommitIsValid
  <2>2. Registered(before, s[p].operation)
    <3>1. /\ Of(before, "REGISTER", s[p].operation)
               = {k \in Of(s, "REGISTER", s[p].operation) : k < j}
          /\ Of(SubSeq(s, 1, p - 1), "REGISTER", s[p].operation)
               = {k \in Of(s, "REGISTER", s[p].operation) : k < p}
          /\ Of(s, "REGISTER", s[p].operation) \subseteq 1..Len(s)
      <4>1. p \in 1..Len(s)
        BY <1>1, <1>4
      <4>2. \A i \in 1..Len(s) : \A operation :
              /\ Of(SubSeq(s, 1, i - 1), "REGISTER", operation)
                   = {k \in Of(s, "REGISTER", operation) : k < i}
              /\ Of(s, "REGISTER", operation) \subseteq 1..Len(s)
        BY EarlierEvents
      <4> QED
        BY <1>1, <4>1, <4>2
    <3>2. \A k \in 1..Len(s) : k < p => k < j
      <4>1. p \in Int /\ j \in Int /\ Len(s) \in Int /\ p < j
        BY <1>1, <1>4
      <4> HIDE DEF next, before, last, earlier
      <4>2. \A k \in Int : k < p => k < j
        BY <4>1
      <4>3. \A k \in 1..Len(s) : k \in Int
        BY <4>1
      <4> QED
        BY <4>2, <4>3
    <3> QED
      BY <2>1, <3>1, <3>2 DEF Registered
  <2> QED
    BY <1>1, <2>2, IntentStands
<1>7. UpdateHead(before) = [sequence |-> last.sequence + 1, checkpoint |-> last.candidate,
                            generation |-> last.generation]
  <2>1. earlier # {}
    OBVIOUS
  <2> HIDE DEF earlier, last, before
  <2> QED
    BY <1>2, <1>5, <1>6, <2>1 DEF UpdateHead, p
<1>8. /\ UpdateHead(before).sequence = last.sequence + 1
      /\ UpdateHead(before).checkpoint = last.candidate
      /\ UpdateHead(before).generation = last.generation
  BY <1>7
<1> HIDE DEF last, next, before
<1>9. /\ next.sequence = last.sequence + 1 /\ next.expected = last.candidate
      /\ next.generation > last.generation
  BY <1>1, <1>8 DEF FitsHead
<1> QED
  BY <1>3, <1>4, <1>9 DEF p, last, next

Chained(s, i, j) ==
  LET first == IntentOf(s, s[i].operation)
      later == IntentOf(s, s[j].operation)
  IN /\ later.sequence > first.sequence /\ later.generation > first.generation
     /\ later.sequence = first.sequence + 1 => later.expected = first.candidate

LEMMA ChainGrows ==
  ASSUME NEW s \in Seq(UpdateEvent), UpdateLoads(s),
         NEW x \in OfKind(s, "COMMIT"), NEW y \in OfKind(s, "COMMIT"), x < y
  PROVE  Chained(s, x, y)
<1> SUFFICES ASSUME ~Chained(s, x, y) PROVE FALSE
  OBVIOUS
<1> DEFINE C == OfKind(s, "COMMIT")
           T == {j \in C : \E i \in C : i < j /\ ~Chained(s, i, j)}
<1>0. C \subseteq Nat
  BY LenProperties DEF OfKind
<1>1. PICK m \in T : \A k \in T : m <= k
  <2>1. T \in SUBSET Nat /\ T # {}
    BY <1>0
  <2> QED
    BY <2>1, NatMin
<1>2. PICK i \in C : i < m /\ ~Chained(s, i, m)
  BY <1>1
<1>3. m \in C /\ \A k \in C : k < m => \A l \in C : l < k => Chained(s, l, k)
  BY <1>0, <1>1
<1> DEFINE p == Max({k \in C : k < m})
           last == IntentOf(s, s[p].operation)
           next == IntentOf(s, s[m].operation)
           first == IntentOf(s, s[i].operation)
<1>4. /\ p \in C /\ p < m /\ \A k \in C : k < m => k <= p
      /\ next.sequence = last.sequence + 1 /\ next.expected = last.candidate
      /\ next.generation > last.generation
  <2>1. {k \in OfKind(s, "COMMIT") : k < m} # {}
    BY <1>2
  <2> QED
    BY <1>3, <2>1, CommitFollows
<1>5. \A k \in C : IntentOf(s, s[k].operation) \in Intents
  BY CommitIsValid
<1>6. /\ first.sequence \in Nat /\ first.generation \in Nat /\ last.sequence \in Nat
      /\ last.generation \in Nat /\ next.generation \in Nat
  <2>1. \A intent \in Intents : intent.sequence \in Nat /\ intent.generation \in Nat
    BY UpdateConstants
  <2> QED
    BY <1>2, <1>3, <1>4, <1>5, <2>1
<1>7. i <= p
  BY <1>2, <1>4
<1> HIDE DEF p, C
<1>8. CASE i = p
  BY <1>2, <1>4, <1>6, <1>8 DEF Chained
<1>9. CASE i # p
  <2>1. i < p
    BY <1>0, <1>2, <1>4, <1>7, <1>9
  <2>2. Chained(s, i, p)
    BY <1>2, <1>3, <1>4, <2>1
  <2>3. last.sequence > first.sequence /\ last.generation > first.generation
    BY <2>2 DEF Chained
  <2>4. /\ next.sequence > first.sequence /\ next.generation > first.generation
        /\ next.sequence # first.sequence + 1
    BY <1>4, <1>6, <2>3
  <2> QED
    BY <1>2, <2>4 DEF Chained
<1> QED
  BY <1>8, <1>9

(***************************************************************************)
(* Authorities                                                             *)
(***************************************************************************)
LEMMA AuthorityInForce ==
  ASSUME NEW s \in Seq(UpdateEvent), NEW i \in 1..Len(s),
         Revision(SubSeq(s, 1, i - 1)) # 0 \/ \E k \in OfKind(s, "AUTHORITY") : k < i
  PROVE  LET before == SubSeq(s, 1, i - 1)
             r == Revision(before)
         IN /\ r # 0 /\ r \in OfKind(s, "AUTHORITY") /\ r < i /\ View(before) = s[r].view
            /\ \A k \in OfKind(s, "AUTHORITY") : k < i => k <= r
<1> DEFINE before == SubSeq(s, 1, i - 1)
           A == OfKind(s, "AUTHORITY")
           earlier == {k \in A : k < i}
           r == Revision(before)
<1>1. OfKind(before, "AUTHORITY") = earlier /\ A \subseteq 1..Len(s) /\ Len(s) \in Nat
  BY EarlierEvents, LenProperties
<1>2. r = Max(earlier \cup {0})
  BY <1>1 DEF Revision
<1>3. r \in earlier \cup {0} /\ \A k \in earlier \cup {0} : k <= r
  <2>1. earlier \cup {0} \in SUBSET (0..Len(s)) /\ earlier \cup {0} # {}
    BY <1>1
  <2> HIDE DEF earlier
  <2> QED
    BY <1>1, <1>2, <2>1, MaxOf
<1>4. r # 0
  <2>1. CASE \E k \in A : k < i
    <3>1. PICK k \in earlier : TRUE
      BY <2>1
    <3> QED
      BY <1>1, <1>3, <3>1
  <2> QED
    BY <2>1
<1> HIDE DEF r
<1>5. r \in A /\ r < i /\ r \in 1..(i - 1)
  BY <1>1, <1>3, <1>4
<1>6. before[r] = s[r]
  <2>1. i \in 1..(Len(s) + 1)
    BY <1>1
  <2> QED
    BY <1>5, <2>1, Before
<1>7. View(before) = s[r].view
  BY <1>6 DEF View, r
<1> QED
  BY <1>3, <1>4, <1>5, <1>7 DEF r

LEMMA BarredGrows ==
  ASSUME NEW s \in Seq(UpdateEvent), UpdateLoads(s),
         NEW x \in OfKind(s, "AUTHORITY"), NEW y \in OfKind(s, "AUTHORITY"), x <= y
  PROVE  s[x].view.barred \subseteq s[y].view.barred
<1> SUFFICES ASSUME ~(s[x].view.barred \subseteq s[y].view.barred) PROVE FALSE
  OBVIOUS
<1> DEFINE A == OfKind(s, "AUTHORITY")
           Kept(i, j) == s[i].view.barred \subseteq s[j].view.barred
           T == {j \in A : \E i \in A : i <= j /\ ~Kept(i, j)}
<1>0. A \subseteq 1..Len(s) /\ A \subseteq Nat /\ DOMAIN s = 1..Len(s)
      /\ \A k \in A : s[k].kind = "AUTHORITY"
  BY LenProperties DEF OfKind
<1>1. PICK m \in T : \A k \in T : m <= k
  <2>1. T \in SUBSET Nat /\ T # {}
    BY <1>0
  <2> QED
    BY <2>1, NatMin
<1>2. PICK i \in A : i <= m /\ ~Kept(i, m)
  BY <1>1
<1>3. m \in A /\ \A k \in A : k < m => \A l \in A : l <= k => Kept(l, k)
  BY <1>0, <1>1
<1>4. i < m
  BY <1>0, <1>2, <1>3
<1> DEFINE before == SubSeq(s, 1, m - 1)
           r == Revision(before)
<1>5. /\ r # 0 /\ r \in A /\ r < m /\ View(before) = s[r].view /\ i <= r
  <2>1. m \in 1..Len(s)
    BY <1>0, <1>3
  <2> QED
    BY <1>2, <1>4, <2>1, AuthorityInForce
<1>6. Kept(i, r)
  BY <1>2, <1>3, <1>5
<1>7. AuthorityFollows(s[m].view, s[r].view)
  <2>1. ValidEvent(s, m) /\ s[m].kind = "AUTHORITY"
    BY <1>0, <1>3 DEF UpdateLoads
  <2> QED
    BY <1>5, <2>1 DEF ValidEvent
<1>8. s[r].view.barred \subseteq s[m].view.barred
  BY <1>7 DEF AuthorityFollows
<1> QED
  BY <1>2, <1>6, <1>8

LEMMA CommitsChain == UpdateInv => CommitsFormAChain
  BY ChainGrows DEF UpdateInv, CommitsFormAChain, Chained

LEMMA BarredStaysBarred == UpdateInv => BarredKeysCommitNothing
<1> SUFFICES ASSUME UpdateInv, NEW i \in OfKind(events, "AUTHORITY"),
                    NEW j \in OfKind(events, "COMMIT"), i < j
             PROVE  IntentOf(events, events[j].operation).key \notin events[i].view.barred
  BY DEF BarredKeysCommitNothing
<1> DEFINE before == SubSeq(events, 1, j - 1)
           r == Revision(before)
           intent == IntentOf(events, events[j].operation)
<1>1. events \in Seq(UpdateEvent) /\ UpdateLoads(events)
  BY DEF UpdateInv
<1>2. j \in 1..Len(events) /\ Signed(View(before), intent, events[j].at)
  BY <1>1, CommitIsValid
<1>3. r \in OfKind(events, "AUTHORITY") /\ View(before) = events[r].view /\ i <= r
  BY <1>1, <1>2, AuthorityInForce
<1> HIDE DEF r, before
<1>4. events[i].view.barred \subseteq events[r].view.barred
  BY <1>1, <1>3, BarredGrows
<1>5. intent.key \notin events[r].view.barred
  BY <1>2, <1>3 DEF Signed
<1> QED
  BY <1>4, <1>5

(***************************************************************************)
(* The steps                                                               *)
(***************************************************************************)
LEMMA UpdateInitial == ASSUME UpdateInit, clock \in Times PROVE UpdateInv
<1>1. UpdateLoads(<<>>)
  BY UpdateConstants DEF UpdateLoads
<1> QED
  BY <1>1, EmptySeq DEF UpdateInit, UpdateInv

LEMMA UpdateStays ==
  ASSUME UpdateInv, UNCHANGED <<events, update>>, clock' \in Times
  PROVE  UpdateInv'
<1>1. events' = events /\ update' = update
  OBVIOUS
<1>2. UpdateLoads(events) /\ events \in Seq(UpdateEvent)
      /\ (update # NoUpdate =>
            \/ update.event = NoEvent
            \/ update.event \in UpdateEvent /\ Writable(Append(events, update.event)))
  BY DEF UpdateInv
<1>3. UpdateLoads(events')
  BY <1>1, <1>2
<1>4. update' # NoUpdate =>
        \/ update'.event = NoEvent
        \/ update'.event \in UpdateEvent /\ Writable(Append(events', update'.event))
  BY <1>1, <1>2
<1> QED
  BY <1>1, <1>2, <1>3, <1>4 DEF UpdateInv, UpdateLoads, ValidEvent, Writable

LEMMA RevisionIsNat == ASSUME NEW s \in Seq(UpdateEvent) PROVE Revision(s) \in Nat
<1>1. OfKind(s, "AUTHORITY") \cup {0} \in SUBSET (0..Len(s))
      /\ OfKind(s, "AUTHORITY") \cup {0} # {} /\ Len(s) \in Nat
  BY LenProperties DEF OfKind
<1> HIDE DEF OfKind
<1>2. Max(OfKind(s, "AUTHORITY") \cup {0}) \in 0..Len(s)
  BY <1>1, MaxOf
<1> QED
  BY <1>1, <1>2 DEF Revision

LEMMA WrittenIsEvent ==
  ASSUME NEW s \in Seq(UpdateEvent), NEW action \in {"REGISTER", "RECOVER", "PREPARE", "COMMIT"},
         NEW intent \in Intents, NEW seen, seen.finished \in Nat, seen.drained \in Nat,
         NEW at \in Nat
  PROVE  \/ EventFor(s, action, intent, seen, at) = NoEvent
         \/ EventFor(s, action, intent, seen, at) \in UpdateEvent
<1>1. intent.operation \in STRING
  BY UpdateConstants
<1>2. Revision(s) \in Nat
  BY RevisionIsNat
<1>3. CASE Repeated(s, action, intent.operation, seen)
  BY <1>3 DEF EventFor
<1>4. CASE ~Repeated(s, action, intent.operation, seen)
  <2>1. action # "RECOVER"
    BY <1>4 DEF Repeated
  <2>2. CASE action = "REGISTER"
    <3>1. EventFor(s, action, intent, seen, at)
            = [kind |-> "REGISTER", at |-> at, operation |-> intent.operation, intent |-> intent]
      BY <1>4, <2>2 DEF EventFor
    <3> QED
      BY <1>1, <3>1 DEF UpdateEvent
  <2>3. CASE action = "PREPARE"
    <3>1. EventFor(s, action, intent, seen, at)
            = [kind |-> "PREPARE", at |-> at, operation |-> intent.operation,
               finished |-> seen.finished]
      BY <1>4, <2>3 DEF EventFor
    <3> QED
      BY <1>1, <3>1 DEF UpdateEvent
  <2>4. CASE action = "COMMIT"
    <3>1. EventFor(s, action, intent, seen, at)
            = [kind |-> "COMMIT", at |-> at, operation |-> intent.operation,
               finished |-> seen.finished, drained |-> seen.drained, authority |-> Revision(s)]
      BY <1>4, <2>4 DEF EventFor
    <3> QED
      BY <1>1, <1>2, <3>1 DEF UpdateEvent
  <2> QED
    BY <2>1, <2>2, <2>3, <2>4
<1> QED
  BY <1>3, <1>4

LEMMA BeginAuthorityKept ==
  ASSUME UpdateInv, UNCHANGED clock, NEW view \in Authorities, NEW expected,
         BeginAuthority(view, expected)
  PROVE  UpdateInv'
<1> DEFINE event == IF AlreadyInForce(events, view) THEN NoEvent
                    ELSE [kind |-> "AUTHORITY", at |-> clock, view |-> view]
<1>1. /\ Writable(With(events, event)) /\ events' = events
      /\ update' = [action |-> "AUTHORITY", expected |-> expected, event |-> event, last |-> clock]
  BY DEF BeginAuthority, Opened
<1>2. clock \in Nat /\ events \in Seq(UpdateEvent) /\ UpdateLoads(events)
  BY ClockConstants DEF UpdateInv, Times
<1>3. event = NoEvent \/ event \in UpdateEvent
  BY <1>2 DEF UpdateEvent
<1> HIDE DEF event
<1>4. update'.event = event
  BY <1>1
<1>5. event # NoEvent => event \in UpdateEvent /\ Writable(Append(events, event))
  BY <1>1, <1>3 DEF With
<1> QED
  BY <1>1, <1>2, <1>4, <1>5 DEF UpdateInv, UpdateLoads, ValidEvent, Writable

LEMMA BeginOperationKept ==
  ASSUME UpdateInv, UNCHANGED clock, NEW action \in {"REGISTER", "RECOVER", "PREPARE", "COMMIT"},
         NEW intent \in Intents, NEW seen \in Observations \cup {NoObservation},
         BeginOperation(action, intent, seen)
  PROVE  UpdateInv'
<1> DEFINE event == EventFor(events, action, intent, seen, clock)
<1>1. /\ Writable(With(events, event)) /\ events' = events
      /\ update' = [action |-> action, intent |-> intent, event |-> event, last |-> clock]
  BY DEF BeginOperation, Opened
<1>2. /\ clock \in Nat /\ events \in Seq(UpdateEvent) /\ UpdateLoads(events)
      /\ seen.finished \in Nat /\ seen.drained \in Nat
  BY ClockConstants DEF UpdateInv, Times, Observations, NoObservation
<1>3. event = NoEvent \/ event \in UpdateEvent
  BY <1>2, WrittenIsEvent
<1> HIDE DEF event
<1>4. update'.event = event
  BY <1>1
<1>5. event # NoEvent => event \in UpdateEvent /\ Writable(Append(events, event))
  BY <1>1, <1>3 DEF With
<1> QED
  BY <1>1, <1>2, <1>4, <1>5 DEF UpdateInv, UpdateLoads, ValidEvent, Writable

LEMMA UpdateEndsKept ==
  ASSUME UpdateInv, UNCHANGED clock, CommitUpdate \/ CommitUpdateFails \/ RollbackUpdate
  PROVE  UpdateInv'
<1>1. /\ update # NoUpdate /\ update' = NoUpdate
      /\ events' \in {events, With(events, update.event)}
  BY DEF CommitUpdate, CommitUpdateFails, RollbackUpdate, Reply
<1>2. events \in Seq(UpdateEvent) /\ UpdateLoads(events)
  BY DEF UpdateInv
<1>3. events' \in Seq(UpdateEvent) /\ UpdateLoads(events')
  <2>1. CASE events' = events
    BY <1>2, <2>1
  <2>2. CASE events' # events
    <3>1. /\ update.event \in UpdateEvent /\ Writable(Append(events, update.event))
          /\ events' = Append(events, update.event)
      BY <1>1, <2>2 DEF UpdateInv, With
    <3> QED
      BY <1>2, <3>1, LedgerGrows
  <2> QED
    BY <2>1, <2>2
<1>4. UpdateLoads(events)'
  BY <1>3 DEF UpdateLoads, ValidEvent
<1> QED
  BY <1>1, <1>3, <1>4 DEF UpdateInv

LEMMA RestoreKept ==
  ASSUME UpdateInv, UNCHANGED clock, NEW n \in 0..(Len(events) - 1), RestoreStore(n)
  PROVE  UpdateInv'
<1>1. events \in Seq(UpdateEvent) /\ UpdateLoads(events) /\ n \in 0..Len(events)
  BY LenProperties DEF UpdateInv
<1>2. events' \in Seq(UpdateEvent) /\ UpdateLoads(events')
  BY <1>1, LedgerPrefix DEF RestoreStore
<1>3. UpdateLoads(events)'
  BY <1>2 DEF UpdateLoads, ValidEvent
<1> QED
  BY <1>2, <1>3 DEF RestoreStore, UpdateInv

LEMMA UpdateKept ==
  ASSUME UpdateInv, UpdateNext
  PROVE  UpdateInv'
<1>1. CASE SetClock /\ reply' = NoReply /\ UNCHANGED <<events, update>>
  BY <1>1, UpdateStays DEF SetClock
<1>2. CASE UpdateStep /\ UNCHANGED clock
  <2>1. CASE \E view \in Authorities, expected \in 0..Len(events) : BeginAuthority(view, expected)
    BY <1>2, <2>1, BeginAuthorityKept
  <2>2. CASE \E intent \in Intents, action \in {"REGISTER", "RECOVER", "PREPARE", "COMMIT"},
                 seen \in Observations \cup {NoObservation} : BeginOperation(action, intent, seen)
    BY <1>2, <2>2, BeginOperationKept
  <2>3. CASE CommitUpdate \/ CommitUpdateFails \/ RollbackUpdate
    BY <1>2, <2>3, UpdateEndsKept
  <2>4. CASE \E n \in 0..(Len(events) - 1) : RestoreStore(n)
    BY <1>2, <2>4, RestoreKept
  <2> QED
    BY <1>2, <2>1, <2>2, <2>3, <2>4 DEF UpdateStep
<1> QED
  BY <1>1, <1>2 DEF UpdateNext

LEMMA UpdateStepAnswers ==
  ASSUME UpdateInv, UpdateNext
  PROVE  /\ reply' = "RECOVERED" =>
              \E i \in OfKind(events, "COMMIT") :
                IntentOf(events, events[i].operation) = update.intent
         /\ reply' = "APPENDED" => events' = Append(events, update.event)
         /\ reply' \in {"RECOVERED", "UNCHANGED", "REFUSED"} => events' = events
         /\ \A i, j \in OfKind(events', "COMMIT") :
              events'[i].operation = events'[j].operation => i = j
<1>1. events' \in Seq(UpdateEvent) /\ UpdateLoads(events')
  <2>1. UpdateInv'
    BY UpdateKept
  <2> QED
    BY <2>1 DEF UpdateInv, UpdateLoads, ValidEvent
<1>2. \A i, j \in OfKind(events', "COMMIT") :
        events'[i].operation = events'[j].operation => i = j
  BY <1>1, CommittedOnce
<1>3. \/ reply' \in {NoReply, "OUTCOME_UNKNOWN", "WRITE_FAILED"}
      \/ CommitUpdate \/ RollbackUpdate
  BY DEF UpdateNext, UpdateStep, BeginAuthority, BeginOperation, Opened, CommitUpdateFails,
    RestoreStore, Reply
<1>4. CASE reply' \in {NoReply, "OUTCOME_UNKNOWN", "WRITE_FAILED"}
  BY <1>2, <1>4 DEF NoReply
<1>5. CASE RollbackUpdate
  <2>1. events' = events /\ reply' \in {"REFUSED", "WRITE_FAILED", NoReply}
    BY <1>5 DEF RollbackUpdate, Reply
  <2> QED
    BY <1>2, <2>1 DEF NoReply
<1>6. CASE CommitUpdate
  <2>1. reply' = Outcome /\ events' = With(events, update.event) /\ Rechecked
    BY <1>6 DEF CommitUpdate, Reply
  <2>2. reply' = "APPENDED" => events' = Append(events, update.event)
    BY <2>1 DEF Outcome, With
  <2>3. reply' \in {"RECOVERED", "UNCHANGED", "REFUSED"} => events' = events
    BY <2>1 DEF Outcome, With
  <2>4. ASSUME reply' = "RECOVERED"
        PROVE  \E i \in OfKind(events, "COMMIT") :
                 IntentOf(events, events[i].operation) = update.intent
    <3>1. update.action # "AUTHORITY" /\ Committed(events, update.intent.operation)
      BY <2>1, <2>4 DEF Outcome
    <3>2. \E seen \in Observations :
            OperationAllowed(events, update.action, update.intent, seen, clock)
      BY <2>1, <3>1 DEF Rechecked
    <3>3. Same(events, update.intent)
      BY <3>2 DEF OperationAllowed
    <3>4. PICK i \in OfKind(events, "COMMIT") : events[i].operation = update.intent.operation
      BY <3>1 DEF Committed, Of
    <3>5. Registered(events, events[i].operation)
      BY <3>4, CommitIsValid DEF UpdateInv
    <3> QED
      BY <3>3, <3>4, <3>5 DEF Same
  <2> QED
    BY <1>2, <2>2, <2>3, <2>4
<1> QED
  BY <1>3, <1>4, <1>6, <1>5
-----------------------------------------------------------------------------
(* The administrative ledger *)

AdminPayload ==
  [kind : {"CREDENTIAL_ENROLLED"}, enrolled : Enrollments]
    \cup [kind : {"PERMISSION_GRANTED"}, granted : Permissions]
    \cup [kind : {"CREDENTIAL_DISABLED"}, target : STRING, expected : Nat]
    \cup [kind : {"PERMISSION_REVOKED"}, target : Nat, expected : Nat]

Identity ==
  [credential : STRING, principal : STRING, verified : Nat, revision : Nat, until : Nat]
    \cup {NoIdentity}

AuthorizationEvent ==
  [id : Nat, at : Nat, actor : Identity, grant : Nat, payload : AdminPayload]

Activation ==
  {NoActivation}
    \cup [step : {"ACTIVATED"}, proof : Descriptors, from : Nat, until : Nat, last : Nat]
    \cup [step : {"LOCKED"}, proof : Descriptors, from : Nat, until : Nat, last : Nat,
          image : Seq(AuthorizationEvent)]

AuthorizationTypes ==
  /\ clock \in Times
  /\ authorizations \in Seq(AuthorizationEvent)
  /\ activation \in [Hosts -> Activation]
  /\ identities \in [Credentials -> Identity]

\* What a bootstrap that holds the lock will write: the seed of a ledger that
\* has none yet, or the ledger as it is.
Bootstraps(image) ==
  image = authorizations \/ (authorizations = <<>> /\ AuthorizationLoads(image))

\* What a bootstrap was verified with is what it still goes by: the lease ends
\* no later than any window, and what is locked is the anchor's.
AsVerified(held) ==
  LET m == held.proof.manifest IN
  held # NoActivation =>
    /\ held.until <= held.from + LeaseLifetime
    /\ held.until <= held.proof.until /\ held.until <= m.until
    /\ held.until <= m.enrolled.until /\ held.until <= m.granted.until
    /\ held.step = "LOCKED" => held.proof.operator = Anchor.operator /\ m = Anchor.manifest

AuthorizationInv ==
  /\ AuthorizationTypes /\ AuthorizationLoads(authorizations)
  /\ \A h \in Hosts : AsVerified(activation[h])
  /\ \A h \in Locked : Bootstraps(activation[h].image)
  /\ \A g, h \in Locked : g = h
  /\ \A c \in Credentials : identities[c] # NoIdentity => identities[c].credential = c

(***************************************************************************)
(* What a ledger says, and what it said before one of its events           *)
(***************************************************************************)
LEMMA AuthorizationStands ==
  ASSUME NEW s \in Seq(AuthorizationEvent), NEW t \in Seq(AuthorizationEvent), NEW n \in Nat,
         n <= Len(s), n <= Len(t), \A k \in 1..n : s[k] = t[k], NEW i \in 1..n,
         ValidAuthorization(s, i)
  PROVE  ValidAuthorization(t, i)
<1>1. SubSeq(s, 1, i - 1) = SubSeq(t, 1, i - 1)
  <2>1. i - 1 \in Nat /\ i - 1 <= Len(s) /\ i - 1 <= Len(t) /\ \A k \in 1..(i - 1) : s[k] = t[k]
    BY LenProperties
  <2> QED
    BY <2>1, SameBefore
<1>2. s[i] = t[i] /\ (i > 1 => s[i - 1] = t[i - 1]) /\ s[1] = t[1]
  OBVIOUS
<1>3. ValidSeed(s, i) => ValidSeed(t, i)
  BY <1>2 DEF ValidSeed
<1> QED
  BY <1>1, <1>2, <1>3 DEF ValidAuthorization

LEMMA AuthorizationGrows ==
  ASSUME NEW s \in Seq(AuthorizationEvent), NEW e \in AuthorizationEvent, AuthorizationLoads(s),
         ValidAuthorization(Append(s, e), Len(Append(s, e)))
  PROVE  Append(s, e) \in Seq(AuthorizationEvent) /\ AuthorizationLoads(Append(s, e))
<1> DEFINE t == Append(s, e)
           n == Len(s)
<1>1. /\ t \in Seq(AuthorizationEvent) /\ Len(t) = n + 1 /\ DOMAIN t = 1..(n + 1)
      /\ \A k \in 1..n : s[k] = t[k]
      /\ n \in Nat /\ DOMAIN s = 1..n /\ n <= Len(s) /\ n <= Len(t)
  BY Appended, LenProperties
<1>2. \A i \in 1..n : ValidAuthorization(s, i)
  BY <1>1 DEF AuthorizationLoads
<1>3. ValidAuthorization(t, Len(t))
  OBVIOUS
<1> HIDE DEF t, n
<1>4. \A i \in 1..n : ValidAuthorization(t, i)
  BY <1>1, <1>2, AuthorizationStands
<1>5. ValidAuthorization(t, n + 1)
  BY <1>1, <1>3
<1> QED
  BY <1>1, <1>4, <1>5 DEF AuthorizationLoads, t

LEMMA EarlierAuthorizations ==
  ASSUME NEW s \in Seq(AuthorizationEvent), NEW i \in 1..Len(s), NEW x
  PROVE  LET before == SubSeq(s, 1, i - 1)
         IN /\ EnrolledAt(before, x) = {k \in EnrolledAt(s, x) : k < i}
            /\ DisabledAt(before, x) = {k \in DisabledAt(s, x) : k < i}
            /\ GrantedAt(before, x) = {k \in GrantedAt(s, x) : k < i}
            /\ RevokedAt(before, x) = {k \in RevokedAt(s, x) : k < i}
            /\ \A j \in 1..Len(s) : j < i => j \in DOMAIN before /\ before[j] = s[j]
<1> DEFINE t == SubSeq(s, 1, i - 1)
<1>1. /\ DOMAIN t = 1..(i - 1) /\ \A j \in 1..(i - 1) : t[j] = s[j]
      /\ DOMAIN s = 1..Len(s) /\ Len(s) \in Nat
  <2>1. i \in 1..(Len(s) + 1)
    BY LenProperties
  <2> QED
    BY <2>1, Before, LenProperties
<1> HIDE DEF t
<1>2. \A kind : Kind(t, kind) = {k \in Kind(s, kind) : k < i}
  BY <1>1 DEF Kind
<1>3. \A kind : \A k \in Kind(t, kind) : t[k] = s[k]
  BY <1>1 DEF Kind
<1>4. EnrolledAt(t, x) = {k \in EnrolledAt(s, x) : k < i}
  BY <1>2, <1>3 DEF EnrolledAt
<1>5. DisabledAt(t, x) = {k \in DisabledAt(s, x) : k < i}
  BY <1>2, <1>3 DEF DisabledAt
<1>6. GrantedAt(t, x) = {k \in GrantedAt(s, x) : k < i}
  BY <1>2, <1>3 DEF GrantedAt
<1>7. RevokedAt(t, x) = {k \in RevokedAt(s, x) : k < i}
  BY <1>2, <1>3 DEF RevokedAt
<1> QED
  BY <1>1, <1>4, <1>5, <1>6, <1>7 DEF t

LEMMA WhereAuthorized ==
  ASSUME NEW s \in Seq(AuthorizationEvent), NEW x
  PROVE  /\ EnrolledAt(s, x) \cup DisabledAt(s, x) \cup GrantedAt(s, x) \cup RevokedAt(s, x)
              \subseteq 1..Len(s)
         /\ Len(s) \in Nat /\ DOMAIN s = 1..Len(s)
<1>1. DOMAIN s = 1..Len(s) /\ Len(s) \in Nat
  BY LenProperties
<1> QED
  BY <1>1 DEF Kind, EnrolledAt, DisabledAt, GrantedAt, RevokedAt

\* What a ledger that loads requires of one of its events
LEMMA AuthorizationIsValid ==
  ASSUME NEW s \in Seq(AuthorizationEvent), AuthorizationLoads(s), NEW i \in 1..Len(s)
  PROVE  LET before == SubSeq(s, 1, i - 1)
         IN /\ PayloadFits(before, s[i].payload, s[i].at)
            /\ i > 2 => /\ IsEnabled(before, s[i].actor.credential)
                        /\ IsStanding(before, s[i].grant)
            /\ i <= 2 => s[i].payload.kind \in {"CREDENTIAL_ENROLLED", "PERMISSION_GRANTED"}
<1> DEFINE before == SubSeq(s, 1, i - 1)
<1>1. ValidAuthorization(s, i)
  BY LenProperties DEF AuthorizationLoads
<1>2. PayloadFits(before, s[i].payload, s[i].at)
  BY <1>1 DEF ValidAuthorization
<1>3. ASSUME i > 2
      PROVE  IsEnabled(before, s[i].actor.credential) /\ IsStanding(before, s[i].grant)
  <2>1. ~(i <= 2)
    BY <1>3, LenProperties
  <2>2. /\ Identified(before, s[i].actor, s[i].at)
        /\ Administers(before, s[i].grant, s[i].actor.principal, s[i].at)
    BY <1>1, <2>1 DEF ValidAuthorization
  <2> QED
    BY <2>2 DEF Identified, Active, Administers
<1>4. ASSUME i <= 2
      PROVE  s[i].payload.kind \in {"CREDENTIAL_ENROLLED", "PERMISSION_GRANTED"}
  BY <1>1, <1>4 DEF ValidAuthorization, ValidSeed
<1> QED
  BY <1>2, <1>3, <1>4

\* A credential that is disabled was enrolled before, and is never again.
LEMMA DisabledAfterEnrolled ==
  ASSUME NEW s \in Seq(AuthorizationEvent), AuthorizationLoads(s), NEW x,
         NEW d \in DisabledAt(s, x), NEW i \in EnrolledAt(s, x)
  PROVE  i < d
<1>1. d \in 1..Len(s) /\ i \in 1..Len(s) /\ Len(s) \in Nat
      /\ s[d].payload.kind = "CREDENTIAL_DISABLED" /\ s[d].payload.target = x
      /\ s[i].payload.kind = "CREDENTIAL_ENROLLED" /\ s[i].payload.enrolled.id = x
  BY LenProperties DEF DisabledAt, EnrolledAt, Kind
<1>2. IsEnabled(SubSeq(s, 1, d - 1), x)
  BY <1>1, AuthorizationIsValid DEF PayloadFits
<1>3. PICK j \in EnrolledAt(s, x) : j < d
  <2>1. EnrolledAt(SubSeq(s, 1, d - 1), x) = {k \in EnrolledAt(s, x) : k < d}
    BY <1>1, EarlierAuthorizations
  <2>2. EnrolledAt(SubSeq(s, 1, d - 1), x) # {}
    BY <1>2 DEF IsEnabled
  <2> QED
    BY <2>1, <2>2
<1>4. j \in Nat
  BY WhereAuthorized
<1> SUFFICES ASSUME ~(i < d) PROVE FALSE
  OBVIOUS
<1>5. j < i
  BY <1>1, <1>3, <1>4
<1>6. EnrolledAt(SubSeq(s, 1, i - 1), x) = {}
  BY <1>1, AuthorizationIsValid DEF PayloadFits
<1>7. j \in EnrolledAt(SubSeq(s, 1, i - 1), x)
  BY <1>1, <1>3, <1>5, EarlierAuthorizations
<1> QED
  BY <1>6, <1>7

LEMMA RevokedAfterGranted ==
  ASSUME NEW s \in Seq(AuthorizationEvent), AuthorizationLoads(s), NEW x,
         NEW d \in RevokedAt(s, x), NEW i \in GrantedAt(s, x)
  PROVE  i < d
<1>1. d \in 1..Len(s) /\ i \in 1..Len(s) /\ Len(s) \in Nat
      /\ s[d].payload.kind = "PERMISSION_REVOKED" /\ s[d].payload.target = x
      /\ s[i].payload.kind = "PERMISSION_GRANTED" /\ s[i].payload.granted.id = x
  BY LenProperties DEF RevokedAt, GrantedAt, Kind
<1>2. IsStanding(SubSeq(s, 1, d - 1), x)
  BY <1>1, AuthorizationIsValid DEF PayloadFits
<1>3. PICK j \in GrantedAt(s, x) : j < d
  <2>1. GrantedAt(SubSeq(s, 1, d - 1), x) = {k \in GrantedAt(s, x) : k < d}
    BY <1>1, EarlierAuthorizations
  <2>2. GrantedAt(SubSeq(s, 1, d - 1), x) # {}
    BY <1>2 DEF IsStanding
  <2> QED
    BY <2>1, <2>2
<1>4. j \in Nat
  BY WhereAuthorized
<1> SUFFICES ASSUME ~(i < d) PROVE FALSE
  OBVIOUS
<1>5. j < i
  BY <1>1, <1>3, <1>4
<1>6. GrantedAt(SubSeq(s, 1, i - 1), x) = {}
  BY <1>1, AuthorizationIsValid DEF PayloadFits
<1>7. j \in GrantedAt(SubSeq(s, 1, i - 1), x)
  BY <1>1, <1>3, <1>5, EarlierAuthorizations
<1> QED
  BY <1>6, <1>7

LEMMA RevokedStaysRevoked == AuthorizationInv => RevocationIsFinal
<1> DEFINE s == authorizations
<1> SUFFICES ASSUME AuthorizationInv, NEW i \in DOMAIN s
             PROVE  LET p == s[i].payload
                        later == {s[j] : j \in {j \in DOMAIN s : j > i}}
                    IN /\ p.kind = "CREDENTIAL_DISABLED" =>
                            /\ ~IsEnabled(s, p.target)
                            /\ \A e \in later : e.actor.credential # p.target
                       /\ p.kind = "PERMISSION_REVOKED" =>
                            /\ ~IsStanding(s, p.target)
                            /\ \A e \in later : e.grant # p.target
  BY DEF RevocationIsFinal
<1>1. s \in Seq(AuthorizationEvent) /\ AuthorizationLoads(s)
  BY DEF AuthorizationInv, AuthorizationTypes
<1> HIDE DEF s
<1>2. i \in 1..Len(s) /\ DOMAIN s = 1..Len(s) /\ Len(s) \in Nat
  BY <1>1, LenProperties
<1> DEFINE p == s[i].payload
<1>3. ASSUME p.kind \in {"CREDENTIAL_DISABLED", "PERMISSION_REVOKED"}
      PROVE  \A j \in DOMAIN s : j > i => j > 2
  <2>1. ~(i <= 2)
    BY <1>1, <1>2, <1>3, AuthorizationIsValid
  <2> QED
    BY <1>2, <2>1
<1>4. ASSUME p.kind = "CREDENTIAL_DISABLED"
      PROVE  ~IsEnabled(s, p.target)
             /\ \A j \in DOMAIN s : j > i => s[j].actor.credential # p.target
  <2>1. i \in DisabledAt(s, p.target)
    BY <1>4 DEF DisabledAt, Kind
  <2>2. \A k \in EnrolledAt(s, p.target) : k < i /\ k \in Nat
    BY <1>1, <2>1, DisabledAfterEnrolled, WhereAuthorized
  <2>3. ~IsEnabled(s, p.target)
    BY <1>2, <2>1, <2>2 DEF IsEnabled
  <2>4. ASSUME NEW j \in DOMAIN s, j > i, s[j].actor.credential = p.target
        PROVE  FALSE
    <3>1. j > 2 /\ j \in 1..Len(s)
      BY <1>2, <1>3, <1>4, <2>4
    <3>2. IsEnabled(SubSeq(s, 1, j - 1), p.target)
      BY <1>1, <2>4, <3>1, AuthorizationIsValid
    <3>3. i \in DisabledAt(SubSeq(s, 1, j - 1), p.target)
      BY <1>1, <1>2, <2>1, <2>4, <3>1, EarlierAuthorizations
    <3>4. EnrolledAt(SubSeq(s, 1, j - 1), p.target) \subseteq EnrolledAt(s, p.target)
      BY <1>1, <3>1, EarlierAuthorizations
    <3> QED
      BY <1>2, <2>2, <3>2, <3>3, <3>4 DEF IsEnabled
  <2> QED
    BY <2>3, <2>4
<1>5. ASSUME p.kind = "PERMISSION_REVOKED"
      PROVE  ~IsStanding(s, p.target)
             /\ \A j \in DOMAIN s : j > i => s[j].grant # p.target
  <2>1. i \in RevokedAt(s, p.target)
    BY <1>5 DEF RevokedAt, Kind
  <2>2. \A k \in GrantedAt(s, p.target) : k < i /\ k \in Nat
    BY <1>1, <2>1, RevokedAfterGranted, WhereAuthorized
  <2>3. ~IsStanding(s, p.target)
    BY <1>2, <2>1, <2>2 DEF IsStanding
  <2>4. ASSUME NEW j \in DOMAIN s, j > i, s[j].grant = p.target
        PROVE  FALSE
    <3>1. j > 2 /\ j \in 1..Len(s)
      BY <1>2, <1>3, <1>5, <2>4
    <3>2. IsStanding(SubSeq(s, 1, j - 1), p.target)
      BY <1>1, <2>4, <3>1, AuthorizationIsValid
    <3>3. i \in RevokedAt(SubSeq(s, 1, j - 1), p.target)
      BY <1>1, <1>2, <2>1, <2>4, <3>1, EarlierAuthorizations
    <3>4. GrantedAt(SubSeq(s, 1, j - 1), p.target) \subseteq GrantedAt(s, p.target)
      BY <1>1, <3>1, EarlierAuthorizations
    <3> QED
      BY <1>2, <2>2, <3>2, <3>3, <3>4 DEF IsStanding
  <2> QED
    BY <2>3, <2>4
<1> QED
  BY <1>4, <1>5

(***************************************************************************)
(* The steps                                                               *)
(***************************************************************************)
LEMMA AuthorizationInitial == ASSUME AuthorizationInit, clock \in Times PROVE AuthorizationInv
<1>1. AuthorizationLoads(<<>>)
  BY DEF AuthorizationLoads
<1>2. AuthorizationTypes
  BY EmptySeq DEF AuthorizationInit, AuthorizationTypes, Activation, Identity
<1>3. Locked = {} /\ \A h \in Hosts : AsVerified(activation[h])
  BY DEF AuthorizationInit, Locked, NoActivation, AsVerified
<1> QED
  BY <1>1, <1>2, <1>3 DEF AuthorizationInit, AuthorizationInv

LEMMA AuthorizationStays ==
  ASSUME AuthorizationInv, UNCHANGED <<authorizations, activation, identities>>, clock' \in Times
  PROVE  AuthorizationInv'
<1>1. authorizations' = authorizations /\ activation' = activation /\ identities' = identities
  OBVIOUS
<1>2. Locked' = Locked /\ \A image : Bootstraps(image)' = Bootstraps(image)
  BY <1>1 DEF Locked, Bootstraps
<1>3. AuthorizationTypes'
  BY <1>1 DEF AuthorizationInv, AuthorizationTypes
<1>4. \A h \in Locked' : Bootstraps(activation[h].image)'
  BY <1>1, <1>2 DEF AuthorizationInv, Bootstraps, Locked
<1>5. \A h \in Hosts : AsVerified(activation[h])'
  BY <1>1 DEF AuthorizationInv, AsVerified
<1> QED
  BY <1>1, <1>2, <1>3, <1>4, <1>5 DEF AuthorizationInv

\* A host's activation changes and nothing that it would write is locked.
LEMMA ActivationChanges ==
  ASSUME AuthorizationInv, UNCHANGED <<clock, authorizations, identities>>,
         NEW h \in Hosts, NEW x \in Activation, x.step # "LOCKED", AsVerified(x),
         activation' = [activation EXCEPT ![h] = x]
  PROVE  AuthorizationInv'
<1>1. /\ activation' \in [Hosts -> Activation] /\ activation'[h] = x
      /\ \A g \in Hosts : g # h => activation'[g] = activation[g]
  BY DEF AuthorizationInv, AuthorizationTypes
<1>2. h \notin Locked' /\ \A g \in Locked' : g \in Locked /\ activation'[g] = activation[g]
  BY <1>1 DEF Locked
<1>3. AuthorizationTypes'
  BY <1>1 DEF AuthorizationInv, AuthorizationTypes
<1>4. \A g \in Locked' : Bootstraps(activation[g].image)'
  BY <1>2 DEF AuthorizationInv, Bootstraps
<1>5. \A g \in Hosts : AsVerified(activation'[g])
  BY <1>1 DEF AuthorizationInv
<1> QED
  BY <1>2, <1>3, <1>4, <1>5 DEF AuthorizationInv, AsVerified

LEMMA WindowsAreNat ==
  ASSUME NEW d \in Descriptors
  PROVE  /\ d.until \in Nat /\ d.manifest.until \in Nat
         /\ d.manifest.enrolled.until \in Nat /\ d.manifest.granted.until \in Nat
<1>1. d \in Installed
  BY AuthorizationConstants
<1>2. d.until \in Nat /\ d.manifest \in Manifests
  BY <1>1 DEF Installed
<1> QED
  BY <1>2 DEF Manifests, Enrollments, Permissions

\* The lease ends with the first of the windows.
LEMMA LeaseEnds ==
  ASSUME NEW d \in Descriptors, clock \in Nat
  PROVE  /\ LeaseEnd(d) \in Nat
         /\ LeaseEnd(d) <= clock + LeaseLifetime /\ LeaseEnd(d) <= d.until
         /\ LeaseEnd(d) <= d.manifest.until /\ LeaseEnd(d) <= d.manifest.enrolled.until
         /\ LeaseEnd(d) <= d.manifest.granted.until
<1> DEFINE ends == {clock + LeaseLifetime, d.until, d.manifest.until, d.manifest.enrolled.until,
                    d.manifest.granted.until}
<1>1. ends \in SUBSET Nat /\ ends # {}
  BY AuthorizationConstants, WindowsAreNat
<1>2. LeaseEnd(d) = Min(ends)
  BY DEF LeaseEnd
<1>3. Min(ends) \in Nat /\ \A k \in ends : Min(ends) <= k
  <2> HIDE DEF ends
  <2> QED
    BY <1>1, MinOf
<1>4. LeaseEnd(d) \in Nat /\ \A k \in ends : LeaseEnd(d) <= k
  <2> HIDE DEF ends
  <2> QED
    BY <1>2, <1>3
<1> QED
  BY <1>4

LEMMA ActivateKept ==
  ASSUME AuthorizationInv, UNCHANGED clock, NEW h \in Hosts, NEW d \in Descriptors, Activate(h, d)
  PROVE  AuthorizationInv'
<1> DEFINE x == [step |-> "ACTIVATED", proof |-> d, from |-> clock, until |-> LeaseEnd(d),
                 last |-> clock]
<1>1. clock \in Nat
  BY ClockConstants DEF AuthorizationInv, AuthorizationTypes, Times
<1>2. LeaseEnd(d) \in Nat
  BY <1>1, LeaseEnds
<1>3. x \in Activation /\ x.step # "LOCKED"
  BY <1>1, <1>2 DEF Activation
<1>4. AsVerified(x)
  BY <1>1, LeaseEnds DEF AsVerified
<1>5. activation' = [activation EXCEPT ![h] = x] /\ UNCHANGED <<authorizations, identities>>
  BY DEF Activate
<1> HIDE DEF x
<1> QED
  BY <1>3, <1>4, <1>5, ActivationChanges

LEMMA SeedTyped ==
  ASSUME NEW d \in Descriptors, NEW at \in Nat
  PROVE  Seeded(d.manifest, at) \in Seq(AuthorizationEvent)
<1> DEFINE m == d.manifest
           first == Seed(1, [kind |-> "CREDENTIAL_ENROLLED", enrolled |-> m.enrolled], at)
           second == Seed(2, [kind |-> "PERMISSION_GRANTED", granted |-> m.granted], at)
<1>1. d \in Installed
  BY AuthorizationConstants
<1>2. m \in Manifests
  BY <1>1 DEF Installed
<1>3. m.enrolled \in Enrollments /\ m.granted \in Permissions
  BY <1>2 DEF Manifests
<1> HIDE DEF m
<1>4. /\ [kind |-> "CREDENTIAL_ENROLLED", enrolled |-> m.enrolled] \in AdminPayload
      /\ [kind |-> "PERMISSION_GRANTED", granted |-> m.granted] \in AdminPayload
  BY <1>3 DEF AdminPayload
<1>5. first \in AuthorizationEvent /\ second \in AuthorizationEvent
  BY <1>4 DEF Seed, AuthorizationEvent, Identity
<1>6. Seeded(m, at) = <<first, second>>
  BY DEF Seeded
<1> HIDE DEF first, second
<1>7. <<first, second>> \in Seq(AuthorizationEvent)
  BY <1>5
<1> QED
  BY <1>6, <1>7 DEF m

LEMMA LockKept ==
  ASSUME AuthorizationInv, UNCHANGED clock, NEW h \in Hosts, LockBootstrap(h)
  PROVE  AuthorizationInv'
<1> DEFINE held == activation[h]
           seeded == Seeded(held.proof.manifest, clock)
           image == IF authorizations = <<>> THEN seeded ELSE authorizations
           x == [step |-> "LOCKED", proof |-> held.proof, from |-> held.from,
                 until |-> held.until, last |-> clock, image |-> image]
<1>1. /\ held.step = "ACTIVATED" /\ Locked = {} /\ UNCHANGED <<authorizations, identities>>
      /\ (authorizations = <<>> => AuthorizationLoads(seeded))
      /\ held.proof.operator = Anchor.operator /\ held.proof.manifest = Anchor.manifest
      /\ activation' = [activation EXCEPT ![h] = x]
  BY DEF LockBootstrap
<1>2. /\ clock \in Nat /\ authorizations \in Seq(AuthorizationEvent)
      /\ activation \in [Hosts -> Activation] /\ AuthorizationLoads(authorizations)
  BY ClockConstants DEF AuthorizationInv, AuthorizationTypes, Times
<1>3. held.proof \in Descriptors /\ held.from \in Nat /\ held.until \in Nat
  <2>1. held \in Activation
    BY <1>2
  <2> QED
    BY <1>1, <2>1 DEF Activation, NoActivation
<1>4. seeded \in Seq(AuthorizationEvent)
  BY <1>2, <1>3, SeedTyped
<1>5. image \in Seq(AuthorizationEvent) /\ Bootstraps(image)
  BY <1>1, <1>2, <1>4 DEF Bootstraps
<1>6. AsVerified(held) /\ held # NoActivation
  BY <1>1 DEF AuthorizationInv, NoActivation
<1> HIDE DEF seeded, image, held
<1>7. x \in Activation /\ x.step = "LOCKED" /\ x.image = image
  BY <1>2, <1>3, <1>5 DEF Activation
<1>8. AsVerified(x)
  BY <1>1, <1>6 DEF AsVerified
<1> HIDE DEF x
<1>9. /\ activation' \in [Hosts -> Activation] /\ activation'[h] = x
      /\ \A g \in Hosts : g # h => activation'[g] = activation[g]
  BY <1>1, <1>2, <1>7
<1>10. Locked' = {h}
  BY <1>1, <1>7, <1>9 DEF Locked
<1>11. Bootstraps(activation[h].image)'
  BY <1>1, <1>5, <1>7, <1>9 DEF Bootstraps
<1>12. AuthorizationTypes'
  BY <1>1, <1>9 DEF AuthorizationInv, AuthorizationTypes
<1>13. \A g \in Hosts : AsVerified(activation'[g])
  BY <1>8, <1>9 DEF AuthorizationInv
<1> QED
  BY <1>1, <1>10, <1>11, <1>12, <1>13 DEF AuthorizationInv, AsVerified

LEMMA BootstrapEndsKept ==
  ASSUME AuthorizationInv, UNCHANGED clock, NEW h \in Hosts,
         CommitBootstrap(h) \/ CommitBootstrapFails(h) \/ RollbackBootstrap(h)
  PROVE  AuthorizationInv'
<1>1. /\ activation' = [activation EXCEPT ![h] = NoActivation] /\ UNCHANGED identities
      /\ \/ authorizations' = authorizations
         \/ h \in Locked /\ authorizations' = activation[h].image
  BY DEF CommitBootstrap, CommitBootstrapFails, RollbackBootstrap, Locked
<1>2. NoActivation \in Activation /\ NoActivation.step # "LOCKED" /\ AsVerified(NoActivation)
  BY DEF Activation, NoActivation, AsVerified
<1>3. CASE authorizations' = authorizations
  BY <1>1, <1>2, <1>3, ActivationChanges
<1>4. CASE authorizations' # authorizations
  <2>1. h \in Locked /\ authorizations' = activation[h].image /\ Bootstraps(activation[h].image)
    BY <1>1, <1>4 DEF AuthorizationInv
  <2>2. AuthorizationLoads(authorizations')
    BY <1>4, <2>1 DEF Bootstraps
  <2>3. authorizations' \in Seq(AuthorizationEvent)
    <3>1. activation[h] \in Activation /\ activation[h].step = "LOCKED"
      BY <2>1 DEF AuthorizationInv, AuthorizationTypes, Locked
    <3> QED
      BY <2>1, <3>1 DEF Activation, NoActivation
  <2>4. /\ activation' \in [Hosts -> Activation] /\ activation'[h] = NoActivation
        /\ \A g \in Hosts : g # h => activation'[g] = activation[g]
    BY <1>1, <1>2 DEF AuthorizationInv, AuthorizationTypes
  <2>5. \A g \in Locked : g = h
    BY <2>1 DEF AuthorizationInv
  <2>6. Locked' = {}
    BY <1>2, <2>4, <2>5 DEF Locked
  <2>7. AuthorizationTypes'
    BY <1>1, <2>3, <2>4 DEF AuthorizationInv, AuthorizationTypes
  <2>8. \A g \in Hosts : AsVerified(activation'[g])
    BY <1>2, <2>4 DEF AuthorizationInv
  <2> QED
    BY <1>1, <2>2, <2>6, <2>7, <2>8 DEF AuthorizationInv, AsVerified
<1> QED
  BY <1>3, <1>4

\* The latest of the enrollments of an enabled credential is one.
LEMMA CredentialTyped ==
  ASSUME NEW s \in Seq(AuthorizationEvent), NEW c, IsEnabled(s, c)
  PROVE  CredentialOf(s, c) \in Enrollments
<1>1. EnrolledAt(s, c) \in SUBSET (0..Len(s)) /\ EnrolledAt(s, c) # {} /\ Len(s) \in Nat
  BY WhereAuthorized DEF IsEnabled
<1>2. Max(EnrolledAt(s, c)) \in EnrolledAt(s, c)
  BY <1>1, MaxOf
<1> DEFINE i == Max(EnrolledAt(s, c))
<1> HIDE DEF i
<1>3. i \in 1..Len(s) /\ s[i].payload.kind = "CREDENTIAL_ENROLLED"
  BY <1>2, LenProperties DEF EnrolledAt, Kind, i
<1>4. s[i] \in AuthorizationEvent
  BY <1>3, ElementOfSeq
<1>5. s[i].payload \in AdminPayload
  BY <1>4 DEF AuthorizationEvent
<1>6. s[i].payload.enrolled \in Enrollments
  BY <1>3, <1>5 DEF AdminPayload
<1> QED
  BY <1>6 DEF CredentialOf, i

LEMMA CredentialsAreNamed == Credentials \subseteq STRING
<1>1. Anchor.manifest.enrolled.id \in STRING
  <2>1. Anchor \in Installed
    BY AuthorizationConstants
  <2>2. Anchor.manifest \in Manifests
    BY <2>1 DEF Installed
  <2>3. Anchor.manifest.enrolled \in Enrollments
    BY <2>2 DEF Manifests
  <2> QED
    BY <2>3 DEF Enrollments
<1>2. \A p \in Payloads : p.kind = "CREDENTIAL_ENROLLED" => p.enrolled.id \in STRING
  <2> SUFFICES ASSUME NEW p \in Payloads, p.kind = "CREDENTIAL_ENROLLED"
               PROVE  p.enrolled.id \in STRING
    OBVIOUS
  <2>1. p \in AdminPayload
    BY AuthorizationConstants DEF AdminPayload
  <2>2. p.enrolled \in Enrollments
    BY <2>1 DEF AdminPayload
  <2> QED
    BY <2>2 DEF Enrollments
<1> QED
  BY <1>1, <1>2 DEF Credentials

LEMMA VerifyKept ==
  ASSUME AuthorizationInv, UNCHANGED clock, NEW c \in Credentials, VerifyIdentity(c)
  PROVE  AuthorizationInv'
<1> DEFINE credential == CredentialOf(authorizations, c)
           x == [credential |-> c, principal |-> credential.principal,
                 verified |-> clock, revision |-> Len(authorizations),
                 until |-> Min({credential.until, clock + IdentityLifetime})]
<1>1. /\ IsEnabled(authorizations, c) /\ identities' = [identities EXCEPT ![c] = x]
      /\ UNCHANGED <<authorizations, activation>>
  BY DEF VerifyIdentity, Active
<1>2. /\ clock \in Nat /\ authorizations \in Seq(AuthorizationEvent) /\ Len(authorizations) \in Nat
      /\ identities \in [Credentials -> Identity] /\ c \in STRING
  BY ClockConstants, LenProperties, CredentialsAreNamed
    DEF AuthorizationInv, AuthorizationTypes, Times
<1>3. credential \in Enrollments
  BY <1>1, <1>2, CredentialTyped
<1>4. credential.principal \in STRING /\ credential.until \in Nat
  BY <1>3 DEF Enrollments
<1> HIDE DEF credential
<1>5. Min({credential.until, clock + IdentityLifetime}) \in Nat
  <2>1. {credential.until, clock + IdentityLifetime} \in SUBSET Nat
        /\ {credential.until, clock + IdentityLifetime} # {}
    BY <1>2, <1>4, AuthorizationConstants
  <2>2. Min({credential.until, clock + IdentityLifetime})
          \in {credential.until, clock + IdentityLifetime}
    BY <2>1, MinOf
  <2> QED
    BY <2>1, <2>2
<1>6. x \in Identity /\ x.credential = c
  BY <1>2, <1>4, <1>5 DEF Identity
<1> HIDE DEF x
<1>7. /\ identities' \in [Credentials -> Identity]
      /\ \A b \in Credentials : identities'[b] # NoIdentity => identities'[b].credential = b
  BY <1>1, <1>2, <1>6 DEF AuthorizationInv
<1>8. Locked' = Locked /\ AuthorizationTypes'
  BY <1>1, <1>7 DEF AuthorizationInv, AuthorizationTypes, Locked
<1>9. \A g \in Locked' : Bootstraps(activation[g].image)'
  BY <1>1, <1>8 DEF AuthorizationInv, Bootstraps
<1>10. \A g \in Hosts : AsVerified(activation'[g])
  BY <1>1 DEF AuthorizationInv
<1> QED
  BY <1>1, <1>7, <1>8, <1>9, <1>10 DEF AuthorizationInv, AsVerified

\* An administrator acts as who its credential is of, on grants of its own.
LEMMA ManagesByGrant ==
  ASSUME AuthorizationInv, NEW c \in Credentials, MayManage(identities[c])
  PROVE  /\ IsEnabled(authorizations, c)
         /\ identities[c].credential = c
         /\ identities[c].principal = CredentialOf(authorizations, c).principal
         /\ LET may == Administration(authorizations, identities[c].principal, clock)
            IN may \in SUBSET Nat /\ may # {}
<1> DEFINE may == Administration(authorizations, identities[c].principal, clock)
<1>1. identities[c].credential = c
  BY DEF MayManage, AuthorizationInv
<1>2. /\ IsEnabled(authorizations, c) /\ may # {}
      /\ identities[c].principal = CredentialOf(authorizations, c).principal
  BY <1>1 DEF MayManage, Identified, Active
<1>3. may \subseteq Grants(authorizations)
  BY DEF Administration
<1>4. Grants(authorizations) \subseteq Nat
  <2> SUFFICES ASSUME NEW i \in Kind(authorizations, "PERMISSION_GRANTED")
               PROVE  authorizations[i].payload.granted.id \in Nat
    BY DEF Grants
  <2>1. /\ authorizations \in Seq(AuthorizationEvent) /\ i \in 1..Len(authorizations)
        /\ authorizations[i].payload.kind = "PERMISSION_GRANTED"
    BY LenProperties DEF AuthorizationInv, AuthorizationTypes, Kind
  <2>2. authorizations[i] \in AuthorizationEvent
    BY <2>1, ElementOfSeq
  <2>3. authorizations[i].payload \in AdminPayload
    BY <2>2 DEF AuthorizationEvent
  <2>4. authorizations[i].payload.granted \in Permissions
    BY <2>1, <2>3 DEF AdminPayload
  <2> QED
    BY <2>4 DEF Permissions
<1> HIDE DEF may
<1> QED
  BY <1>1, <1>2, <1>3, <1>4 DEF may

LEMMA AppendedAuthorization ==
  ASSUME AuthorizationInv, NEW c \in Credentials, NEW id \in EventIds, NEW payload \in Payloads,
         Appendable(c, id, payload)
  PROVE  LET image == Append(authorizations, Requested(c, id, payload))
         IN /\ image \in Seq(AuthorizationEvent) /\ AuthorizationLoads(image)
            /\ Len(image) = Len(authorizations) + 1
            /\ image[Len(image)].id = id /\ image[Len(image)].actor = identities[c]
            /\ \A i \in DOMAIN authorizations : image[i] = authorizations[i]
<1> DEFINE e == Requested(c, id, payload)
           may == Administration(authorizations, identities[c].principal, clock)
           s == authorizations
<1>1. /\ clock \in Nat /\ s \in Seq(AuthorizationEvent) /\ Len(s) \in Nat /\ DOMAIN s = 1..Len(s)
      /\ identities[c] \in Identity /\ AuthorizationLoads(s)
  BY ClockConstants, LenProperties DEF AuthorizationInv, AuthorizationTypes, Times
<1>2. MayManage(identities[c]) /\ ValidAuthorization(Append(s, e), Len(Append(s, e)))
  BY DEF Appendable
<1>3. Min(may) \in Nat
  <2>1. may \in SUBSET Nat /\ may # {}
    BY <1>2, ManagesByGrant
  <2> QED
    BY <2>1, MinOf
<1>4. payload \in AdminPayload /\ id \in Nat
  BY <1>1, AuthorizationConstants DEF AdminPayload, EventIds
<1>5. e = [id |-> id, at |-> clock, actor |-> identities[c], payload |-> payload,
           grant |-> Min(may)]
  BY DEF Requested
<1> HIDE DEF may, e, s
<1>6. e \in AuthorizationEvent /\ e.id = id /\ e.actor = identities[c]
  BY <1>1, <1>3, <1>4, <1>5 DEF AuthorizationEvent
<1>7. AuthorizationLoads(Append(s, e))
  BY <1>1, <1>2, <1>6, AuthorizationGrows
<1>8. /\ Append(s, e) \in Seq(AuthorizationEvent) /\ Len(Append(s, e)) = Len(s) + 1
      /\ Append(s, e)[Len(s) + 1] = e /\ \A k \in 1..Len(s) : Append(s, e)[k] = s[k]
  BY <1>1, <1>6, Appended
<1> QED
  BY <1>1, <1>6, <1>7, <1>8 DEF e, s

LEMMA AdministrationKept ==
  ASSUME AuthorizationInv, UNCHANGED <<clock, activation>>, NEW c \in Credentials, Locked = {},
         Used(c), authorizations' \in Seq(AuthorizationEvent), AuthorizationLoads(authorizations')
  PROVE  AuthorizationInv'
<1>1. /\ identities' \in [Credentials -> Identity]
      /\ \A b \in Credentials : identities'[b] # NoIdentity => identities'[b].credential = b
  BY DEF Used, AuthorizationInv, AuthorizationTypes, Identity
<1>2. Locked' = {} /\ AuthorizationTypes'
  BY <1>1 DEF AuthorizationInv, AuthorizationTypes, Locked
<1>3. \A h \in Hosts : AsVerified(activation'[h])
  BY DEF AuthorizationInv
<1> QED
  BY <1>1, <1>2, <1>3 DEF AuthorizationInv, AsVerified

LEMMA AdministerKept ==
  ASSUME AuthorizationInv, UNCHANGED clock, NEW c \in Credentials, NEW id \in EventIds,
         NEW payload \in Payloads, NEW expected,
         \/ AppendAuthorization(c, id, payload, expected)
         \/ AppendAuthorizationFails(c, id, payload, expected)
         \/ RecoverAuthorization(c, id, payload, expected)
  PROVE  AuthorizationInv'
<1>1. /\ UNCHANGED activation /\ Locked = {} /\ Used(c)
      /\ \/ authorizations' = authorizations
         \/ /\ Appendable(c, id, payload)
            /\ authorizations' = Append(authorizations, Requested(c, id, payload))
  BY DEF AppendAuthorization, AppendAuthorizationFails, RecoverAuthorization, Appendable
<1>2. authorizations' \in Seq(AuthorizationEvent) /\ AuthorizationLoads(authorizations')
  <2>1. CASE authorizations' = authorizations
    BY <2>1 DEF AuthorizationInv, AuthorizationTypes
  <2>2. CASE /\ Appendable(c, id, payload)
             /\ authorizations' = Append(authorizations, Requested(c, id, payload))
    BY <2>2, AppendedAuthorization
  <2> QED
    BY <1>1, <2>1, <2>2
<1> QED
  BY <1>1, <1>2, AdministrationKept

LEMMA AuthorizationKept ==
  ASSUME AuthorizationInv, AuthorizationNext
  PROVE  AuthorizationInv'
<1>1. CASE SetClock /\ receipt' = NoReceipt /\ UNCHANGED <<authorizations, activation, identities>>
  BY <1>1, AuthorizationStays DEF SetClock
<1>2. CASE AuthorizationStep /\ UNCHANGED clock
  <2>1. CASE \E h \in Hosts, d \in Descriptors : Activate(h, d)
    BY <1>2, <2>1, ActivateKept
  <2>2. CASE \E h \in Hosts : LockBootstrap(h)
    BY <1>2, <2>2, LockKept
  <2>3. CASE \E h \in Hosts :
               CommitBootstrap(h) \/ CommitBootstrapFails(h) \/ RollbackBootstrap(h)
    BY <1>2, <2>3, BootstrapEndsKept
  <2>4. CASE \E c \in Credentials : VerifyIdentity(c)
    BY <1>2, <2>4, VerifyKept
  <2>5. CASE \E c \in Credentials, id \in EventIds, payload \in Payloads,
                expected \in 0..Len(authorizations) :
               \/ AppendAuthorization(c, id, payload, expected)
               \/ AppendAuthorizationFails(c, id, payload, expected)
               \/ RecoverAuthorization(c, id, payload, expected)
    BY <1>2, <2>5, AdministerKept
  <2> QED
    BY <1>2, <2>1, <2>2, <2>3, <2>4, <2>5 DEF AuthorizationStep
<1> QED
  BY <1>1, <1>2 DEF AuthorizationNext

\* The ledger is seeded once and then only appended to.
LEMMA NothingIsRewritten ==
  ASSUME AuthorizationInv, AuthorizationNext
  PROVE  \A i \in DOMAIN authorizations : authorizations'[i] = authorizations[i]
<1>1. CASE authorizations' = authorizations
  BY <1>1
<1>2. CASE \E h \in Locked : authorizations' = activation[h].image
  <2>1. PICK h \in Locked : authorizations' = activation[h].image
    BY <1>2
  <2>2. Bootstraps(activation[h].image)
    BY DEF AuthorizationInv
  <2>3. authorizations' = authorizations \/ DOMAIN authorizations = {}
    BY <2>1, <2>2 DEF Bootstraps
  <2> QED
    BY <2>3
<1>3. CASE \E c \in Credentials, id \in EventIds, payload \in Payloads :
             /\ Appendable(c, id, payload)
             /\ authorizations' = Append(authorizations, Requested(c, id, payload))
  BY <1>3, AppendedAuthorization
<1>4. CASE AuthorizationStep
  <2>1. CASE \E h \in Hosts :
               \/ \E d \in Descriptors : Activate(h, d)
               \/ LockBootstrap(h) \/ CommitBootstrap(h) \/ CommitBootstrapFails(h)
               \/ RollbackBootstrap(h)
    BY <1>1, <1>2, <2>1 DEF Activate, LockBootstrap, CommitBootstrap, CommitBootstrapFails,
      RollbackBootstrap, Locked
  <2>2. CASE \E c \in Credentials : VerifyIdentity(c)
    BY <1>1, <2>2 DEF VerifyIdentity
  <2>3. CASE \E c \in Credentials, id \in EventIds, payload \in Payloads,
                expected \in 0..Len(authorizations) :
               \/ AppendAuthorization(c, id, payload, expected)
               \/ AppendAuthorizationFails(c, id, payload, expected)
               \/ RecoverAuthorization(c, id, payload, expected)
    BY <1>1, <1>3, <2>3 DEF AppendAuthorization, AppendAuthorizationFails, RecoverAuthorization
  <2> QED
    BY <1>4, <2>1, <2>2, <2>3 DEF AuthorizationStep
<1>5. CASE UNCHANGED authorizations
  BY <1>1, <1>5
<1> QED
  BY <1>4, <1>5 DEF AuthorizationNext

\* The ledger is seeded by a bootstrap alone: without a grant nobody administers.
LEMMA OnlyBootstrapsSeed ==
  ASSUME AuthorizationInv, AuthorizationNext, authorizations = <<>>, authorizations' # <<>>
  PROVE  \E h \in Hosts : CommitBootstrap(h) \/ CommitBootstrapFails(h)
<1>1. ASSUME NEW c, NEW id, NEW payload, Appendable(c, id, payload) PROVE FALSE
  <2>1. Grants(authorizations) = {}
    BY DEF Grants, Kind
  <2>2. Administration(authorizations, identities[c].principal, clock) = {}
    BY <2>1 DEF Administration
  <2> QED
    BY <1>1, <2>2 DEF Appendable, MayManage
<1>2. authorizations' # authorizations
  OBVIOUS
<1>3. \A c, id, payload, expected :
        /\ ~AppendAuthorization(c, id, payload, expected)
        /\ ~AppendAuthorizationFails(c, id, payload, expected)
        /\ ~RecoverAuthorization(c, id, payload, expected)
  BY <1>1, <1>2 DEF AppendAuthorization, AppendAuthorizationFails, RecoverAuthorization
<1>4. /\ \A h, d : ~Activate(h, d) /\ ~LockBootstrap(h) /\ ~RollbackBootstrap(h)
      /\ \A c : ~VerifyIdentity(c)
  BY <1>2 DEF Activate, LockBootstrap, RollbackBootstrap, VerifyIdentity
<1>5. AuthorizationStep
  BY <1>2 DEF AuthorizationNext
<1> QED
  BY <1>3, <1>4, <1>5 DEF AuthorizationStep

LEMMA BootstrapsAreInTime ==
  ASSUME AuthorizationInv, AuthorizationNext
  PROVE  BootstrapsInTime
<1> SUFFICES ASSUME receipt'.status = "BOOTSTRAPPED"
                    \/ (authorizations = <<>> /\ authorizations' # <<>>)
             PROVE  \E h \in Locked : activation'[h] = NoActivation /\ WithinLease(activation[h])
  BY DEF BootstrapsInTime
<1>1. \E h \in Hosts : CommitBootstrap(h) \/ CommitBootstrapFails(h)
  <2>1. CASE authorizations = <<>> /\ authorizations' # <<>>
    BY <2>1, OnlyBootstrapsSeed
  <2>2. CASE receipt'.status = "BOOTSTRAPPED"
    <3>1. receipt' # NoReceipt
      BY <2>2 DEF NoReceipt
    <3>2. \A c, id, payload, expected :
            ~AppendAuthorization(c, id, payload, expected)
            /\ ~RecoverAuthorization(c, id, payload, expected)
      BY <2>2 DEF AppendAuthorization, RecoverAuthorization
    <3> QED
      BY <3>1, <3>2 DEF AuthorizationNext, AuthorizationStep, Activate, LockBootstrap,
        RollbackBootstrap, VerifyIdentity, AppendAuthorizationFails
  <2> QED
    BY <2>1, <2>2
<1>2. PICK h \in Hosts : CommitBootstrap(h) \/ CommitBootstrapFails(h)
  BY <1>1
<1> DEFINE held == activation[h]
<1>3. /\ h \in Locked /\ held.step = "LOCKED" /\ LeaseHolds(held)
      /\ activation' = [activation EXCEPT ![h] = NoActivation]
  BY <1>2 DEF CommitBootstrap, CommitBootstrapFails, Locked
<1>4. activation'[h] = NoActivation
  BY <1>3 DEF AuthorizationInv, AuthorizationTypes
<1>5. AsVerified(held) /\ held # NoActivation /\ held \in Activation
  BY <1>3 DEF AuthorizationInv, AuthorizationTypes, NoActivation
<1>6. /\ clock \in Nat /\ held.proof \in Descriptors
      /\ held.from \in Nat /\ held.until \in Nat /\ LeaseLifetime \in Nat
  BY <1>3, <1>5, ClockConstants, AuthorizationConstants
    DEF AuthorizationInv, AuthorizationTypes, Times, Activation
<1> HIDE DEF held
<1>7. /\ held.proof.until \in Nat /\ held.proof.manifest.until \in Nat
      /\ held.proof.manifest.enrolled.until \in Nat /\ held.proof.manifest.granted.until \in Nat
  BY <1>6, WindowsAreNat
<1>8. WithinLease(held)
  <2>1. /\ held.until <= held.from + LeaseLifetime
        /\ held.until <= held.proof.until /\ held.until <= held.proof.manifest.until
        /\ held.until <= held.proof.manifest.enrolled.until
        /\ held.until <= held.proof.manifest.granted.until
        /\ held.proof.operator = Anchor.operator /\ held.proof.manifest = Anchor.manifest
    BY <1>3, <1>5 DEF AsVerified
  <2>2. held.from <= clock /\ clock < held.until
    BY <1>3 DEF LeaseHolds
  <2>3. held.from + LeaseLifetime \in Nat /\ \A n \in Nat : held.until <= n => clock < n
    BY <1>6, <2>2
  <2>4. /\ clock < held.from + LeaseLifetime /\ clock < held.proof.until
        /\ clock < held.proof.manifest.until /\ clock < held.proof.manifest.enrolled.until
        /\ clock < held.proof.manifest.granted.until
    BY <1>7, <2>1, <2>3
  <2> QED
    BY <2>1, <2>2, <2>4 DEF WithinLease
<1> QED
  BY <1>3, <1>4, <1>8 DEF held

LEMMA AdministratorsAreAnswered ==
  ASSUME AuthorizationInv, NEW c \in Credentials, NEW id \in EventIds, NEW payload \in Payloads,
         NEW expected,
         \/ AppendAuthorization(c, id, payload, expected)
         \/ RecoverAuthorization(c, id, payload, expected)
  PROVE  AnswersAdministrators
<1> DEFINE asker == CredentialOf(authorizations, c).principal
           event == authorizations'[receipt'.at]
<1>1. MayManage(identities[c])
  BY DEF AppendAuthorization, Appendable, RecoverAuthorization
<1>2. /\ IsEnabled(authorizations, c) /\ identities[c].credential = c
      /\ identities[c].principal = asker
      /\ Administration(authorizations, asker, clock) # {}
  BY <1>1, ManagesByGrant
<1>3. /\ receipt'.by = c /\ receipt'.id = id /\ event.id = id
      /\ event.actor.credential = c /\ event.actor.principal = asker
  <2>1. CASE AppendAuthorization(c, id, payload, expected)
    <3>1. /\ receipt' = [status |-> "APPENDED", by |-> c, id |-> id, at |-> Len(authorizations')]
          /\ authorizations' = Append(authorizations, Requested(c, id, payload))
          /\ Appendable(c, id, payload)
      BY <2>1 DEF AppendAuthorization
    <3>2. /\ authorizations'[Len(authorizations')].id = id
          /\ authorizations'[Len(authorizations')].actor = identities[c]
      BY <3>1, AppendedAuthorization
    <3>3. receipt'.by = c /\ receipt'.id = id /\ receipt'.at = Len(authorizations')
      BY <3>1
    <3> QED
      BY <1>2, <3>2, <3>3
  <2>2. CASE RecoverAuthorization(c, id, payload, expected)
    <3>1. PICK i \in Prior(id) :
            /\ receipt' = [status |-> "RECOVERED", by |-> c, id |-> id, at |-> i]
            /\ authorizations[i].actor.principal = identities[c].principal
            /\ authorizations[i].actor.credential = c
      BY <2>2 DEF RecoverAuthorization
    <3>2. authorizations' = authorizations /\ authorizations[i].id = id
      BY <2>2 DEF RecoverAuthorization, Prior
    <3>3. receipt'.by = c /\ receipt'.id = id /\ receipt'.at = i
      BY <3>1
    <3> QED
      BY <1>2, <3>1, <3>2, <3>3
  <2> QED
    BY <2>1, <2>2
<1> HIDE DEF asker, event
<1>4. AnswersAdministrators <=>
        (receipt'.status \in {"APPENDED", "RECOVERED"} =>
          LET who == CredentialOf(authorizations, receipt'.by).principal
          IN /\ event.id = receipt'.id
             /\ event.actor.credential = receipt'.by /\ event.actor.principal = who
             /\ IsEnabled(authorizations, receipt'.by)
             /\ Administration(authorizations, who, clock) # {})
  BY DEF AnswersAdministrators, event
<1> QED
  BY <1>2, <1>3, <1>4 DEF asker

LEMMA AuthorizationStepAnswers ==
  ASSUME AuthorizationInv, AuthorizationNext
  PROVE  /\ \A i \in DOMAIN authorizations : authorizations'[i] = authorizations[i]
         /\ \A i, j \in DOMAIN authorizations' :
              authorizations'[i].id = authorizations'[j].id => i = j
         /\ receipt'.status = "BOOTSTRAPPED" => receipt'.at = authorizations'[1].at
         /\ receipt'.status = "RECOVERED" => authorizations' = authorizations
         /\ BootstrapsInTime /\ AnswersAdministrators
<1>1. \A i, j \in DOMAIN authorizations' : authorizations'[i].id = authorizations'[j].id => i = j
  <2> DEFINE s == authorizations'
  <2>1. s \in Seq(AuthorizationEvent) /\ AuthorizationLoads(s)
    <3>1. AuthorizationInv'
      BY AuthorizationKept
    <3> QED
      BY <3>1 DEF AuthorizationInv, AuthorizationTypes
  <2> HIDE DEF s
  <2>2. DOMAIN s = 1..Len(s) /\ Len(s) \in Nat
    BY <2>1, LenProperties
  <2>3. \A i, j \in DOMAIN s : i < j => s[i].id # s[j].id
    <3> SUFFICES ASSUME NEW i \in DOMAIN s, NEW j \in DOMAIN s, i < j PROVE s[i].id # s[j].id
      OBVIOUS
    <3>1. ValidAuthorization(s, j)
      BY <2>1 DEF AuthorizationLoads
    <3>2. i \in DOMAIN SubSeq(s, 1, j - 1) /\ SubSeq(s, 1, j - 1)[i] = s[i]
      BY <2>1, <2>2, EarlierAuthorizations
    <3> QED
      BY <3>1, <3>2 DEF ValidAuthorization
  <2>4. \A i, j \in DOMAIN s : s[i].id = s[j].id => i = j
    BY <2>2, <2>3
  <2> QED
    BY <2>4 DEF s
<1>4. \/ receipt' = NoReceipt
      \/ \E h \in Hosts : CommitBootstrap(h)
      \/ \E c \in Credentials, id \in EventIds, payload \in Payloads,
            expected \in 0..Len(authorizations) :
           \/ AppendAuthorization(c, id, payload, expected)
           \/ RecoverAuthorization(c, id, payload, expected)
  BY DEF AuthorizationNext, AuthorizationStep, Activate, LockBootstrap, CommitBootstrapFails,
    RollbackBootstrap, VerifyIdentity, AppendAuthorizationFails
<1>2. receipt'.status = "BOOTSTRAPPED" => receipt'.at = authorizations'[1].at
  <2>1. CASE receipt' = NoReceipt
    BY <2>1 DEF NoReceipt
  <2>2. CASE \E h \in Hosts : CommitBootstrap(h)
    <3>1. PICK h \in Hosts : CommitBootstrap(h)
      BY <2>2
    <3>2. /\ receipt' = [status |-> "BOOTSTRAPPED", at |-> activation[h].image[1].at]
          /\ authorizations' = activation[h].image
      BY <3>1 DEF CommitBootstrap
    <3> QED
      BY <3>2
  <2>3. CASE receipt'.status \in {"APPENDED", "RECOVERED"}
    BY <2>3
  <2>4. ASSUME NEW c, NEW id, NEW payload, NEW expected,
               \/ AppendAuthorization(c, id, payload, expected)
               \/ RecoverAuthorization(c, id, payload, expected)
        PROVE  receipt'.status \in {"APPENDED", "RECOVERED"}
    BY <2>4 DEF AppendAuthorization, RecoverAuthorization
  <2> QED
    BY <1>4, <2>1, <2>2, <2>3, <2>4
<1>3. /\ receipt'.status = "RECOVERED" => authorizations' = authorizations
      /\ AnswersAdministrators
  <2>1. CASE receipt' = NoReceipt \/ \E h \in Hosts : CommitBootstrap(h)
    <3>1. receipt'.status \in {"NONE", "BOOTSTRAPPED"}
      BY <2>1 DEF CommitBootstrap, NoReceipt
    <3> QED
      BY <3>1 DEF AnswersAdministrators
  <2>2. ASSUME NEW c \in Credentials, NEW id \in EventIds, NEW payload \in Payloads, NEW expected,
               \/ AppendAuthorization(c, id, payload, expected)
               \/ RecoverAuthorization(c, id, payload, expected)
        PROVE  /\ receipt'.status = "RECOVERED" => authorizations' = authorizations
               /\ AnswersAdministrators
    <3>1. receipt'.status = "RECOVERED" => authorizations' = authorizations
      BY <2>2 DEF AppendAuthorization, RecoverAuthorization
    <3> QED
      BY <2>2, <3>1, AdministratorsAreAnswered
  <2> QED
    BY <1>4, <2>1, <2>2
<1> QED
  BY <1>1, <1>2, <1>3, NothingIsRewritten, BootstrapsAreInTime
-----------------------------------------------------------------------------
(* All four, of which one host drives one *)

GuardedInv == WitnessInv /\ DistributionInv /\ UpdateInv /\ AuthorizationInv

WitnessAnswer ==
  /\ answer'.status \in {"SUCCESS", "HISTORICAL_RECEIPT"} =>
       witness'[answer'.at].request = asked'
  /\ call # Idle /\ call' = Idle /\ answer'.status = "REFUSED" =>
       Len(witness') = call.before

DistributionAnswer ==
  /\ outcome'.status \in {"INITIAL", "ADVANCE", "UNCHANGED"} =>
       store'.history[outcome'.receipt].request = outcome'.request
  /\ applying # NotApplying /\ outcome'.status = "REFUSED" =>
       Len(store'.history) = applying.before

UpdateAnswer ==
  /\ reply' = "RECOVERED" =>
       \E i \in OfKind(events, "COMMIT") :
         IntentOf(events, events[i].operation) = update.intent
  /\ reply' = "APPENDED" => events' = Append(events, update.event)
  /\ reply' \in {"RECOVERED", "UNCHANGED", "REFUSED"} => events' = events
  /\ \A i, j \in OfKind(events', "COMMIT") :
       events'[i].operation = events'[j].operation => i = j

AuthorizationAnswer ==
  /\ \A i \in DOMAIN authorizations : authorizations'[i] = authorizations[i]
  /\ \A i, j \in DOMAIN authorizations' :
       authorizations'[i].id = authorizations'[j].id => i = j
  /\ receipt'.status = "BOOTSTRAPPED" => receipt'.at = authorizations'[1].at
  /\ receipt'.status = "RECOVERED" => authorizations' = authorizations
  /\ BootstrapsInTime /\ AnswersAdministrators

LEMMA GuardedInitial == Init => GuardedInv
<1> SUFFICES ASSUME Init PROVE GuardedInv
  OBVIOUS
<1>1. clock \in Times
  BY ClockConstants DEF Init, Times
<1> QED
  BY <1>1, WitnessInitial, DistributionInitial, UpdateInitial, AuthorizationInitial
    DEF Init, GuardedInv

LEMMA GuardedStays ==
  ASSUME GuardedInv, clock' \in Times
  PROVE  /\ UNCHANGED witnessVars => WitnessInv'
         /\ UNCHANGED distributionVars => DistributionInv'
         /\ UNCHANGED updateVars => UpdateInv'
         /\ UNCHANGED authorizationVars => AuthorizationInv'
<1>1. ASSUME UNCHANGED witnessVars PROVE WitnessInv'
  BY <1>1, WitnessStays DEF GuardedInv
<1>2. ASSUME UNCHANGED distributionVars PROVE DistributionInv'
  BY <1>2, DistributionStays DEF GuardedInv
<1>3. ASSUME UNCHANGED updateVars PROVE UpdateInv'
  BY <1>3, UpdateStays DEF GuardedInv, updateVars
<1>4. ASSUME UNCHANGED authorizationVars PROVE AuthorizationInv'
  BY <1>4, AuthorizationStays DEF GuardedInv, authorizationVars
<1> QED
  BY <1>1, <1>2, <1>3, <1>4

LEMMA GuardedStep == GuardedInv /\ [Next]_vars => GuardedInv'
<1> SUFFICES ASSUME GuardedInv, [Next]_vars PROVE GuardedInv'
  OBVIOUS
<1>1. CASE WitnessNext /\ UNCHANGED <<distributionVars, updateVars, authorizationVars>>
  <2>1. WitnessInv'
    BY <1>1, WitnessKept DEF GuardedInv
  <2>2. clock' \in Times
    BY <2>1 DEF WitnessInv, WitnessTypes, Times
  <2> QED
    BY <1>1, <2>1, <2>2, GuardedStays DEF GuardedInv
<1>2. CASE DistributionNext /\ UNCHANGED <<witnessVars, updateVars, authorizationVars>>
  <2>1. DistributionInv'
    BY <1>2, DistributionKept DEF GuardedInv
  <2>2. clock' \in Times
    BY <2>1 DEF DistributionInv, DistributionTypes, Times
  <2> QED
    BY <1>2, <2>1, <2>2, GuardedStays DEF GuardedInv
<1>3. CASE UpdateNext /\ UNCHANGED <<witnessVars, distributionVars, authorizationVars>>
  <2>1. UpdateInv'
    BY <1>3, UpdateKept DEF GuardedInv
  <2>2. clock' \in Times
    BY <2>1 DEF UpdateInv, Times
  <2> QED
    BY <1>3, <2>1, <2>2, GuardedStays DEF GuardedInv
<1>4. CASE AuthorizationNext /\ UNCHANGED <<witnessVars, distributionVars, updateVars>>
  <2>1. AuthorizationInv'
    BY <1>4, AuthorizationKept DEF GuardedInv
  <2>2. clock' \in Times
    BY <2>1 DEF AuthorizationInv, AuthorizationTypes, Times
  <2> QED
    BY <1>4, <2>1, <2>2, GuardedStays DEF GuardedInv
<1>5. CASE UNCHANGED vars
  <2>1. /\ UNCHANGED clock /\ UNCHANGED witnessVars /\ UNCHANGED distributionVars
        /\ UNCHANGED updateVars /\ UNCHANGED authorizationVars
    BY <1>5 DEF vars
  <2>2. clock' \in Times
    BY <2>1 DEF GuardedInv, UpdateInv, Times
  <2> QED
    BY <2>1, <2>2, GuardedStays DEF GuardedInv
<1> QED
  BY <1>1, <1>2, <1>3, <1>4, <1>5 DEF Next

\* Every step answers as it should in the store it is of, and leaves the others alone.
LEMMA GuardedAnswers ==
  GuardedInv /\ [Next]_vars =>
    /\ [WitnessAnswer]_witnessVars
    /\ [DistributionAnswer]_distributionVars
    /\ [UpdateAnswer]_updateVars
    /\ [AuthorizationAnswer]_authorizationVars
<1> SUFFICES ASSUME GuardedInv, [Next]_vars
             PROVE  /\ [WitnessAnswer]_witnessVars
                    /\ [DistributionAnswer]_distributionVars
                    /\ [UpdateAnswer]_updateVars
                    /\ [AuthorizationAnswer]_authorizationVars
  OBVIOUS
<1>1. WitnessNext \/ UNCHANGED witnessVars
  BY DEF Next, vars
<1>2. DistributionNext \/ UNCHANGED distributionVars
  BY DEF Next, vars
<1>3. UpdateNext \/ UNCHANGED updateVars
  BY DEF Next, vars
<1>4. AuthorizationNext \/ UNCHANGED authorizationVars
  BY DEF Next, vars
<1>5. [WitnessAnswer]_witnessVars
  BY <1>1, WitnessStepAnswers DEF GuardedInv, WitnessAnswer
<1>6. [DistributionAnswer]_distributionVars
  BY <1>2, DistributionStepAnswers DEF GuardedInv, DistributionAnswer
<1>7. [UpdateAnswer]_updateVars
  BY <1>3, UpdateStepAnswers DEF GuardedInv, UpdateAnswer
<1>8. [AuthorizationAnswer]_authorizationVars
  BY <1>4, AuthorizationStepAnswers DEF GuardedInv, AuthorizationAnswer
<1> QED
  BY <1>5, <1>6, <1>7, <1>8

LEMMA GuardedAlways == Spec => []GuardedInv
  BY GuardedInitial, GuardedStep, PTL DEF Spec

(***************************************************************************)
(* No host, however its calls fail and its clock jumps, leaves a store     *)
(* that its own loader refuses.                                            *)
(***************************************************************************)
THEOREM LoadersNeverRefuse == Spec => []EveryStoreLoads
<1>1. GuardedInv => EveryStoreLoads
  BY DEF GuardedInv, WitnessInv, DistributionInv, UpdateInv, AuthorizationInv, EveryStoreLoads,
    WitnessLoads, DistributionLoads
<1> QED
  BY <1>1, GuardedAlways, PTL

(***************************************************************************)
(* A local store that was set back behind an acceptance it had taken over  *)
(* is exposed by any observation: the witness counts its receipts, and     *)
(* what the store took over is one of them.                                *)
(***************************************************************************)
THEOREM RestoreIsExposed == Spec => []RollbackExposed
<1>1. GuardedInv => RollbackExposed
  BY AdoptedIsExposed DEF GuardedInv
<1> QED
  BY <1>1, GuardedAlways, PTL

(***************************************************************************)
(* Whatever the distribution ingested, every two successive frontiers are  *)
(* a lineage the witness accepts.                                          *)
(***************************************************************************)
THEOREM WitnessCanFollow == Spec => []FrontierIsWitnessable
<1>1. GuardedInv => FrontierIsWitnessable
  BY FrontiersAreLineage DEF GuardedInv
<1> QED
  BY <1>1, GuardedAlways, PTL

(***************************************************************************)
(* The commits of an update ledger are one chain, each expecting what the  *)
(* one before it installed.                                                *)
(***************************************************************************)
THEOREM CommitsAreOneChain == Spec => []CommitsFormAChain
<1>1. GuardedInv => CommitsFormAChain
  BY CommitsChain DEF GuardedInv
<1> QED
  BY <1>1, GuardedAlways, PTL

(***************************************************************************)
(* A key that any authority ever barred signs no commit after that.        *)
(***************************************************************************)
THEOREM BarredForGood == Spec => []BarredKeysCommitNothing
<1>1. GuardedInv => BarredKeysCommitNothing
  BY BarredStaysBarred DEF GuardedInv
<1> QED
  BY <1>1, GuardedAlways, PTL

(***************************************************************************)
(* A credential once disabled, or a permission once revoked, stays so, and *)
(* nothing that is recorded later was done with it.                        *)
(***************************************************************************)
THEOREM RevokedForGood == Spec => []RevocationIsFinal
<1>1. GuardedInv => RevocationIsFinal
  BY RevokedStaysRevoked DEF GuardedInv
<1> QED
  BY <1>1, GuardedAlways, PTL

(***************************************************************************)
(* Every success a store answers is on record; what the witness and the    *)
(* distribution refuse, and the update store with a reason, was not        *)
(* written; and the administrative ledger answers nobody but the           *)
(* credential it recorded, while its own principal may administer, and no  *)
(* bootstrap outside its lease.                                            *)
(***************************************************************************)
THEOREM StoresAnswerTruly == Spec => AnswersAreTrue
<1>1. Spec => /\ [][WitnessAnswer]_witnessVars
              /\ [][DistributionAnswer]_distributionVars
              /\ [][UpdateAnswer]_updateVars
              /\ [][AuthorizationAnswer]_authorizationVars
  BY GuardedAlways, GuardedAnswers, PTL DEF Spec
<1> QED
  BY <1>1, PTL DEF AnswersAreTrue, WitnessAnswers, DistributionAnswers, UpdateAnswers,
    AuthorizationAnswers, WitnessAnswer, DistributionAnswer, UpdateAnswer, AuthorizationAnswer
=============================================================================

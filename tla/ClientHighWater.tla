-------------------------- MODULE ClientHighWater --------------------------
(***************************************************************************)
(* The client's high-water mark: the last envelope of the authority that   *)
(* the client accepted, and a receipt for every observation that moved or  *)
(* confirmed it (provenance/client_high_water_logic.py and _store.py).     *)
(*                                                                         *)
(* An envelope names its predecessor by digest; an envelope stands for its *)
(* digest here.  A response is a signed observation: the request it        *)
(* answers, the current envelope, and the interval in which it counts.     *)
(* Responses are those whose signature and trust records verify: all       *)
(* others are refused and change nothing.  They may fork, skip revisions,  *)
(* and arrive in any order.                                                *)
(*                                                                         *)
(* A transaction reads the clock twice and checks everything again at the  *)
(* second reading.  That can only refuse, so one reading is modelled.      *)
(***************************************************************************)
EXTENDS Integers, Sequences

CONSTANTS
    Operations,     \* operation_id
    Requests,       \* observation requests, told apart by their challenge
    Responses,      \* signed observations that verify
    Envelopes,      \* reconciliation envelopes
    RevisionOf,     \* envelope |-> authority_revision
    PreviousOf,     \* envelope |-> previous_envelope_hash
    Anchor,         \* the envelope the host pins at creation
    AnchorTime,     \* its accepted_timestamp
    MaxReceipts,    \* bound of the code: 64
    Times           \* the instants of the clocks

ASSUME HighWaterConstants ==
    /\ Responses \subseteq
         [request : Requests, envelope : Envelopes, from : Times, until : Times]
    /\ RevisionOf \in [Envelopes -> Nat]
    /\ PreviousOf \in [Envelopes -> Envelopes]
    /\ Anchor \in Envelopes
    /\ Times \subseteq Nat /\ AnchorTime \in Times
    /\ MaxReceipts \in Nat

VARIABLES
    highWater,      \* client_state with its receipts
    clock           \* the host's wall clock

\* ClientHistoryEntry: the request and what its receipt adds to it.
Receipt == [op : Operations, response : Responses, at : Times,
            status : {"UNCHANGED", "VALID_ADVANCE"}]

HighWaterState == [mark : Envelopes, at : Times, history : Seq(Receipt)]

-----------------------------------------------------------------------------

\* What verify_observation says of the interval.
Valid(r, now) == r.from <= now /\ now < r.until

\* Fault: a gap in the revisions, or a broken link, is not noticed.
Advances_AnyLater(mark, e) == RevisionOf[e] > RevisionOf[mark]

Advances(mark, e) == RevisionOf[e] = RevisionOf[mark] + 1 /\ PreviousOf[e] = mark

\* Stale, forked and skipped envelopes are blocked.
Accepts(mark, e) == e = mark \/ Advances(mark, e)

ReceiptFor(op, r, mark, now) ==
    [op |-> op, response |-> r, at |-> now,
     status |-> IF r.envelope = mark THEN "UNCHANGED" ELSE "VALID_ADVANCE"]

MarkAt(h, n) == IF n = 0 THEN Anchor ELSE h[n].response.envelope
TimeAt(h, n) == IF n = 0 THEN AnchorTime ELSE h[n].at

\* A receipt is recomputed from the prefix before it, at its own time.
ValidReceipt(h, i) ==
    /\ \A j \in 1..(i - 1) : h[j].op # h[i].op
    /\ TimeAt(h, i - 1) <= h[i].at
    /\ Valid(h[i].response, h[i].at)
    /\ Accepts(MarkAt(h, i - 1), h[i].response.envelope)
    /\ h[i] = ReceiptFor(h[i].op, h[i].response, MarkAt(h, i - 1), h[i].at)

ValidState(s) ==
    /\ \A i \in DOMAIN s.history : ValidReceipt(s.history, i)
    /\ Len(s.history) <= MaxReceipts
    /\ s.mark = MarkAt(s.history, Len(s.history))
    /\ s.at = TimeAt(s.history, Len(s.history))

HighWaterLoads(now) == ValidState(highWater) /\ highWater.at <= now

Has(s, op) == \E i \in DOMAIN s.history : s.history[i].op = op
ReceiptOf(s, op) == s.history[CHOOSE i \in DOMAIN s.history : s.history[i].op = op]

-----------------------------------------------------------------------------

HighWaterInit ==
    /\ highWater = [mark |-> Anchor, at |-> AnchorTime, history |-> <<>>]
    /\ clock = AnchorTime

\* Fault: the bound on receipts is forgotten.
Apply_Unbounded(op, r) ==
    /\ HighWaterLoads(clock)
    /\ ~Has(highWater, op)
    /\ Valid(r, clock)
    /\ Accepts(highWater.mark, r.envelope)
    /\ highWater' = [mark |-> r.envelope, at |-> clock,
                     history |-> Append(highWater.history,
                                        ReceiptFor(op, r, highWater.mark, clock))]

\* A new operation confirms the mark, or moves it by one linked revision.
Apply(op, r) ==
    /\ HighWaterLoads(clock)
    /\ ~Has(highWater, op)
    /\ Valid(r, clock)
    /\ Accepts(highWater.mark, r.envelope)
    /\ Len(highWater.history) < MaxReceipts
    /\ highWater' = [mark |-> r.envelope, at |-> clock,
                     history |-> Append(highWater.history,
                                        ReceiptFor(op, r, highWater.mark, clock))]

\* An exact retry finds its receipt, also when the response has expired since.
ApplyRetry(op, r) ==
    /\ HighWaterLoads(clock)
    /\ Has(highWater, op) /\ ReceiptOf(highWater, op).response = r
    /\ UNCHANGED highWater
=============================================================================

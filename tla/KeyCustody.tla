----------------------------- MODULE KeyCustody -----------------------------
(***************************************************************************)
(* The custody of the observation key (key_custody_logic.py,               *)
(* key_custody_provider.py).  The provider is called in two steps, mint    *)
(* and sign; a handoff is consumed before anything is checked, and while   *)
(* the key is in use both clocks go on.                                    *)
(*                                                                         *)
(* Clocks advance in units smaller than the second in which requests and   *)
(* payloads are dated.  The windows of the key handle, of the capabilities *)
(* and of the anchor are required together everywhere, so `pins' has one   *)
(* window for the three.  A request carries the payload it dates; that its *)
(* bytes are those of the payload is decided by the request alone, and     *)
(* requests for which it fails are left out.                               *)
(***************************************************************************)
EXTENDS HostClock, Sequences

CONSTANTS
  Unit,            \* units of both clocks in a second
  ProviderKey,     \* the key the provider generated
  ProviderWindow,  \* five seconds
  MaxHandoffs,     \* MAX_HANDOFFS
  MaxTick          \* bound of the instances; the monotonic clock has none

ASSUME CustodyConstants ==
  /\ Unit \in Nat \ {0} /\ {ProviderWindow, MaxHandoffs, MaxTick} \subseteq Nat

VARIABLES
  tick,        \* the monotonic clock
  keyHeld,     \* the provider has its private key
  handoffs,    \* the provider's handoffs, in the order of their minting
  dispatched   \* the attempts signed for; the code keeps their number

custodyVars == <<tick, keyHeld, handoffs, dispatched>>

\* Whole seconds, of an instant and of the first second not before it (_seconds)
Second(t) == t \div Unit
SecondAfter(t) == (t + Unit - 1) \div Unit

(***************************************************************************)
(* evaluate_custody_request                                                *)
(***************************************************************************)
Ready(r, pins, signer, expected, now) ==
  /\ r.signer = signer /\ signer \in pins.signers
  /\ pins.handle = pins.anchor /\ r.handle = pins.anchor
  /\ pins.usable  \* ACTIVE, AVAILABLE, of the supported mechanism and format
  /\ pins.from <= now /\ now < pins.until
  /\ r.payload.key = pins.key /\ r.payload.request = expected.name
  /\ expected.from <= r.payload.from /\ r.payload.from <= r.from
  /\ r.from <= now /\ now < r.until
  /\ r.until <= r.payload.until /\ r.payload.until <= expected.until
  /\ pins.from <= r.payload.from /\ r.payload.until <= pins.until

(***************************************************************************)
(* TestCustodyProvider                                                     *)
(***************************************************************************)
CanMint(id, deadline) ==
  /\ keyHeld
  /\ Len(handoffs) < MaxHandoffs
  /\ \A i \in DOMAIN handoffs : handoffs[i].id # id
  /\ tick < deadline /\ deadline <= tick + ProviderWindow

Handoff(id, request, deadline) ==
  [id |-> id, request |-> request, deadline |-> deadline, used |-> FALSE]

\* sign up to the dispatch: the handoff is consumed whatever follows
SignStarts(h, pins, signer, expected, now) ==
  /\ ~h.used /\ keyHeld
  /\ tick < h.deadline
  /\ Ready(h.request, pins, signer, expected, now)
  /\ pins.key = ProviderKey

\* What the key operation may come to: the modes of the provider
KeyOutcomes == {"SIGNATURE", "OTHER_SIGNATURE", "FAILURE", "UNKNOWN"}

\* sign from the dispatch on; `began' is the time at which it was dispatched
SignEnds(outcome, h, pins, signer, expected, began, now) ==
  CASE outcome = "FAILURE" -> "PROVIDER_FAILED"
    [] outcome = "UNKNOWN" -> "OUTCOME_UNKNOWN"
    [] OTHER ->
         IF now < began \/ h.deadline <= tick
            \/ ~Ready(h.request, pins, signer, expected, now)
         THEN "RESULT_DISCARDED"
         ELSE IF outcome = "SIGNATURE" THEN "VERIFIED" ELSE "SIGNATURE_INVALID"

CustodyInit ==
  /\ tick = 0 /\ keyHeld = TRUE /\ handoffs = <<>> /\ dispatched = <<>>

Tick ==
  /\ tick < MaxTick /\ tick' = tick + 1
  /\ UNCHANGED <<keyHeld, handoffs, dispatched>>

\* close waits for the lock that sign holds from beginning to end
CloseProvider ==
  /\ keyHeld /\ keyHeld' = FALSE
  /\ UNCHANGED <<tick, handoffs, dispatched>>

(***************************************************************************)
(* However often a request is presented, retried or recovered, the key     *)
(* signs for an attempt once at most.                                      *)
(***************************************************************************)
OneDispatchPerAttempt ==
  \A i, j \in DOMAIN dispatched : dispatched[i] = dispatched[j] => i = j
=============================================================================

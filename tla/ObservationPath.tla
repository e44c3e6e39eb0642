--------------------------- MODULE ObservationPath ---------------------------
(***************************************************************************)
(* From a request frame to a signed answer (observation_request_transport  *)
(* .py, observation_request_binding.py, observation_handoff.py,            *)
(* observation_bridge.py, observation_signer_adapter.py,                   *)
(* key_custody_bridge.py, observation_response_delivery.py, and the parts  *)
(* of mtls.py, host_auth.py and reconciliation_verifier.py they call), on  *)
(* one connection and in the one thread that serves it.                    *)
(*                                                                         *)
(* Every stage validates afresh what the host says now - enrollment,       *)
(* policy, host context, custody configuration - and narrows the window    *)
(* and keeps the deadline that the stage before left it.  Between two      *)
(* stages the host may say something else and both clocks go on.  Within   *)
(* a validation the registry is read before and after the rest and must    *)
(* not have changed, so that a change of policy or context in its midst    *)
(* is one made just after it: a validation is one step.                    *)
(***************************************************************************)
EXTENDS KeyCustody, FiniteSets, FiniteSetsExt

CONSTANTS
  HostStates,        \* what the host says, in the order in which it comes to say it
  Requests,          \* ObservationRequest of the frames
  Envelope,          \* the envelope of the authority's snapshot (CheckpointAuthority)
  Trust,             \* the observation trust store, its key and its checkpoint
  TransportBudget,   \* timeout of the transport
  HandoffBudget,     \* five seconds
  AttestedFor,       \* identity_lifetime of RegistryCredentialVerifier
  MaxFrames          \* bound of the instances; the code has none

ASSUME ObservationConstants ==
  /\ {TransportBudget, HandoffBudget, AttestedFor, MaxFrames} \subseteq Nat
  /\ {Envelope.from, Envelope.until, Trust.from, Trust.until} \subseteq Nat
  /\ \A r \in Requests : {r.from, r.until} \subseteq Nat
  /\ Len(HostStates) \in Nat \ {0} /\ DOMAIN HostStates = 1..Len(HostStates)
  /\ \A h \in DOMAIN HostStates :
       LET s == HostStates[h] IN
       /\ {s.enrolledUntil, s.policy.until, s.context.until, s.custody.from,
           s.custody.until} \subseteq Nat
       /\ IsFiniteSet(s.policy.grants)
       /\ \A g \in s.policy.grants : {g.id, g.until} \subseteq Nat

VARIABLES
  host,        \* which of HostStates is current
  open,        \* the connection has not been closed
  requested,   \* handoffs of received frames
  candidates,  \* signing handoffs
  job,         \* the call being made
  released     \* signed observations returned to the host

observationVars == <<host, open, requested, candidates, job, released>>

NoJob == [at |-> "none"]

Says == HostStates[host]

(***************************************************************************)
(* MtlsConnection.verify: the enrollment of the peer's credential now      *)
(***************************************************************************)
Enrolled == open /\ clock < Says.enrolledUntil

Identity ==
  [registry |-> Says.registry, principal |-> Says.principal, verified |-> clock,
   until |-> Min({Says.enrolledUntil, clock + AttestedFor})]

\* Whether it is asked at all: a credential that fails closes the connection
HangsUp(deadline) == open' = (open /\ (tick < deadline => Enrolled))

(***************************************************************************)
(* bind_observation_request.  Policy and context are pinned by the context *)
(* to one registry and one policy; the grant is the longest that applies.  *)
(***************************************************************************)
Applies(g, identity) == g.principal = identity.principal /\ clock < g.until

Bindable(identity, request) ==
  /\ identity.verified <= clock /\ clock < identity.until
  /\ identity.registry = Says.context.registry /\ Says.policy = Says.context.policy
  /\ clock < Says.policy.until /\ clock < Says.context.until
  /\ request.principal = identity.principal
  /\ request.from * Unit <= clock /\ clock < request.until * Unit
  /\ \E g \in Says.policy.grants : Applies(g, identity)

GrantFor(identity) ==
  LET matches == {g \in Says.policy.grants : Applies(g, identity)}
      longest == {g \in matches : \A h \in matches : h.until <= g.until}
  IN CHOOSE g \in longest : \A h \in longest : g.id <= h.id

Binding(identity, request) ==
  [request |-> request.name, registry |-> identity.registry, principal |-> identity.principal,
   policy |-> Says.policy.revision, grant |-> GrantFor(identity).id, from |-> clock,
   until |-> Min({request.until * Unit, identity.until, Says.policy.until,
                  Says.context.until, GrantFor(identity).until})]

(***************************************************************************)
(* _revalidate                                                             *)
(***************************************************************************)
SameBinding(a, b) ==
  /\ a.request = b.request /\ a.registry = b.registry /\ a.principal = b.principal
  /\ a.policy = b.policy /\ a.grant = b.grant

Live(request, prior, deadline) ==
  /\ tick < deadline
  /\ prior.from <= clock /\ clock < prior.until
  /\ Enrolled /\ Bindable(Identity, request)
  /\ SameBinding(prior, Binding(Identity, request))

\* Mutant: the window is taken anew.
Revalidated_Anew(request, prior) == Binding(Identity, request)

Revalidated(request, prior) ==
  [Binding(Identity, request) EXCEPT !.until = Min({prior.until, @})]

(***************************************************************************)
(* ObservationRequestTransport._process and ObservationHandoff             *)
(***************************************************************************)
AwaitFrame ==
  /\ job = NoJob /\ open /\ Len(requested) < MaxFrames
  /\ open' = Enrolled
  /\ job' = IF Enrolled
            THEN [at |-> "reading", first |-> Identity, started |-> clock,
                  deadline |-> tick + TransportBudget]
            ELSE NoJob
  /\ UNCHANGED <<custodyVars, host, requested, candidates, released>>

\* recv_before looks at the enrollment before every piece; all but the last
\* piece change nothing.
PieceArrives == Enrolled /\ tick < job.deadline

ReadFrame(request) ==
  /\ job.at = "reading"
  /\ IF PieceArrives /\ Bindable(job.first, request)
     THEN /\ job' = [at |-> "bound", first |-> job.first, started |-> job.started,
                     deadline |-> job.deadline, request |-> request,
                     said |-> <<Says.policy, Says.context>>]
          /\ UNCHANGED open
     ELSE job' = NoJob /\ open' = FALSE
  /\ UNCHANGED <<custodyVars, host, requested, candidates, released>>

\* The second look, which must find everything as the first did
BindFrame ==
  /\ job.at = "bound"
  /\ job' = NoJob
  /\ IF /\ Enrolled /\ tick < job.deadline /\ job.started <= clock
        /\ Bindable(Identity, job.request)
        /\ <<Says.registry, Says.principal>> = <<job.first.registry, job.first.principal>>
        /\ <<Says.policy, Says.context>> = job.said
     THEN /\ requested' = Append(requested,
               [request |-> job.request, binding |-> Binding(Identity, job.request),
                used |-> FALSE, deadline |-> Min({job.deadline, tick + HandoffBudget})])
          /\ UNCHANGED open
     ELSE UNCHANGED requested /\ open' = FALSE
  /\ UNCHANGED <<custodyVars, host, candidates, released>>

(***************************************************************************)
(* TestObservationBridge._observe and prepare_signing                      *)
(***************************************************************************)
\* _take: presenting a handoff consumes it
Taken(handoff) == [handoff EXCEPT !.used = TRUE]

\* observe_current_snapshot, of an authority that lets the caller observe for
\* as long as its envelope lasts
CanObserve == Envelope.from <= clock /\ clock < Envelope.until
ObservedUntil(binding) == Min({binding.until, Envelope.until})

Observe(i) ==
  LET f == requested[i]
      live == Live(f.request, f.binding, f.deadline)
  IN
  /\ job = NoJob /\ ~f.used
  /\ requested' = [requested EXCEPT ![i] = Taken(f)]
  /\ job' = IF live /\ CanObserve
            THEN LET b == Revalidated(f.request, f.binding) IN
                 [at |-> "observed", frame |-> i, request |-> f.request, binding |-> b,
                  until |-> ObservedUntil(b), deadline |-> f.deadline]
            ELSE NoJob
  /\ HangsUp(f.deadline)
  /\ UNCHANGED <<custodyVars, host, candidates, released>>

PrepareSigning ==
  LET b == Revalidated(job.request, job.binding)
      until == Min({b.until, job.until})
  IN
  /\ job.at = "observed"
  /\ job' = NoJob
  /\ candidates' =
       IF Live(job.request, job.binding, job.deadline)
          /\ clock < until
       THEN Append(candidates,
              [frame |-> job.frame, request |-> job.request, binding |-> b, from |-> clock,
               until |-> until, deadline |-> job.deadline, used |-> FALSE])
       ELSE candidates
  /\ HangsUp(job.deadline)
  /\ UNCHANGED <<custodyVars, host, requested, released>>

(***************************************************************************)
(* The payload: dated in whole seconds, rounded inwards, and never longer  *)
(* than what is left of the deadline                                       *)
(***************************************************************************)
Payload(c, b, pins) ==
  [request |-> c.request.name, key |-> pins.key, binding |-> b,
   from |-> Second(b.from),
   until |-> Min({c.request.until, Second(c.until), Second(b.until), Second(Envelope.until),
                  Trust.until, pins.until, Second(b.from) + (c.deadline - tick) \div Unit})]

Dated(c, p, pins) ==
  /\ Max({c.request.from, SecondAfter(c.from), SecondAfter(Envelope.from), Trust.from,
          pins.from}) <= p.from
  /\ p.from < p.until

\* verify_observation, of a payload signed with its key
Verified(p, request, now) ==
  /\ p.key = Trust.key /\ p.request = request.name
  /\ request.from <= p.from /\ p.from <= now /\ now < p.until /\ p.until <= request.until
  /\ Trust.from <= p.from /\ now < Trust.until /\ p.until <= Trust.until
  /\ SecondAfter(Envelope.from) <= p.from /\ p.until * Unit <= Envelope.until

CustodyRequest(p, pins) ==
  [attempt |-> Len(handoffs) + 1, signer |-> pins.signer, handle |-> pins.handle,
   from |-> p.from, until |-> p.until, payload |-> p]
Expected(request) == [name |-> request.name, from |-> request.from, until |-> request.until]

Take(i) ==
  candidates' = [candidates EXCEPT ![i] = Taken(@)]

ReleaseObservation(p, frame) ==
  released' = released \cup {[payload |-> p, frame |-> frame, at |-> clock, tick |-> tick]}

(***************************************************************************)
(* TestObservationSignerAdapter.sign, with a key of its own for which      *)
(* ProviderKey and keyHeld stand                                           *)
(***************************************************************************)
AdapterSign(i) ==
  LET c == candidates[i]
      b == Revalidated(c.request, c.binding)
      p == Payload(c, b, [key |-> ProviderKey, from |-> 0, until |-> Trust.until])
  IN
  /\ job = NoJob /\ ~c.used
  /\ Take(i)
  /\ job' = IF /\ Live(c.request, c.binding, c.deadline)
               /\ keyHeld /\ Trust.key = ProviderKey /\ Dated(c, p, [from |-> 0])
            THEN [at |-> "adapter", candidate |-> i, binding |-> b, payload |-> p]
            ELSE NoJob
  /\ HangsUp(c.deadline)
  /\ UNCHANGED <<custodyVars, host, requested, released>>

AdapterReturns ==
  LET c == candidates[job.candidate] IN
  /\ job.at = "adapter"
  /\ job' = NoJob
  /\ IF /\ Live(c.request, job.binding, c.deadline)
        /\ Verified(job.payload, c.request, Second(clock))
     THEN ReleaseObservation(job.payload, c.frame)
     ELSE UNCHANGED released
  /\ HangsUp(c.deadline)
  /\ UNCHANGED <<custodyVars, host, requested, candidates>>

(***************************************************************************)
(* TestCustodyObservationBridge.sign                                       *)
(***************************************************************************)
BridgeTakes(i) ==
  LET c == candidates[i]
      pins == Says.custody
      b == Revalidated(c.request, c.binding)
      p == Payload(c, b, pins)
  IN
  /\ job = NoJob /\ ~c.used
  /\ Take(i)
  /\ job' = IF /\ Live(c.request, c.binding, c.deadline)
               /\ pins.key = ProviderKey /\ Trust.key = pins.key
               /\ Dated(c, p, pins)
               /\ Ready(CustodyRequest(p, pins), pins, pins.signer, Expected(c.request), p.from)
            THEN [at |-> "taken", candidate |-> i, binding |-> b, payload |-> p,
                  pins |-> pins, began |-> 0]
            ELSE NoJob
  /\ HangsUp(c.deadline)
  /\ UNCHANGED <<custodyVars, host, requested, released>>

\* check: the custody configuration is what it was
Unchanged(c) == tick < c.deadline /\ Says.custody = job.pins

\* ... and a binding that lasts as long as the payload
StillLive(c) ==
  /\ Unchanged(c)
  /\ Live(c.request, job.binding, c.deadline)
  /\ job.payload.until <= Second(Revalidated(c.request, job.binding).until)

BridgeRechecks ==
  LET c == candidates[job.candidate] IN
  /\ job.at = "taken"
  /\ job' = IF StillLive(c)
            THEN [job EXCEPT !.at = "dispatch", !.binding = Revalidated(c.request, @)]
            ELSE NoJob
  /\ HangsUp(c.deadline)
  /\ UNCHANGED <<custodyVars, host, requested, candidates, released>>

BridgeDispatches ==
  LET c == candidates[job.candidate]
      r == CustodyRequest(job.payload, job.pins)
      h == Handoff(r.attempt, r, c.deadline)
      now == Second(clock)
  IN
  /\ job.at = "dispatch"
  /\ handoffs' = IF Unchanged(c) /\ CanMint(h.id, h.deadline)
                 THEN Append(handoffs, [h EXCEPT !.used = TRUE]) ELSE handoffs
  /\ IF /\ handoffs' # handoffs
        /\ SignStarts(h, job.pins, job.pins.signer, Expected(c.request), now)
     THEN /\ dispatched' = Append(dispatched, r.attempt)
          /\ job' = [job EXCEPT !.at = "signing", !.began = now]
     ELSE UNCHANGED dispatched /\ job' = NoJob
  /\ UNCHANGED <<tick, keyHeld, host, open, requested, candidates, released>>

BridgeReturned(outcome) ==
  LET c == candidates[job.candidate]
      h == handoffs[Len(handoffs)]
  IN
  /\ job.at = "signing"
  /\ job' = IF /\ SignEnds(outcome, h, job.pins, job.pins.signer, Expected(c.request),
                           job.began, Second(clock)) = "VERIFIED"
               /\ Unchanged(c)
            THEN [job EXCEPT !.at = "signed"] ELSE NoJob
  /\ UNCHANGED <<custodyVars, host, open, requested, candidates, released>>

BridgeVerifies ==
  LET c == candidates[job.candidate] IN
  /\ job.at = "signed"
  /\ job' = IF StillLive(c) /\ Verified(job.payload, c.request, Second(clock))
            THEN [job EXCEPT !.at = "verified", !.binding = Revalidated(c.request, @)]
            ELSE NoJob
  /\ HangsUp(c.deadline)
  /\ UNCHANGED <<custodyVars, host, requested, candidates, released>>

BridgeReleases ==
  LET c == candidates[job.candidate] IN
  /\ job.at = "verified"
  /\ job' = NoJob
  /\ IF StillLive(c) /\ Second(clock) < job.payload.until
     THEN ReleaseObservation(job.payload, c.frame)
     ELSE UNCHANGED released
  /\ HangsUp(c.deadline)
  /\ UNCHANGED <<custodyVars, host, requested, candidates>>

(***************************************************************************)
(* send_signed_response and MtlsConnection.send_before: in pieces, each    *)
(* after a look at the enrollment; a failure closes the connection         *)
(***************************************************************************)
StartDelivery(x, left) ==
  /\ job = NoJob
  /\ IF Enrolled /\ Says.principal = x.payload.binding.principal
     THEN /\ job' = [at |-> "sending", of |-> x, registry |-> Says.registry,
                     deadline |-> tick + left]
          /\ UNCHANGED open
     ELSE open' = FALSE /\ UNCHANGED job
  /\ UNCHANGED <<custodyVars, host, requested, candidates, released>>

SendPiece(last) ==
  /\ job.at = "sending"
  /\ IF Enrolled /\ Says.registry = job.registry /\ tick < job.deadline
     THEN job' = (IF last THEN NoJob ELSE job) /\ UNCHANGED open
     ELSE open' = FALSE /\ job' = NoJob
  /\ UNCHANGED <<custodyVars, host, requested, candidates, released>>

HostChanges ==
  /\ host < Len(HostStates) /\ host' = host + 1
  /\ UNCHANGED <<custodyVars, open, requested, candidates, job, released>>

ObservationInit ==
  /\ CustodyInit
  /\ host = 1 /\ open = TRUE
  /\ requested = <<>> /\ candidates = <<>> /\ job = NoJob /\ released = {}

ObservationNext ==
  \/ UNCHANGED clock /\
     \/ AwaitFrame \/ \E r \in Requests : ReadFrame(r)
     \/ BindFrame
     \/ \E i \in DOMAIN requested : Observe(i)
     \/ PrepareSigning
     \/ \E i \in DOMAIN candidates : AdapterSign(i) \/ BridgeTakes(i)
     \/ AdapterReturns
     \/ BridgeRechecks \/ BridgeDispatches
     \/ \E outcome \in KeyOutcomes : BridgeReturned(outcome)
     \/ BridgeVerifies \/ BridgeReleases
     \/ \E x \in released, left \in 1..HandoffBudget : StartDelivery(x, left)
     \/ \E last \in BOOLEAN : SendPiece(last)
     \/ HostChanges
     \/ Tick /\ UNCHANGED observationVars
     \/ job.at # "signing" /\ CloseProvider /\ UNCHANGED observationVars
  \/ SetClock /\ UNCHANGED <<custodyVars, observationVars>>

(***************************************************************************)
(* A frame leads to one signed observation at most.  It is handed to the   *)
(* host inside every lease it went through - the deadline and the window   *)
(* of the first binding, the window it claims itself, which is inside the  *)
(* windows of binding, envelope and trust - whatever either clock and the  *)
(* host did meanwhile; and it is about the principal, policy and grant     *)
(* that the frame was bound to.                                            *)
(***************************************************************************)
ReleasedWithinEveryLease ==
  /\ \A x \in released :
       LET f == requested[x.frame]
           p == x.payload
       IN /\ x.tick < f.deadline
          /\ f.binding.from <= x.at /\ x.at < f.binding.until
          /\ p.from <= Second(x.at) /\ Second(x.at) < p.until
          /\ f.binding.from <= p.from * Unit
          /\ p.until * Unit <= Min({f.binding.until, Envelope.until, Trust.until * Unit})
          /\ SameBinding(p.binding, f.binding)
  /\ \A x, y \in released : x.frame = y.frame => x = y
=============================================================================

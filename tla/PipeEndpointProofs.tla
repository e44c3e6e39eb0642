------------------------- MODULE PipeEndpointProofs -------------------------
(***************************************************************************)
(* The pipe endpoint, for any operations, any plans and any limits.  What  *)
(* an operation's record, its ledger and the kernel say of each other is   *)
(* one predicate of the three, Sound; it survives every event that the     *)
(* worker records because none of them is ever illegal.                    *)
(***************************************************************************)
EXTENDS PipeEndpoint, TLAPS

Terminals == {"NONE", "SUCCESS", "ABORTED", "ERROR", "NOT_SUBMITTED"}

\* A ledger at time t, condemned or not.
Counted(s, t) ==
  /\ s.last <= t
  /\ s.events <= MaxEvents
  /\ s.rejected => s.events = MaxEvents

\* A ledger that is not condemned says what is true of its operation.
Reflects(r, k) ==
  /\ r.ledger.stage # "CREATED"
  /\ r.ledger.stage = "PENDING" <=> r.pending
  /\ r.ledger.stage \in {"TERMINAL", "DISPOSED"} <=> r.terminal
  /\ r.ledger.stage = "DISPOSED" <=> r.disposed
  /\ r.ledger.terminal = "SUCCESS" => k = "SUCCESS"
  /\ r.pending => k # "none"
  /\ k = "pending" => r.pending

\* What holds of one operation's record r and of the kernel's state k of it,
\* at time t, while the endpoint is condemned or not.
Sound(r, k, t, fatal) ==
  /\ ~r.begun => k = "none" /\ r.ledger.events = 0
  /\ Counted(r.ledger, t)
  /\ Condemned(r.ledger) => fatal
  /\ r.begun /\ ~fatal => Reflects(r, k)

CallFits ==
  /\ call.at # "none" => Usable
  /\ call.at \in {"poll", "cancel"} => \A o \in Operations : Active(o) => op[o].pending

EndpointInv ==
  /\ TypeOK
  /\ \A o \in Operations : Sound(op[o], kernel[o], tick, endpoint.fatal)
  /\ endpoint.active \in Operations => op[endpoint.active].begun
  /\ CallFits
  /\ KernelMemoryHeld

-----------------------------------------------------------------------------
(* The ledger *)

(***************************************************************************)
(* Whatever is recorded, a ledger stays a ledger                           *)
(* (propose_pipe_event).                                                   *)
(***************************************************************************)
LEMMA RecordedTypes ==
  ASSUME NEW p \in Plan, NEW s \in LedgerState, NEW action, NEW outcome, NEW t \in Nat
  PROVE  Recorded(p, s, action, outcome, t) \in LedgerState
<1>1. ASSUME Legal(p, s, action, outcome, t)
      PROVE  After(p, s, action, outcome, t) \in LedgerState
  <2>1. Ends(s, action, outcome) => (IF action = "EXPIRE" THEN "NOT_SUBMITTED" ELSE outcome) \in Terminals
    BY DEF Ends, Terminals
  <2>2. s.events + 1 \in Nat
    BY DEF LedgerState
  <2> QED
    BY <2>1, <2>2 DEF After, LedgerState, Terminals, Plan
<1>2. [s EXCEPT !.rejected = TRUE] \in LedgerState
  BY DEF LedgerState
<1> QED
  BY <1>1, <1>2 DEF Recorded

(***************************************************************************)
(* An event that is legal whenever the ledger would take it is rejected    *)
(* only for lack of room.                                                  *)
(***************************************************************************)
LEMMA RecordedCounts ==
  ASSUME NEW p \in Plan, NEW s \in LedgerState, NEW action, NEW outcome,
         NEW now \in Nat, NEW t \in Nat, now <= t, Counted(s, now),
         ~Condemned(s) => Legal(p, s, action, outcome, t)
  PROVE  /\ Counted(Recorded(p, s, action, outcome, t), t)
         /\ Condemned(s) => Recorded(p, s, action, outcome, t) = s
         /\ ~Condemned(Recorded(p, s, action, outcome, t)) =>
              /\ ~Condemned(s)
              /\ Recorded(p, s, action, outcome, t) = After(p, s, action, outcome, t)
  BY EndpointAssumption, LedgerAssumption
     DEF Recorded, Counted, Condemned, After, LedgerState

(***************************************************************************)
(* After, field by field.                                                  *)
(***************************************************************************)
LEMMA AfterFields ==
  ASSUME NEW p \in Plan, NEW s \in LedgerState, NEW action, NEW outcome, NEW t \in Nat
  PROVE  LET a == After(p, s, action, outcome, t) IN
         /\ Ends(s, action, outcome) =>
              /\ a.stage = "TERMINAL"
              /\ a.terminal = IF action = "EXPIRE" THEN "NOT_SUBMITTED" ELSE outcome
         /\ ~Ends(s, action, outcome) =>
              /\ a.terminal = s.terminal
              /\ a.stage = IF action = "SUBMIT" /\ outcome = "PENDING" THEN "PENDING"
                           ELSE IF action = "DISPOSE" THEN "DISPOSED" ELSE s.stage
         /\ t >= p.request => a.suppressed
         /\ s.suppressed => a.suppressed
         /\ a.rejected = s.rejected
         /\ s.shutdown => a.shutdown
         /\ a.last = t
         /\ a.events = s.events + 1
<1> DEFINE a == After(p, s, action, outcome, t)
<1>1. /\ a.stage = CASE Ends(s, action, outcome)               -> "TERMINAL"
                     [] action = "SUBMIT" /\ outcome = "PENDING" -> "PENDING"
                     [] action = "DISPOSE"                       -> "DISPOSED"
                     [] OTHER                                    -> s.stage
      /\ a.terminal = IF ~Ends(s, action, outcome) THEN s.terminal
                      ELSE IF action = "EXPIRE" THEN "NOT_SUBMITTED" ELSE outcome
      /\ a.suppressed = (s.suppressed \/ t >= p.request \/ action = "CANCEL")
      /\ a.shutdown = (s.shutdown \/ (s.stage = "PENDING" /\ t >= p.cleanup))
      /\ a.rejected = s.rejected /\ a.last = t /\ a.events = s.events + 1
  BY DEF After, LedgerState
<1> DEFINE submitted == action = "SUBMIT" /\ outcome = "PENDING"
           ended == Ends(s, action, outcome)
<1>2. ended => ~submitted /\ action # "DISPOSE"
  BY DEF Ends
<1> HIDE DEF a
<1>3. CASE ended
  <2>1. a.stage = "TERMINAL"
    BY <1>1, <1>2, <1>3, Zenon
  <2> QED
    BY <1>1, <1>3, <2>1, Zenon DEF a
<1>4. CASE ~ended /\ submitted
  <2>1. a.stage = "PENDING"
    BY <1>1, <1>4, Zenon
  <2> QED
    BY <1>1, <1>4, <2>1 DEF a
<1>5. CASE ~ended /\ ~submitted /\ action = "DISPOSE"
  <2>1. a.stage = "DISPOSED"
    BY <1>1, <1>5, Zenon
  <2> QED
    BY <1>1, <1>5, <2>1 DEF a
<1>6. CASE ~ended /\ ~submitted /\ action # "DISPOSE"
  <2>1. a.stage = s.stage
    BY <1>1, <1>6, Zenon
  <2> QED
    BY <1>1, <1>6, <2>1 DEF a
<1> QED
  BY <1>3, <1>4, <1>5, <1>6

(***************************************************************************)
(* _expire changes nothing but the ledger, and in it a submission that     *)
(* never happened and the suppression of the result.                       *)
(***************************************************************************)
LEMMA ExpiredFields ==
  ASSUME NEW r \in Op, NEW now \in Nat, NEW t \in Nat, now <= t,
         Counted(r.ledger, now),
         ~Condemned(r.ledger) => r.ledger.stage # "DISPOSED"
  PROVE  /\ Expired(r, t) \in Op
         /\ Expired(r, t) = [r EXCEPT !.ledger = Expired(r, t).ledger]
         /\ Counted(Expired(r, t).ledger, t)
         /\ ~Condemned(Expired(r, t).ledger) =>
              /\ ~Condemned(r.ledger)
              /\ r.ledger.stage # "CREATED" =>
                   Expired(r, t).ledger.stage = r.ledger.stage
                   /\ Expired(r, t).ledger.terminal = r.ledger.terminal
              /\ r.ledger.stage = "CREATED" /\ t >= r.plan.request =>
                   Expired(r, t).ledger.stage = "TERMINAL"
                   /\ Expired(r, t).ledger.terminal = "NOT_SUBMITTED"
              /\ t >= r.plan.request => Expired(r, t).ledger.suppressed
<1> DEFINE x == Recorded(r.plan, r.ledger, "EXPIRE", "NONE", t)
<1>0. r.plan \in Plan /\ r.ledger \in LedgerState /\ r.plan.request \in Nat
  BY DEF Op, Plan
<1>1. CASE t < r.plan.request
  <2>1. Expired(r, t) = r
    BY <1>1 DEF Expired
  <2>2. Counted(r.ledger, t)
    BY <1>0 DEF Counted, LedgerState
  <2>3. r = [r EXCEPT !.ledger = r.ledger]
    BY DEF Op
  <2> QED
    BY <1>0, <1>1, <2>1, <2>2, <2>3
<1>2. CASE ~(t < r.plan.request)
  <2>1. Expired(r, t) = [r EXCEPT !.ledger = x]
    BY <1>2 DEF Expired
  <2>2. x \in LedgerState
    BY <1>0, RecordedTypes
  <2>3. Expired(r, t) \in Op /\ Expired(r, t).ledger = x
    BY <2>1, <2>2 DEF Op
  <2>4. ~Condemned(r.ledger) => Legal(r.plan, r.ledger, "EXPIRE", "NONE", t)
    BY <1>0, <1>2 DEF Legal, Counted, LedgerState
  <2>5. /\ Counted(x, t)
        /\ ~Condemned(x) => ~Condemned(r.ledger) /\ x = After(r.plan, r.ledger, "EXPIRE", "NONE", t)
    BY <1>0, <2>4, RecordedCounts
  <2> DEFINE a == After(r.plan, r.ledger, "EXPIRE", "NONE", t)
  <2>6. Ends(r.ledger, "EXPIRE", "NONE") <=> r.ledger.stage = "CREATED"
    BY DEF Ends
  <2>7. /\ r.ledger.stage # "CREATED" => a.stage = r.ledger.stage /\ a.terminal = r.ledger.terminal
        /\ r.ledger.stage = "CREATED" => a.stage = "TERMINAL" /\ a.terminal = "NOT_SUBMITTED"
        /\ a.suppressed
    BY <1>0, <1>2, <2>6, AfterFields
  <2> HIDE DEF a, x
  <2> QED
    BY <2>1, <2>3, <2>5, <2>7 DEF a
<1> QED
  BY <1>1, <1>2

-----------------------------------------------------------------------------
(* One step of the endpoint *)

(***************************************************************************)
(* A step that changes one operation, the active one or the first one when *)
(* none is active: it is enough to look at that operation.                 *)
(***************************************************************************)
LEMMA StepKeeps ==
  ASSUME EndpointInv, NEW o \in Operations, NEW r \in Op, NEW k \in Kernel,
         op' = [op EXCEPT ![o] = r], kernel' = [kernel EXCEPT ![o] = k],
         tick' \in Later, endpoint' \in Endpoint, call' \in Call,
         endpoint.fatal => endpoint'.fatal, endpoint'.closed = endpoint.closed,
         endpoint.active \in {o, NoOperation},
         endpoint'.active \in {o, NoOperation},
         endpoint'.active = NoOperation => k # "pending",
         r.begun, Sound(r, k, tick', endpoint'.fatal),
         k = "pending" => ~r.disposed /\ r.event /\ ~endpoint.closed,
         CallFits'
  PROVE  EndpointInv'
<1>1. tick \in Nat /\ tick' \in Nat /\ tick <= tick' /\ tick' \in 0..MaxTick
  BY EndpointAssumption DEF EndpointInv, TypeOK, Later
<1>2. /\ op'[o] = r /\ kernel'[o] = k
      /\ \A x \in Operations : x # o => op'[x] = op[x] /\ kernel'[x] = kernel[x]
  BY DEF EndpointInv, TypeOK
<1>3. TypeOK'
  BY <1>1 DEF EndpointInv, TypeOK
<1>4. \A x \in Operations : Sound(op'[x], kernel'[x], tick', endpoint'.fatal)
  <2> SUFFICES ASSUME NEW x \in Operations, x # o
               PROVE  Sound(op'[x], kernel'[x], tick', endpoint'.fatal)
    BY <1>2
  <2>1. Sound(op[x], kernel[x], tick, endpoint.fatal) /\ op[x].ledger \in LedgerState
    BY DEF EndpointInv, TypeOK, Op
  <2>2. Counted(op[x].ledger, tick')
    BY <1>1, <2>1 DEF Sound, Counted, LedgerState
  <2> QED
    BY <1>2, <2>1, <2>2 DEF Sound
<1>5. endpoint'.active \in Operations => op'[endpoint'.active].begun
  BY <1>2, EndpointAssumption
<1>6. KernelMemoryHeld'
  <2> SUFFICES ASSUME NEW x \in Operations, kernel'[x] = "pending"
               PROVE  /\ ~op'[x].disposed /\ op'[x].event /\ endpoint'.active = x /\ ~endpoint'.closed
                      /\ op'[x].pending \/ endpoint'.fatal
    BY DEF KernelMemoryHeld
  <2>1. x = o
    BY <1>2, EndpointAssumption DEF EndpointInv, KernelMemoryHeld
  <2> QED
    BY <1>2, <2>1, EndpointAssumption DEF Sound, Reflects
<1> QED
  BY <1>3, <1>4, <1>5, <1>6 DEF EndpointInv

\* What the worker knows between two steps of an operation that is active.
LEMMA AtRest ==
  ASSUME EndpointInv, NEW o \in Operations, Active(o)
  PROVE  /\ op[o] \in Op /\ kernel[o] \in Kernel /\ op[o].begun /\ ~op[o].disposed
         /\ tick \in Nat /\ Later \subseteq Nat /\ \A t \in Later : tick <= t
         /\ op[o].plan \in Plan /\ op[o].ledger \in LedgerState
         /\ Sound(op[o], kernel[o], tick, endpoint.fatal)
         /\ kernel[o] = "pending" => op[o].event /\ ~endpoint.closed
         /\ kernel = [kernel EXCEPT ![o] = kernel[o]]
  BY EndpointAssumption DEF EndpointInv, TypeOK, Active, Op, Later, KernelMemoryHeld

(***************************************************************************)
(* A call that leaves through _expire and the checks after it.             *)
(***************************************************************************)
LEMMA LeaveKeeps ==
  ASSUME EndpointInv, NEW o \in Operations, Active(o), Usable,
         NEW r \in Op, NEW t \in Later, NEW next \in Call,
         r.begun, ~r.disposed, r.event = op[o].event,
         Counted(r.ledger, t), ~Condemned(r.ledger) => Reflects(r, kernel[o]),
         next.at \in {"poll", "cancel"} => r.pending,
         Leave(o, r, t, next), UNCHANGED kernel
  PROVE  EndpointInv'
<1>1. /\ endpoint \in Endpoint /\ NoCall \in Call
  BY DEF EndpointInv, TypeOK, NoCall, Call
<1>2. /\ op' = [op EXCEPT ![o] = r] /\ tick' = t /\ op'[o] = r
      /\ kernel' = [kernel EXCEPT ![o] = kernel[o]]
  BY AtRest DEF Leave, EndpointInv, TypeOK
<1>3. /\ endpoint' \in Endpoint /\ call' \in Call
      /\ endpoint'.closed = endpoint.closed /\ endpoint'.active = endpoint.active
      /\ Ruined(r, t) => endpoint'.fatal /\ call' = NoCall
      /\ ~Ruined(r, t) => endpoint'.fatal = endpoint.fatal /\ call' = next
  BY <1>1, r.terminal \in BOOLEAN DEF Leave, Endpoint, Op
<1>4. Sound(r, kernel[o], t, endpoint'.fatal)
  BY <1>3 DEF Sound, Ruined
<1>5. CallFits'
  <2>1. \A x \in Operations : Active(x)' => x = o
    BY <1>3 DEF Active
  <2>2. CASE Ruined(r, t)
    BY <1>3, <2>2 DEF CallFits, NoCall
  <2>3. CASE ~Ruined(r, t)
    BY <1>2, <1>3, <2>1, <2>3 DEF CallFits, Usable
  <2> QED
    BY <2>2, <2>3
<1>6. /\ kernel[o] \in Kernel
      /\ kernel[o] = "pending" => op[o].event /\ ~endpoint.closed
  BY AtRest
<1>7. endpoint.active = o /\ o # NoOperation
  BY EndpointAssumption DEF Active
<1> QED
  BY <1>2, <1>3, <1>4, <1>5, <1>6, <1>7, StepKeeps DEF Usable

(***************************************************************************)
(* _contain condemns the endpoint and gives up nothing.                    *)
(***************************************************************************)
LEMMA ContainedKeeps ==
  ASSUME EndpointInv, NEW o \in Operations, Active(o),
         NEW r \in Op, NEW t \in Later, tick' = t,
         r.begun, ~r.disposed, kernel[o] = "pending" => r.event,
         Counted(r.ledger, t),
         Contained(o, r), UNCHANGED kernel
  PROVE  EndpointInv'
<1>1. /\ endpoint \in Endpoint /\ NoCall \in Call
  BY DEF EndpointInv, TypeOK, NoCall, Call
<1>2. /\ op' = [op EXCEPT ![o] = r]
      /\ kernel' = [kernel EXCEPT ![o] = kernel[o]]
  BY AtRest DEF Contained
<1>3. /\ endpoint' \in Endpoint /\ call' = NoCall
      /\ endpoint'.closed = endpoint.closed /\ endpoint'.active = endpoint.active
      /\ endpoint'.fatal
  BY <1>1 DEF Contained, Endpoint
<1>4. Sound(r, kernel[o], t, endpoint'.fatal)
  BY <1>3 DEF Sound
<1>5. CallFits'
  BY <1>3 DEF CallFits, NoCall
<1>6. /\ kernel[o] \in Kernel
      /\ kernel[o] = "pending" => op[o].event /\ ~endpoint.closed
  BY AtRest
<1>7. endpoint.active = o /\ o # NoOperation
  BY EndpointAssumption DEF Active
<1> QED
  BY <1>1, <1>2, <1>3, <1>4, <1>5, <1>6, <1>7, StepKeeps

-----------------------------------------------------------------------------
(* The actions of InCall and of the owner thread between calls *)

(***************************************************************************)
(* _expire keeps a ledger true, whatever the clock shows.                  *)
(***************************************************************************)
LEMMA ExpiredReflects ==
  ASSUME NEW r \in Op, NEW k, NEW now \in Nat, NEW t \in Nat, now <= t,
         Counted(r.ledger, now), ~r.disposed,
         ~Condemned(r.ledger) => Reflects(r, k)
  PROVE  LET e == Expired(r, t) IN
         /\ e \in Op /\ e = [r EXCEPT !.ledger = e.ledger]
         /\ Counted(e.ledger, t)
         /\ ~Condemned(e.ledger) => Reflects(e, k)
         /\ ~Condemned(e.ledger) /\ t >= r.plan.request => e.ledger.suppressed
<1> DEFINE e == Expired(r, t)
<1>1. ~Condemned(r.ledger) => r.ledger.stage \notin {"CREATED", "DISPOSED"}
  BY DEF Reflects
<1>2. /\ e \in Op /\ e = [r EXCEPT !.ledger = e.ledger]
      /\ Counted(e.ledger, t)
      /\ ~Condemned(e.ledger) =>
           /\ ~Condemned(r.ledger)
           /\ e.ledger.stage = r.ledger.stage /\ e.ledger.terminal = r.ledger.terminal
           /\ t >= r.plan.request => e.ledger.suppressed
  BY <1>1, ExpiredFields
<1> HIDE DEF e
<1>3. e.pending = r.pending /\ e.terminal = r.terminal /\ e.disposed = r.disposed
  BY <1>2 DEF Op
<1>4. ~Condemned(e.ledger) => Reflects(e, k)
  BY <1>2, <1>3 DEF Reflects
<1> QED
  BY <1>2, <1>4 DEF e

\* What an operation that is active in an endpoint in use is known to be.
LEMMA InUse ==
  ASSUME EndpointInv, Usable, NEW o \in Operations, Active(o)
  PROVE  /\ Reflects(op[o], kernel[o]) /\ Counted(op[o].ledger, tick)
         /\ ~Condemned(op[o].ledger)
  BY AtRest DEF Sound, Usable

LEMMA DrainTurnKeeps ==
  ASSUME EndpointInv, NEW o \in Operations, NEW t \in Later, DrainTurn(o, t)
  PROVE  EndpointInv'
<1> DEFINE r == Expired(op[o], t)
<1>1. Active(o) /\ Usable /\ UNCHANGED kernel
  BY DEF DrainTurn, EndpointInv, CallFits
<1>2. /\ r \in Op /\ r = [op[o] EXCEPT !.ledger = r.ledger]
      /\ Counted(r.ledger, t)
      /\ ~Condemned(r.ledger) => Reflects(r, kernel[o])
  BY <1>1, AtRest, InUse, ExpiredReflects
<1>3. r.begun /\ ~r.disposed /\ r.event = op[o].event
  <2> HIDE DEF r
  <2> QED
    BY <1>1, <1>2, AtRest DEF Op
<1>4. call \in Call /\ NoCall \in Call /\ MaxIterations \in Nat
  BY EndpointAssumption DEF EndpointInv, TypeOK, NoCall, Call
<1>5. CASE Contained(o, op[o]) /\ UNCHANGED tick
  <2>1. tick \in Later
    BY DEF EndpointInv, TypeOK, Later
  <2> QED
    BY <1>1, <1>5, <2>1, AtRest, InUse, ContainedKeeps
<1>6. CASE Contained(o, r) /\ tick' = t
  BY <1>1, <1>2, <1>3, <1>6, AtRest, ContainedKeeps
<1>7. CASE Leave(o, r, t, IF r.pending /\ t < call.until
                          THEN [call EXCEPT !.at = "poll", !.turn = @ + 1] ELSE NoCall)
  <2> DEFINE next == IF r.pending /\ t < call.until
                     THEN [call EXCEPT !.at = "poll", !.turn = @ + 1] ELSE NoCall
  <2>1. next \in Call
    BY <1>4, call.turn + 1 \in Nat DEF Call
  <2>2. next.at \in {"poll", "cancel"} => r.pending
    BY DEF NoCall
  <2>3. Leave(o, r, t, next)
    BY <1>7
  <2> HIDE DEF next, r
  <2> QED
    BY <1>1, <1>2, <1>3, <2>1, <2>2, <2>3, LeaveKeeps
<1> QED
  BY <1>5, <1>6, <1>7 DEF DrainTurn

LEMMA PollKeeps ==
  ASSUME EndpointInv, NEW o \in Operations, NEW t \in Later, Poll(o, t)
  PROVE  EndpointInv'
<1> DEFINE outcome == IF kernel[o] = "pending" THEN "INCOMPLETE" ELSE kernel[o]
           s == Recorded(op[o].plan, op[o].ledger, "POLL", outcome, t)
           polled == [op[o] EXCEPT !.pending = outcome = "INCOMPLETE",
                                   !.terminal = outcome # "INCOMPLETE", !.ledger = s]
           r == Expired(polled, t)
<1>1. Active(o) /\ Usable /\ UNCHANGED kernel /\ op[o].pending
  BY DEF Poll, EndpointInv, CallFits
<1>2. CASE Contained(o, op[o]) /\ UNCHANGED tick
  <2>1. tick \in Later
    BY DEF EndpointInv, TypeOK, Later
  <2> QED
    BY <1>1, <1>2, <2>1, AtRest, InUse, ContainedKeeps
<1>3. CASE Leave(o, r, t, [call EXCEPT !.at = "top"])
  <2>1. /\ op[o].plan \in Plan /\ op[o].ledger \in LedgerState /\ op[o] \in Op
        /\ tick \in Nat /\ t \in Nat /\ tick <= t /\ op[o].begun /\ ~op[o].disposed
        /\ kernel[o] \in Kernel
    BY <1>1, AtRest
  <2>2. outcome \in {"INCOMPLETE", "SUCCESS", "ERROR", "ABORTED"} /\ op[o].ledger.stage = "PENDING"
    BY <1>1, <2>1, InUse DEF Reflects, Kernel
  <2>3. Legal(op[o].plan, op[o].ledger, "POLL", outcome, t)
    BY <1>1, <2>1, <2>2, InUse DEF Legal, Counted, LedgerState
  <2>4. /\ s \in LedgerState /\ Counted(s, t)
        /\ ~Condemned(s) => s = After(op[o].plan, op[o].ledger, "POLL", outcome, t)
    BY <1>1, <2>1, <2>3, InUse, RecordedTypes, RecordedCounts
  <2>5. polled \in Op
    BY <2>1, <2>4 DEF Op
  <2>6. /\ polled.ledger = s /\ polled.disposed = op[o].disposed /\ polled.begun = op[o].begun
        /\ polled.event = op[o].event
        /\ polled.pending = (outcome = "INCOMPLETE") /\ polled.terminal = (outcome # "INCOMPLETE")
    BY <2>1 DEF Op
  <2>7. ~Condemned(s) =>
          /\ s.stage = IF outcome = "INCOMPLETE" THEN "PENDING" ELSE "TERMINAL"
          /\ s.terminal = IF outcome = "INCOMPLETE" THEN op[o].ledger.terminal ELSE outcome
    BY <2>1, <2>2, <2>4, AfterFields DEF Ends
  <2>8. ~Condemned(s) => Reflects(polled, kernel[o])
    <3> HIDE DEF polled, s
    <3> QED
      BY <1>1, <2>1, <2>6, <2>7, InUse DEF Reflects, Kernel
  <2>9. /\ r \in Op /\ r = [polled EXCEPT !.ledger = r.ledger]
        /\ Counted(r.ledger, t)
        /\ ~Condemned(r.ledger) => Reflects(r, kernel[o])
    <3> HIDE DEF polled
    <3>1. Counted(polled.ledger, t) /\ ~polled.disposed /\ t <= t
      BY <2>1, <2>4, <2>6
    <3>2. ~Condemned(polled.ledger) => Reflects(polled, kernel[o])
      BY <2>6, <2>8
    <3> HIDE DEF s
    <3> QED
      BY <2>1, <2>5, <3>1, <3>2, ExpiredReflects
  <2>10. r.begun /\ ~r.disposed /\ r.event = op[o].event
    <3> HIDE DEF r, polled
    <3> QED
      BY <2>1, <2>5, <2>6, <2>9 DEF Op
  <2>11. [call EXCEPT !.at = "top"] \in Call /\ [call EXCEPT !.at = "top"].at = "top"
    BY DEF EndpointInv, TypeOK, Call
  <2> HIDE DEF r
  <2> QED
    BY <1>1, <1>3, <2>9, <2>10, <2>11, LeaveKeeps
<1> QED
  BY <1>2, <1>3 DEF Poll

LEMMA CancelKeeps ==
  ASSUME EndpointInv, NEW o \in Operations, NEW t \in Later, Cancel(o, t)
  PROVE  EndpointInv'
<1> DEFINE given_up == [op[o] EXCEPT !.cancelled = TRUE]
           r == Expired(given_up, t)
           next == IF r.pending
                   THEN [at |-> "cancel", until |-> r.plan.cleanup, turn |-> 0] ELSE NoCall
<1>1. Active(o) /\ Usable /\ UNCHANGED kernel /\ Leave(o, r, t, next)
  BY DEF Cancel, Free
<1>2. /\ given_up \in Op /\ given_up.ledger = op[o].ledger /\ given_up.disposed = op[o].disposed
      /\ given_up.pending = op[o].pending /\ given_up.terminal = op[o].terminal
      /\ given_up.begun = op[o].begun /\ given_up.event = op[o].event
  BY <1>1, AtRest DEF Op
<1> HIDE DEF given_up
<1>3. Reflects(given_up, kernel[o]) /\ Counted(given_up.ledger, tick) /\ ~given_up.disposed
  BY <1>1, <1>2, InUse, AtRest DEF Reflects
<1>4. /\ r \in Op /\ r = [given_up EXCEPT !.ledger = r.ledger]
      /\ Counted(r.ledger, t)
      /\ ~Condemned(r.ledger) => Reflects(r, kernel[o])
  BY <1>1, <1>2, <1>3, AtRest, ExpiredReflects
<1> HIDE DEF r
<1>5. r.begun /\ ~r.disposed /\ r.event = op[o].event
  BY <1>1, <1>2, <1>4, AtRest DEF Op
<1>6. next \in Call /\ (next.at \in {"poll", "cancel"} => r.pending)
  BY <1>4 DEF Call, Op, Plan, NoCall
<1> HIDE DEF next
<1> QED
  BY <1>1, <1>4, <1>5, <1>6, LeaveKeeps

LEMMA CancelCallKeeps ==
  ASSUME EndpointInv, NEW o \in Operations, NEW t \in Later,
         NEW outcome \in {"CANCEL_ACCEPTED", "NOT_FOUND", "CANCEL_FAILED"},
         CancelCall(o, outcome, t)
  PROVE  EndpointInv'
<1> DEFINE s == Recorded(op[o].plan, op[o].ledger, "CANCEL", outcome, t)
           r == [op[o] EXCEPT !.ledger = s]
<1>1. Active(o) /\ Usable /\ UNCHANGED kernel /\ op[o].pending
  BY DEF CancelCall, EndpointInv, CallFits
<1>2. CASE Contained(o, op[o]) /\ UNCHANGED tick
  <2>1. tick \in Later
    BY DEF EndpointInv, TypeOK, Later
  <2> QED
    BY <1>1, <1>2, <2>1, AtRest, InUse, ContainedKeeps
<1>3. CASE Leave(o, r, t, [call EXCEPT !.at = "poll"])
  <2>1. /\ op[o].plan \in Plan /\ op[o].ledger \in LedgerState /\ op[o] \in Op
        /\ tick \in Nat /\ t \in Nat /\ tick <= t /\ op[o].begun /\ ~op[o].disposed
    BY <1>1, AtRest
  <2>2. Legal(op[o].plan, op[o].ledger, "CANCEL", outcome, t)
    BY <1>1, <2>1, InUse DEF Legal, Counted, LedgerState, Reflects
  <2>3. /\ s \in LedgerState /\ Counted(s, t)
        /\ ~Condemned(s) => s = After(op[o].plan, op[o].ledger, "CANCEL", outcome, t)
    BY <1>1, <2>1, <2>2, InUse, RecordedTypes, RecordedCounts
  <2>4. ~Condemned(s) => s.stage = op[o].ledger.stage /\ s.terminal = op[o].ledger.terminal
    BY <2>1, <2>3, AfterFields DEF Ends
  <2>5. /\ r \in Op /\ r.ledger = s /\ r.disposed = op[o].disposed /\ r.begun = op[o].begun
        /\ r.event = op[o].event /\ r.pending = op[o].pending /\ r.terminal = op[o].terminal
    BY <2>1, <2>3 DEF Op
  <2> HIDE DEF r, s
  <2>6. ~Condemned(r.ledger) => Reflects(r, kernel[o])
    BY <1>1, <2>4, <2>5, InUse DEF Reflects
  <2>7. [call EXCEPT !.at = "poll"] \in Call
    BY DEF EndpointInv, TypeOK, Call
  <2>8. Counted(r.ledger, t) /\ r.begun /\ ~r.disposed /\ r.pending
    BY <1>1, <2>1, <2>3, <2>5
  <2> QED
    BY <1>1, <1>3, <2>5, <2>6, <2>7, <2>8, LeaveKeeps
<1> QED
  BY <1>2, <1>3 DEF CancelCall

LEMMA ResultBytesKeeps ==
  ASSUME EndpointInv, NEW o \in Operations, NEW t \in Later, ResultBytes(o, t)
  PROVE  EndpointInv'
<1> DEFINE e == Expired(op[o], t)
<1>1. PICK given \in BOOLEAN : Leave(o, [e EXCEPT !.given = given], t, call)
  <2> DEFINE available == ~e.cancelled /\ ResultAvailable(e.ledger) /\ e.terminal /\ ~e.pending
  <2>1. Leave(o, [e EXCEPT !.given = @ \/ (available /\ ~Ruined(e, t))], t, call)
    BY DEF ResultBytes
  <2>2. Leave(o, [e EXCEPT !.given = (e.given \/ (available /\ ~Ruined(e, t)))], t, call)
    BY <2>1
  <2>3. (e.given \/ (available /\ ~Ruined(e, t))) \in BOOLEAN
    OBVIOUS
  <2> QED
    BY <2>2, <2>3
<1> DEFINE r == [e EXCEPT !.given = given]
<1>2. Active(o) /\ Usable /\ UNCHANGED kernel /\ call.at = "none" /\ call \in Call
  BY DEF ResultBytes, Free, EndpointInv, TypeOK
<1>3. /\ e \in Op /\ e = [op[o] EXCEPT !.ledger = e.ledger]
      /\ Counted(e.ledger, t)
      /\ ~Condemned(e.ledger) => Reflects(e, kernel[o])
  BY <1>2, AtRest, InUse, ExpiredReflects
<1> HIDE DEF e
<1>4. e.begun /\ ~e.disposed /\ e.event = op[o].event
  BY <1>2, <1>3, AtRest DEF Op
<1>5. /\ r \in Op /\ r.ledger = e.ledger /\ r.disposed = e.disposed /\ r.begun = e.begun
      /\ r.event = e.event /\ r.pending = e.pending /\ r.terminal = e.terminal
  BY <1>3 DEF Op
<1>6. ~Condemned(r.ledger) => Reflects(r, kernel[o])
  BY <1>3, <1>5 DEF Reflects
<1> HIDE DEF r
<1> QED
  BY <1>1, <1>2, <1>3, <1>4, <1>5, <1>6, LeaveKeeps DEF r

LEMMA DisposeKeeps ==
  ASSUME EndpointInv, NEW o \in Operations, NEW t \in Later, Dispose(o, t)
  PROVE  EndpointInv'
<1> DEFINE s == Recorded(op[o].plan, op[o].ledger, "DISPOSE", "NONE", t)
           r == [op[o] EXCEPT !.event = FALSE, !.ledger = s]
           d == [r EXCEPT !.disposed = TRUE]
<1>1. /\ Active(o) /\ Usable /\ call.at = "none" /\ UNCHANGED kernel /\ tick' = t
      /\ ~op[o].pending /\ op[o].terminal
  BY DEF Dispose, CanDispose, Free
<1>2. /\ op[o].plan \in Plan /\ op[o].ledger \in LedgerState /\ op[o] \in Op
      /\ tick \in Nat /\ t \in Nat /\ tick <= t /\ op[o].begun /\ ~op[o].disposed
      /\ kernel[o] \in Kernel /\ kernel = [kernel EXCEPT ![o] = kernel[o]]
  BY <1>1, AtRest
<1>3. kernel[o] # "pending" /\ op[o].ledger.stage = "TERMINAL"
  BY <1>1, <1>2, InUse DEF Reflects
<1>4. Legal(op[o].plan, op[o].ledger, "DISPOSE", "NONE", t)
  BY <1>1, <1>2, <1>3, InUse DEF Legal, Counted, LedgerState
<1>5. /\ s \in LedgerState /\ Counted(s, t)
      /\ ~Condemned(s) => s = After(op[o].plan, op[o].ledger, "DISPOSE", "NONE", t)
  BY <1>1, <1>2, <1>4, InUse, RecordedTypes, RecordedCounts
<1>6. ~Condemned(s) => s.stage = "DISPOSED" /\ s.terminal = op[o].ledger.terminal
  BY <1>2, <1>5, AfterFields DEF Ends
<1>7. /\ r \in Op /\ r.ledger = s /\ r.disposed = op[o].disposed /\ r.begun = op[o].begun
  BY <1>2, <1>5 DEF Op
<1>8. /\ d \in Op /\ d.ledger = s /\ d.disposed /\ d.begun = op[o].begun
      /\ d.pending = op[o].pending /\ d.terminal = op[o].terminal
  BY <1>2, <1>5 DEF Op
<1> HIDE DEF s
<1>9. CASE Contained(o, r)
  <2> HIDE DEF r, d
  <2> QED
    BY <1>1, <1>2, <1>3, <1>5, <1>7, <1>9, ContainedKeeps
<1>10. CASE ~Ruined(r, t) /\ op' = [op EXCEPT ![o] = d]
            /\ endpoint' = [endpoint EXCEPT !.active = NoOperation] /\ UNCHANGED call
  <2>1. ~Condemned(s)
    BY <1>7, <1>10 DEF Ruined
  <2> HIDE DEF d
  <2>2. Reflects(d, kernel[o])
    BY <1>1, <1>3, <1>6, <1>8, <2>1, InUse DEF Reflects
  <2>3. /\ endpoint' \in Endpoint /\ endpoint'.closed = endpoint.closed
        /\ endpoint'.fatal = endpoint.fatal /\ endpoint'.active = NoOperation
    BY <1>10 DEF EndpointInv, TypeOK, Endpoint
  <2>4. Sound(d, kernel[o], t, endpoint'.fatal)
    BY <1>2, <1>5, <1>8, <2>1, <2>2 DEF Sound
  <2>5. call' \in Call /\ CallFits'
    BY <1>1, <1>10 DEF EndpointInv, TypeOK, CallFits
  <2> QED
    BY <1>1, <1>2, <1>3, <1>8, <1>10, <2>3, <2>4, <2>5, StepKeeps DEF Active
<1> QED
  BY <1>9, <1>10 DEF Dispose, s

LEMMA FailureKeeps ==
  ASSUME EndpointInv, NEW o \in Operations,
         DisposeContained(o) \/ PollContained(o) \/ CancelContained(o)
  PROVE  EndpointInv'
<1>1. Active(o) /\ Usable /\ Contained(o, op[o]) /\ tick' = tick /\ UNCHANGED kernel
  BY DEF DisposeContained, PollContained, CancelContained, CanDispose, Free, EndpointInv, CallFits
<1>2. tick \in Later
  BY DEF EndpointInv, TypeOK, Later
<1>3. /\ op[o] \in Op /\ op[o].begun /\ ~op[o].disposed
      /\ kernel[o] = "pending" => op[o].event
      /\ Counted(op[o].ledger, tick)
  BY <1>1, AtRest, InUse
<1> QED
  BY <1>1, <1>2, <1>3, ContainedKeeps

-----------------------------------------------------------------------------
(* The first step of an operation, and the steps of kernel, clock and      *)
(* owner that touch no operation.                                          *)

\* Before its first step, and while no operation is active.
LEMMA Fresh ==
  ASSUME EndpointInv, NEW o \in Operations, NEW p \in Plans, CanBegin(o, p)
  PROVE  /\ Usable /\ call.at = "none" /\ endpoint.active = NoOperation /\ kernel[o] = "none"
         /\ p \in Plan /\ tick \in Nat /\ Later \subseteq Nat /\ \A t \in Later : tick <= t
         /\ New(p) \in Op /\ New(p).plan = p /\ New(p).begun /\ ~New(p).disposed
         /\ ~New(p).pending /\ ~New(p).terminal /\ ~New(p).event
         /\ New(p).ledger = Created(tick) /\ Created(tick) \in LedgerState
         /\ Counted(Created(tick), tick) /\ ~Condemned(Created(tick))
         /\ kernel = [kernel EXCEPT ![o] = kernel[o]]
         /\ \A k \in Kernel : kernel' = [kernel EXCEPT ![o] = k] => kernel'[o] = k
<1>1. p \in Plan /\ tick \in Nat /\ Later \subseteq Nat /\ \A t \in Later : tick <= t
  BY EndpointAssumption DEF EndpointInv, TypeOK, Later
<1>2. /\ Created(tick) \in LedgerState /\ Counted(Created(tick), tick)
      /\ ~Condemned(Created(tick))
  BY <1>1, LedgerAssumption DEF Created, LedgerState, Counted, Condemned
<1>3. /\ New(p) \in Op /\ New(p).plan = p /\ New(p).begun /\ ~New(p).disposed
      /\ ~New(p).pending /\ ~New(p).terminal /\ ~New(p).event
      /\ New(p).ledger = Created(tick)
  <2>1. Created(0) \in LedgerState /\ [kind |-> "CONNECT", request |-> 0, cleanup |-> 1] \in Plan
    BY DEF Created, LedgerState, Plan, Kinds
  <2> QED
    BY <1>1, <1>2, <2>1 DEF New, Unused, Op
<1>4. kernel[o] = "none"
  BY DEF CanBegin, EndpointInv, Sound
<1> QED
  BY <1>1, <1>2, <1>3, <1>4 DEF CanBegin, Free, EndpointInv, TypeOK

(***************************************************************************)
(* An operation that starts as r while the kernel is left with k.          *)
(***************************************************************************)
LEMMA StartKeeps ==
  ASSUME EndpointInv, NEW o \in Operations, NEW p \in Plans, CanBegin(o, p),
         NEW r \in Op, NEW k \in Kernel, NEW fatal \in BOOLEAN, NEW connected \in BOOLEAN,
         NEW t \in Later, tick' = t,
         Start(o, p, r, fatal, connected), kernel' = [kernel EXCEPT ![o] = k],
         r.begun, ~r.disposed, k = "pending" => r.event,
         Counted(r.ledger, t), ~fatal => ~Condemned(r.ledger) /\ Reflects(r, k)
  PROVE  EndpointInv'
<1>1. /\ Usable /\ call.at = "none" /\ endpoint.active = NoOperation /\ p \in Plan
      /\ endpoint \in Endpoint /\ call \in Call
  BY Fresh DEF EndpointInv, TypeOK
<1>2. /\ op' = [op EXCEPT ![o] = r] /\ call' = call
      /\ endpoint' \in Endpoint /\ endpoint'.active = o /\ endpoint'.fatal = fatal
      /\ endpoint'.closed = endpoint.closed
  BY <1>1, (p.kind = "CONNECT") \in BOOLEAN DEF Start, Endpoint
<1>3. Sound(r, k, t, endpoint'.fatal)
  BY <1>2 DEF Sound
<1>4. CallFits' /\ o # NoOperation
  BY <1>1, <1>2, EndpointAssumption DEF CallFits
<1> QED
  BY <1>1, <1>2, <1>3, <1>4, StepKeeps DEF Usable

LEMMA SubmitKeeps ==
  ASSUME EndpointInv, NEW o \in Operations, NEW p \in Plans,
         NEW outcome \in {"SUCCESS", "PENDING", "ERROR"}, NEW t \in Later, NEW u \in Later,
         Submit(o, p, outcome, t, u)
  PROVE  EndpointInv'
<1> DEFINE s == Recorded(p, New(p).ledger, "SUBMIT", outcome, t)
           sent == [New(p) EXCEPT !.event = TRUE, !.pending = outcome = "PENDING",
                                  !.terminal = outcome # "PENDING", !.ledger = s]
           r == Expired(sent, u)
           k == IF outcome = "PENDING" THEN "pending" ELSE outcome
<1>0. CanBegin(o, p) /\ t < p.request /\ t <= u
  BY DEF Submit
<1>1. /\ p \in Plan /\ p.request \in Nat /\ tick \in Nat /\ t \in Nat /\ u \in Nat /\ tick <= t
      /\ New(p) \in Op /\ New(p).ledger = Created(tick) /\ Created(tick) \in LedgerState
      /\ Counted(Created(tick), tick) /\ New(p).begun /\ ~New(p).disposed
  BY <1>0, Fresh DEF Plan
<1>2. k \in Kernel
  BY DEF Kernel
<1>3. Legal(p, Created(tick), "SUBMIT", outcome, t)
  BY <1>0, <1>1 DEF Legal, Created
<1>4. /\ s \in LedgerState /\ Counted(s, t)
      /\ ~Condemned(s) => s = After(p, Created(tick), "SUBMIT", outcome, t)
  BY <1>1, <1>3, RecordedTypes, RecordedCounts
<1>5. ~Condemned(s) =>
        /\ s.stage = IF outcome = "PENDING" THEN "PENDING" ELSE "TERMINAL"
        /\ s.terminal = IF outcome = "PENDING" THEN "NONE" ELSE outcome
  BY <1>1, <1>4, AfterFields DEF Ends, Created
<1>6. /\ sent \in Op /\ sent.ledger = s /\ ~sent.disposed /\ sent.begun /\ sent.event
      /\ sent.pending = (outcome = "PENDING") /\ sent.terminal = (outcome # "PENDING")
  BY <1>1, <1>4 DEF Op
<1> HIDE DEF s, sent
<1>7. ~Condemned(sent.ledger) => Reflects(sent, k)
  BY <1>5, <1>6 DEF Reflects
<1>8. Counted(sent.ledger, t) /\ ~sent.disposed
  BY <1>4, <1>6
<1> HIDE DEF k
<1>9. /\ r \in Op /\ r = [sent EXCEPT !.ledger = r.ledger]
      /\ Counted(r.ledger, u)
      /\ ~Condemned(r.ledger) => Reflects(r, k)
  BY <1>0, <1>1, <1>6, <1>7, <1>8, ExpiredReflects
<1>10. Start(o, p, r, Ruined(r, u), p.kind = "CONNECT" /\ outcome = "SUCCESS" /\ ~Ruined(r, u))
  BY DEF Submit, sent, s
<1>11. kernel' = [kernel EXCEPT ![o] = k] /\ tick' = u
  BY DEF Submit, k
<1> HIDE DEF r
<1>12. r.begun /\ ~r.disposed /\ r.event
  BY <1>6, <1>9 DEF Op
<1>13. ~Ruined(r, u) => ~Condemned(r.ledger)
  BY DEF Ruined
<1>14. /\ Ruined(r, u) \in BOOLEAN
       /\ (p.kind = "CONNECT" /\ outcome = "SUCCESS" /\ ~Ruined(r, u)) \in BOOLEAN
  BY DEF Ruined
<1> QED
  BY <1>0, <1>2, <1>9, <1>10, <1>11, <1>12, <1>13, <1>14, StartKeeps

LEMMA SubmitTooLateKeeps ==
  ASSUME EndpointInv, NEW o \in Operations, NEW p \in Plans, NEW t \in Later,
         SubmitTooLate(o, p, t)
  PROVE  EndpointInv'
<1> DEFINE late == [New(p) EXCEPT !.event = TRUE, !.terminal = TRUE]
           r == Expired(late, t)
<1>1. CanBegin(o, p) /\ t >= p.request /\ tick' = t /\ UNCHANGED kernel
  BY DEF SubmitTooLate
<1>2. /\ New(p) \in Op /\ New(p).ledger = Created(tick) /\ New(p).plan = p
      /\ Counted(Created(tick), tick) /\ New(p).begun /\ ~New(p).disposed /\ ~New(p).pending
      /\ tick \in Nat /\ t \in Nat /\ tick <= t /\ kernel[o] = "none"
      /\ kernel = [kernel EXCEPT ![o] = "none"]
  BY <1>1, Fresh
<1>3. /\ late \in Op /\ late.ledger = Created(tick) /\ late.plan = p /\ late.begun
      /\ ~late.disposed /\ ~late.pending /\ late.terminal
  BY <1>2 DEF Op
<1> HIDE DEF late
<1>4. Created(tick).stage = "CREATED"
  BY DEF Created
<1>5. /\ r \in Op /\ r = [late EXCEPT !.ledger = r.ledger]
      /\ Counted(r.ledger, t)
      /\ ~Condemned(r.ledger) => r.ledger.stage = "TERMINAL" /\ r.ledger.terminal = "NOT_SUBMITTED"
  <2>1. late \in Op /\ tick \in Nat /\ t \in Nat /\ tick <= t /\ Counted(late.ledger, tick)
        /\ late.ledger.stage = "CREATED" /\ t >= late.plan.request
    BY <1>1, <1>2, <1>3, <1>4
  <2> QED
    BY <2>1, ExpiredFields
<1>6. Start(o, p, r, Ruined(r, t), FALSE)
  BY DEF SubmitTooLate, late
<1> HIDE DEF r
<1>7. r.begun /\ ~r.disposed /\ ~r.pending /\ r.terminal
  BY <1>3, <1>5 DEF Op
<1>8. ~Ruined(r, t) => ~Condemned(r.ledger) /\ Reflects(r, "none")
  BY <1>5, <1>7 DEF Ruined, Reflects
<1>9. Ruined(r, t) \in BOOLEAN /\ "none" \in Kernel /\ kernel' = [kernel EXCEPT ![o] = "none"]
  BY <1>1, <1>2 DEF Ruined, Kernel
<1>10. r \in Op /\ Counted(r.ledger, t)
  BY <1>5
<1>11. PICK fatal \in BOOLEAN : fatal = Ruined(r, t)
  BY <1>9
<1>12. /\ CanBegin(o, p) /\ tick' = t /\ Start(o, p, r, fatal, FALSE)
       /\ "none" \in Kernel /\ kernel' = [kernel EXCEPT ![o] = "none"]
       /\ r \in Op /\ r.begun /\ ~r.disposed /\ Counted(r.ledger, t)
       /\ ~fatal => ~Condemned(r.ledger) /\ Reflects(r, "none")
  BY <1>1, <1>6, <1>7, <1>8, <1>9, <1>10, <1>11
<1> QED
  BY <1>12, StartKeeps

LEMMA SubmitContainedKeeps ==
  ASSUME EndpointInv, NEW o \in Operations, NEW p \in Plans, SubmitContained(o, p)
  PROVE  EndpointInv'
<1>1. CanBegin(o, p) /\ tick' = tick /\ tick \in Later
  BY DEF SubmitContained, EndpointInv, TypeOK, Later
<1>2. /\ New(p) \in Op /\ New(p).ledger = Created(tick) /\ New(p).begun /\ ~New(p).disposed
      /\ Counted(Created(tick), tick) /\ kernel[o] = "none"
      /\ kernel = [kernel EXCEPT ![o] = "none"]
  BY <1>1, Fresh
<1>3. CASE \E made \in BOOLEAN : Start(o, p, [New(p) EXCEPT !.event = made], TRUE, FALSE)
                                 /\ UNCHANGED kernel
  <2>1. PICK made \in BOOLEAN : Start(o, p, [New(p) EXCEPT !.event = made], TRUE, FALSE)
    BY <1>3
  <2> DEFINE r == [New(p) EXCEPT !.event = made]
  <2>2. /\ r \in Op /\ r.ledger = Created(tick) /\ r.begun /\ ~r.disposed
    BY <1>2 DEF Op
  <2>3. kernel' = [kernel EXCEPT ![o] = "none"] /\ "none" \in Kernel
    BY <1>2, <1>3 DEF Kernel
  <2>4. Start(o, p, r, TRUE, FALSE)
    BY <2>1
  <2> HIDE DEF r
  <2>5. /\ CanBegin(o, p) /\ tick' = tick /\ tick \in Later /\ Start(o, p, r, TRUE, FALSE)
        /\ "none" \in Kernel /\ kernel' = [kernel EXCEPT ![o] = "none"]
        /\ r \in Op /\ r.begun /\ ~r.disposed /\ Counted(r.ledger, tick)
    BY <1>1, <1>2, <2>2, <2>3, <2>4
  <2> QED
    BY <2>5, StartKeeps
<1>4. CASE /\ Start(o, p, [New(p) EXCEPT !.event = TRUE, !.pending = TRUE], TRUE, FALSE)
           /\ \E k \in {"none", "pending"} : kernel' = [kernel EXCEPT ![o] = k]
  <2> DEFINE r == [New(p) EXCEPT !.event = TRUE, !.pending = TRUE]
  <2>1. PICK k \in {"none", "pending"} : kernel' = [kernel EXCEPT ![o] = k]
    BY <1>4
  <2>2. r \in Op /\ r.ledger = Created(tick) /\ r.begun /\ ~r.disposed /\ r.event
    BY <1>2 DEF Op
  <2>3. k \in Kernel
    BY DEF Kernel
  <2>4. Start(o, p, r, TRUE, FALSE)
    BY <1>4
  <2> HIDE DEF r
  <2> QED
    BY <1>1, <1>2, <2>1, <2>2, <2>3, <2>4, StartKeeps
<1> QED
  BY <1>3, <1>4 DEF SubmitContained

LEMMA KernelCompletesKeeps ==
  ASSUME EndpointInv, NEW o \in Operations, NEW outcome \in {"SUCCESS", "ERROR", "ABORTED"},
         KernelCompletes(o, outcome)
  PROVE  EndpointInv'
<1>1. /\ kernel[o] = "pending" /\ kernel' = [kernel EXCEPT ![o] = outcome]
      /\ tick' = tick /\ op' = op /\ endpoint' = endpoint /\ call' = call
  BY DEF KernelCompletes
<1>2. TypeOK'
  BY <1>1 DEF EndpointInv, TypeOK, Kernel
<1>3. \A x \in Operations : kernel'[x] = IF x = o THEN outcome ELSE kernel[x]
  BY <1>1 DEF EndpointInv, TypeOK
<1>4. KernelMemoryHeld' /\ CallFits'
  BY <1>1, <1>3 DEF EndpointInv, KernelMemoryHeld, CallFits, Active, Usable
<1>5. \A x \in Operations : Sound(op'[x], kernel'[x], tick', endpoint'.fatal)
  <2> TAKE x \in Operations
  <2>1. Sound(op[x], kernel[x], tick, endpoint.fatal)
    BY DEF EndpointInv
  <2>2. Reflects(op[x], kernel[x]) => Reflects(op[x], kernel'[x])
    BY <1>1, <1>3 DEF Reflects
  <2> QED
    BY <1>1, <1>3, <2>1, <2>2 DEF Sound
<1> QED
  BY <1>1, <1>2, <1>4, <1>5 DEF EndpointInv

LEMMA IdleKeeps ==
  ASSUME EndpointInv,
         Tick \/ Close \/ \E o \in Operations, until \in 0..MaxTick : WaitUntil(o, until)
  PROVE  EndpointInv'
<1>1. CASE Tick
  <2>1. TypeOK' /\ tick \in Nat /\ tick' = tick + 1
    BY <1>1, EndpointAssumption DEF Tick, EndpointInv, TypeOK
  <2>2. \A o \in Operations : Sound(op'[o], kernel'[o], tick', endpoint'.fatal)
    <3> TAKE o \in Operations
    <3>1. Sound(op[o], kernel[o], tick, endpoint.fatal) /\ op[o].ledger \in LedgerState
      BY DEF EndpointInv, TypeOK, Op
    <3>2. Counted(op[o].ledger, tick')
      BY <2>1, <3>1 DEF Sound, Counted, LedgerState
    <3> QED
      BY <1>1, <3>1, <3>2 DEF Tick, Sound
  <2> QED
    BY <1>1, <2>1, <2>2 DEF Tick, EndpointInv, KernelMemoryHeld, CallFits, Active, Usable
<1>2. CASE Close
  <2>1. /\ endpoint' \in Endpoint /\ endpoint'.active = endpoint.active
        /\ endpoint.active = NoOperation /\ call.at = "none" /\ ~endpoint.fatal
        /\ tick' = tick /\ op' = op /\ kernel' = kernel /\ call' = call
    BY <1>2 DEF Close, Free, Usable, EndpointInv, TypeOK, Endpoint
  <2>2. \A o \in Operations : Sound(op'[o], kernel'[o], tick', endpoint'.fatal)
    BY <2>1 DEF EndpointInv, Sound
  <2>3. TypeOK' /\ CallFits'
    BY <2>1 DEF EndpointInv, TypeOK, CallFits
  <2>4. KernelMemoryHeld'
    BY <2>1, EndpointAssumption DEF EndpointInv, KernelMemoryHeld
  <2> QED
    BY <2>1, <2>2, <2>3, <2>4 DEF EndpointInv
<1>3. CASE \E o \in Operations, until \in 0..MaxTick : WaitUntil(o, until)
  <2>1. PICK until \in 0..MaxTick : /\ Usable
                                    /\ call' = [at |-> "top", until |-> until, turn |-> 0]
                                    /\ tick' = tick /\ op' = op /\ kernel' = kernel
                                    /\ endpoint' = endpoint
    BY <1>3 DEF WaitUntil, Free
  <2>2. call' \in Call /\ call'.at = "top"
    BY <2>1, EndpointAssumption DEF Call
  <2>3. CallFits'
    BY <2>1, <2>2 DEF CallFits, Usable
  <2> QED
    BY <2>1, <2>2, <2>3 DEF EndpointInv, TypeOK, KernelMemoryHeld
<1> QED
  BY <1>1, <1>2, <1>3

-----------------------------------------------------------------------------
(* What follows *)

LEMMA EndpointStarts == Init => EndpointInv
<1> SUFFICES ASSUME Init PROVE EndpointInv
  OBVIOUS
<1>1. Created(0) \in LedgerState /\ [kind |-> "CONNECT", request |-> 0, cleanup |-> 1] \in Plan
  BY DEF Created, LedgerState, Plan, Kinds
<1>2. Unused \in Op
  BY <1>1 DEF Unused, Op
<1>3. TypeOK
  BY <1>2, EndpointAssumption DEF Init, TypeOK, Endpoint, Kernel, NoCall, Call
<1>4. \A o \in Operations : Sound(op[o], kernel[o], tick, endpoint.fatal)
  BY LedgerAssumption DEF Init, Sound, Unused, Created, Counted, Condemned
<1> QED
  BY <1>3, <1>4, EndpointAssumption DEF EndpointInv, Init, CallFits, NoCall, KernelMemoryHeld

LEMMA EndpointSteps == EndpointInv /\ [Next]_vars => EndpointInv'
<1> SUFFICES ASSUME EndpointInv, [Next]_vars PROVE EndpointInv'
  OBVIOUS
<1>1. CASE UNCHANGED vars
  BY <1>1 DEF vars, EndpointInv, TypeOK, KernelMemoryHeld, CallFits, Active, Usable
<1>2. CASE Next
  BY <1>2, IdleKeeps, DrainTurnKeeps, PollKeeps, CancelCallKeeps, SubmitContainedKeeps,
     SubmitTooLateKeeps, SubmitKeeps, KernelCompletesKeeps, CancelKeeps, ResultBytesKeeps,
     DisposeKeeps, FailureKeeps
  DEF Next, InCall
<1> QED
  BY <1>1, <1>2

LEMMA EndpointAlways == Spec => []EndpointInv
  BY EndpointStarts, EndpointSteps, PTL DEF Spec

(***************************************************************************)
(* The records of endpoint, operations and calls keep their types.         *)
(***************************************************************************)
THEOREM EndpointTypes == Spec => []TypeOK
<1>1. EndpointInv => TypeOK
  BY DEF EndpointInv
<1> QED
  BY <1>1, EndpointAlways, PTL

(***************************************************************************)
(* Nothing the kernel may still write to is given up: not by an answer, a  *)
(* deadline, a failed native call, a disposal or a close.                  *)
(***************************************************************************)
THEOREM KernelMemoryIsHeld == Spec => []KernelMemoryHeld
<1>1. EndpointInv => KernelMemoryHeld
  BY DEF EndpointInv
<1> QED
  BY <1>1, EndpointAlways, PTL

(***************************************************************************)
(* The adapter never sends its ledger an event that is out of order, and   *)
(* short of containment the ledger says what happened.                     *)
(***************************************************************************)
THEOREM LedgersAreTrue == Spec => []LedgerIsTrue
<1>1. EndpointInv => LedgerIsTrue
  BY DEF EndpointInv, LedgerIsTrue, Sound, Counted, Reflects
<1> QED
  BY <1>1, EndpointAlways, PTL

-----------------------------------------------------------------------------
(* Results *)

\* _expire gives nothing.
LEMMA ExpiredUntold ==
  ASSUME NEW r \in Op, NEW t
  PROVE  Expired(r, t).given = r.given
  BY DEF Expired, Op

(***************************************************************************)
(* A call that is neither a new submission nor result_bytes gives none.    *)
(***************************************************************************)
LEMMA OthersUntold ==
  ASSUME TypeOK, NEW o \in Operations, NEW t \in Later,
         \/ DrainTurn(o, t) \/ Poll(o, t) \/ Cancel(o, t) \/ Dispose(o, t)
         \/ \E x \in {"CANCEL_ACCEPTED", "NOT_FOUND", "CANCEL_FAILED"} : CancelCall(o, x, t)
         \/ DisposeContained(o) \/ PollContained(o) \/ CancelContained(o)
  PROVE  \A x \in Operations : op'[x].given => op[x].given
<1>1. op[o] \in Op
  BY DEF TypeOK
<1>2. ASSUME NEW r, r.given = op[o].given, op' = [op EXCEPT ![o] = r]
      PROVE  \A x \in Operations : op'[x].given => op[x].given
  BY <1>2 DEF TypeOK
<1>3. CASE DrainTurn(o, t)
  <2>1. op' = [op EXCEPT ![o] = op[o]] \/ op' = [op EXCEPT ![o] = Expired(op[o], t)]
    BY <1>3 DEF DrainTurn, Contained, Leave
  <2> QED
    BY <1>1, <1>2, <2>1, ExpiredUntold
<1>4. CASE Poll(o, t)
  <2> DEFINE outcome == IF kernel[o] = "pending" THEN "INCOMPLETE" ELSE kernel[o]
             s == Recorded(op[o].plan, op[o].ledger, "POLL", outcome, t)
             polled == [op[o] EXCEPT !.pending = outcome = "INCOMPLETE",
                                     !.terminal = outcome # "INCOMPLETE", !.ledger = s]
  <2>1. op' = [op EXCEPT ![o] = op[o]] \/ op' = [op EXCEPT ![o] = Expired(polled, t)]
    BY <1>4 DEF Poll, Contained, Leave
  <2>2. polled.given = op[o].given
    BY <1>1 DEF Op
  <2>3. Expired(polled, t).given = polled.given
    BY <1>1 DEF Expired, Op
  <2> HIDE DEF polled
  <2> QED
    BY <1>2, <2>1, <2>2, <2>3
<1>5. CASE Cancel(o, t)
  <2> DEFINE r == [op[o] EXCEPT !.cancelled = TRUE]
  <2>1. op' = [op EXCEPT ![o] = Expired(r, t)]
    BY <1>5 DEF Cancel, Leave
  <2>2. r \in Op /\ r.given = op[o].given
    BY <1>1 DEF Op
  <2> HIDE DEF r
  <2> QED
    BY <1>2, <2>1, <2>2, ExpiredUntold
<1>6. CASE Dispose(o, t)
  <2> DEFINE s == Recorded(op[o].plan, op[o].ledger, "DISPOSE", "NONE", t)
             r == [op[o] EXCEPT !.event = FALSE, !.ledger = s]
             d == [r EXCEPT !.disposed = TRUE]
  <2>1. op' = [op EXCEPT ![o] = r] \/ op' = [op EXCEPT ![o] = d]
    BY <1>6 DEF Dispose, Contained
  <2>2. r.given = op[o].given /\ d.given = op[o].given
    BY <1>1 DEF Op
  <2> HIDE DEF r, d
  <2> QED
    BY <1>2, <2>1, <2>2
<1>7. ASSUME NEW x, CancelCall(o, x, t)
      PROVE  \A y \in Operations : op'[y].given => op[y].given
  <2> DEFINE s == Recorded(op[o].plan, op[o].ledger, "CANCEL", x, t)
             r == [op[o] EXCEPT !.ledger = s]
  <2>1. op' = [op EXCEPT ![o] = op[o]] \/ op' = [op EXCEPT ![o] = r]
    BY <1>7 DEF CancelCall, Contained, Leave
  <2>2. r.given = op[o].given
    BY <1>1 DEF Op
  <2> HIDE DEF r
  <2> QED
    BY <1>2, <2>1, <2>2
<1>8. CASE DisposeContained(o) \/ PollContained(o) \/ CancelContained(o)
  BY <1>2, <1>8 DEF DisposeContained, PollContained, CancelContained, Contained
<1> QED
  BY <1>3, <1>4, <1>5, <1>6, <1>7, <1>8

\* A new operation has given nothing.
LEMMA StartsUntold ==
  ASSUME TypeOK, NEW o \in Operations, NEW p \in Plans,
         \/ SubmitContained(o, p)
         \/ \E t \in Later :
              \/ SubmitTooLate(o, p, t)
              \/ \E x \in {"SUCCESS", "PENDING", "ERROR"}, u \in Later : Submit(o, p, x, t, u)
  PROVE  \A x \in Operations : op'[x].given => op[x].given
<1>1. ASSUME NEW r, ~r.given, op' = [op EXCEPT ![o] = r]
      PROVE  \A x \in Operations : op'[x].given => op[x].given
  BY <1>1 DEF TypeOK
<1>2. CASE SubmitContained(o, p)
  <2>1. \E r : ~r.given /\ op' = [op EXCEPT ![o] = r]
    BY <1>2 DEF SubmitContained, Start, New, Unused
  <2> QED
    BY <1>1, <2>1
<1>3. ASSUME NEW t \in Later, SubmitTooLate(o, p, t)
      PROVE  \A x \in Operations : op'[x].given => op[x].given
  <2> DEFINE late == [New(p) EXCEPT !.event = TRUE, !.terminal = TRUE]
  <2>1. op' = [op EXCEPT ![o] = Expired(late, t)]
    BY <1>3 DEF SubmitTooLate, Start
  <2>2. ~Expired(late, t).given
    BY DEF New, Unused, Expired
  <2> QED
    BY <1>1, <2>1, <2>2
<1>4. ASSUME NEW t \in Later, NEW x, NEW u \in Later, Submit(o, p, x, t, u)
      PROVE  \A y \in Operations : op'[y].given => op[y].given
  <2> DEFINE s == Recorded(p, New(p).ledger, "SUBMIT", x, t)
             sent == [New(p) EXCEPT !.event = TRUE, !.pending = x = "PENDING",
                                    !.terminal = x # "PENDING", !.ledger = s]
  <2>1. op' = [op EXCEPT ![o] = Expired(sent, u)]
    BY <1>4 DEF Submit, Start
  <2>2. ~Expired(sent, u).given
    BY DEF New, Unused, Expired
  <2> HIDE DEF sent
  <2> QED
    BY <1>1, <2>1, <2>2
<1> QED
  BY <1>2, <1>3, <1>4

(***************************************************************************)
(* result_bytes: the checks it makes after the clock, together with a      *)
(* ledger that is true, leave only a completion that came in time.         *)
(***************************************************************************)
LEMMA ResultsAreDue ==
  ASSUME EndpointInv, NEW o \in Operations, NEW t \in Later, ResultBytes(o, t),
         NEW x \in Operations, ~op[x].given, op'[x].given
  PROVE  tick' < op[x].plan.request /\ ~op[x].cancelled /\ kernel[x] = "SUCCESS"
<1> DEFINE e == Expired(op[o], t)
           available == ~e.cancelled /\ ResultAvailable(e.ledger) /\ e.terminal /\ ~e.pending
           told == e.given \/ (available /\ ~Ruined(e, t))
<1>1. /\ Active(o) /\ Usable /\ tick' = t /\ op' = [op EXCEPT ![o] = [e EXCEPT !.given = told]]
  <2>1. op' = [op EXCEPT ![o] = [e EXCEPT !.given = @ \/ (available /\ ~Ruined(e, t))]]
    BY DEF ResultBytes, Leave
  <2>2. op' = [op EXCEPT ![o] = [e EXCEPT !.given = told]]
    BY <2>1
  <2> QED
    BY <2>2 DEF ResultBytes, Leave, Free
<1>2. /\ e \in Op /\ e = [op[o] EXCEPT !.ledger = e.ledger]
      /\ ~Condemned(e.ledger) => Reflects(e, kernel[o])
      /\ ~Condemned(e.ledger) /\ t >= op[o].plan.request => e.ledger.suppressed
  BY <1>1, AtRest, InUse, ExpiredReflects
<1> HIDE DEF e
<1>3. /\ op[o] \in Op /\ op[o].plan \in Plan /\ t \in Nat /\ op[o].plan.request \in Nat
      /\ e.given = op[o].given /\ e.cancelled = op[o].cancelled
  BY <1>1, <1>2, AtRest DEF Op, Plan
<1>4. x = o /\ told
  BY <1>1, <1>2, <1>3 DEF EndpointInv, TypeOK, Op
<1>5. available /\ ~Ruined(e, t)
  BY <1>3, <1>4
<1> QED
  BY <1>1, <1>2, <1>3, <1>4, <1>5 DEF ResultAvailable, Ruined, Reflects

LEMMA StepsAreDue ==
  EndpointInv /\ [Next]_vars =>
    [\A o \in Operations : ~op[o].given /\ op'[o].given =>
       /\ tick' < op[o].plan.request
       /\ ~op[o].cancelled /\ kernel[o] = "SUCCESS"]_vars
<1> SUFFICES ASSUME EndpointInv, Next, NEW x \in Operations, ~op[x].given, op'[x].given
             PROVE  tick' < op[x].plan.request /\ ~op[x].cancelled /\ kernel[x] = "SUCCESS"
  OBVIOUS
<1>1. TypeOK
  BY DEF EndpointInv
<1>2. CASE \E o \in Operations, t \in Later : ResultBytes(o, t)
  BY <1>2, ResultsAreDue
<1>3. ASSUME NEW o \in Operations,
             \/ \E p \in Plans :
                  \/ SubmitContained(o, p)
                  \/ \E t \in Later :
                       \/ SubmitTooLate(o, p, t)
                       \/ \E y \in {"SUCCESS", "PENDING", "ERROR"}, u \in Later : Submit(o, p, y, t, u)
             \/ \E t \in Later : Cancel(o, t) \/ Dispose(o, t)
             \/ DisposeContained(o) \/ PollContained(o) \/ CancelContained(o)
      PROVE  FALSE
  <2>1. tick \in Later
    BY <1>1 DEF TypeOK, Later
  <2> QED
    BY <1>1, <1>3, <2>1, StartsUntold, OthersUntold
<1>4. CASE InCall
  BY <1>1, <1>4, OthersUntold DEF InCall
<1>5. CASE \/ Tick \/ Close
           \/ \E o \in Operations, y \in {"SUCCESS", "ERROR", "ABORTED"} : KernelCompletes(o, y)
           \/ \E o \in Operations, until \in 0..MaxTick : WaitUntil(o, until)
  BY <1>5 DEF Tick, Close, KernelCompletes, WaitUntil
<1> QED
  BY <1>2, <1>3, <1>4, <1>5 DEF Next

(***************************************************************************)
(* A result that was cancelled, that came after its deadline or that the   *)
(* kernel never reported is never handed out.                              *)
(***************************************************************************)
THEOREM ResultsInTime == Spec => NoLateResult
  BY EndpointAlways, StepsAreDue, PTL DEF Spec, NoLateResult
=============================================================================

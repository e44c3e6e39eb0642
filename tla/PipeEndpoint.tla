---------------------------- MODULE PipeEndpoint ----------------------------
(***************************************************************************)
(* The owned pipe endpoint and its overlapped operations                   *)
(* (windows_pipe_native.py).  The kernel completes a pending operation     *)
(* when it likes, into a buffer the worker must keep until then; the       *)
(* worker waits, cancels, reads the result and disposes, on one thread,    *)
(* against two deadlines, and projects every step on a ledger.  Whatever   *)
(* leaves the ownership of the buffer uncertain is containment: the        *)
(* endpoint is condemned and everything it holds stays.                    *)
(***************************************************************************)
EXTENDS PipeLedger, FiniteSets

CONSTANTS
  Operations,     \* operation ids
  NoOperation,    \* no operation
  Plans,          \* the plans callers submit
  MaxOperations,  \* MAX_OPERATIONS
  MaxIterations,  \* turns of _drain
  MaxTick         \* bound on the clock

ASSUME EndpointAssumption ==
  /\ NoOperation \notin Operations
  /\ Plans \subseteq Plan
  /\ MaxOperations \in Nat /\ MaxIterations \in Nat /\ MaxTick \in Nat

VARIABLES
  tick,      \* the clock
  endpoint,  \* the endpoint's flags and its active operation
  op,        \* op[o]: the worker's record of an operation
  kernel,    \* kernel[o]: what the kernel knows of it
  call       \* the call the owner thread is in

vars == <<tick, endpoint, op, kernel, call>>

Endpoint == [connectStarted : BOOLEAN, connected : BOOLEAN, fatal : BOOLEAN,
             closed : BOOLEAN, active : Operations \cup {NoOperation}]

Op == [plan : Plan, begun : BOOLEAN, event : BOOLEAN, pending : BOOLEAN,
       terminal : BOOLEAN, cancelled : BOOLEAN, disposed : BOOLEAN,
       given : BOOLEAN, ledger : LedgerState]

Kernel == {"none", "pending", "SUCCESS", "ERROR", "ABORTED"}

Call == [at : {"none", "top", "poll", "cancel"}, until : Nat, turn : Nat]

NoCall == [at |-> "none", until |-> 0, turn |-> 0]

TypeOK ==
  /\ tick \in 0..MaxTick
  /\ endpoint \in Endpoint
  /\ op \in [Operations -> Op]
  /\ kernel \in [Operations -> Kernel]
  /\ call \in Call

Unused == [plan |-> [kind |-> "CONNECT", request |-> 0, cleanup |-> 1],
           begun |-> FALSE, event |-> FALSE, pending |-> FALSE, terminal |-> FALSE,
           cancelled |-> FALSE, disposed |-> FALSE, given |-> FALSE, ledger |-> Created(0)]

Init ==
  /\ tick = 0
  /\ endpoint = [connectStarted |-> FALSE, connected |-> FALSE, fatal |-> FALSE,
                 closed |-> FALSE, active |-> NoOperation]
  /\ op = [o \in Operations |-> Unused]
  /\ kernel = [o \in Operations |-> "none"]
  /\ call = NoCall

Later == tick..MaxTick
Usable == ~endpoint.fatal /\ ~endpoint.closed
Free == Usable /\ call.at = "none"
Active(o) == endpoint.active = o /\ ~op[o].disposed

(***************************************************************************)
(* What a call leaves behind: the operation as r, condemned if its ledger  *)
(* is or if the operation still pends at its cleanup deadline (_expire).   *)
(***************************************************************************)
Overdue(r, t) == r.pending /\ t >= r.plan.cleanup

Expired(r, t) ==
  IF t < r.plan.request THEN r
  ELSE [r EXCEPT !.ledger = Recorded(r.plan, @, "EXPIRE", "NONE", t)]

Ruined(r, t) == Condemned(r.ledger) \/ Overdue(r, t)

Leave(o, r, t, next) ==
  /\ op' = [op EXCEPT ![o] = r]
  /\ tick' = t
  /\ IF Ruined(r, t)
     THEN /\ endpoint' = [endpoint EXCEPT !.fatal = TRUE] /\ call' = NoCall
     ELSE /\ endpoint' = [endpoint EXCEPT !.connected =
                 @ \/ (r.plan.kind = "CONNECT" /\ r.terminal /\ r.ledger.terminal = "SUCCESS")]
          /\ call' = next

(* _contain, from any callback that raised or answered what it must not *)
Contained(o, r) ==
  /\ op' = [op EXCEPT ![o] = r]
  /\ endpoint' = [endpoint EXCEPT !.fatal = TRUE]
  /\ call' = NoCall

(***************************************************************************)
(* _begin and _submit.  The ledger's room for two events is reserved, then *)
(* ownership is uncertain until the kernel has answered.                   *)
(***************************************************************************)
CanBegin(o, p) ==
  /\ Free
  /\ endpoint.active = NoOperation
  /\ IF p.kind = "CONNECT" THEN ~endpoint.connectStarted ELSE endpoint.connected
  /\ ~op[o].begun
  /\ Cardinality({x \in Operations : op[x].begun}) < MaxOperations
  /\ tick < p.request

New(p) == [Unused EXCEPT !.plan = p, !.begun = TRUE, !.ledger = Created(tick)]

Start(o, p, r, fatal, connected) ==
  /\ op' = [op EXCEPT ![o] = r]
  /\ endpoint' = [endpoint EXCEPT
       !.active = o, !.connectStarted = @ \/ p.kind = "CONNECT",
       !.fatal = fatal, !.connected = @ \/ connected]
  /\ UNCHANGED call

\* The kernel answered: done, pending or failed.  t is the time of the call,
\* u the time after it.
Submit(o, p, outcome, t, u) ==
  LET sent == [New(p) EXCEPT
                 !.event = TRUE, !.pending = outcome = "PENDING",
                 !.terminal = outcome # "PENDING",
                 !.ledger = Recorded(p, @, "SUBMIT", outcome, t)]
      r == Expired(sent, u) IN
  /\ CanBegin(o, p)
  /\ t < p.request /\ t <= u /\ 2 <= MaxEvents
  /\ Start(o, p, r, Ruined(r, u), p.kind = "CONNECT" /\ outcome = "SUCCESS" /\ ~Ruined(r, u))
  /\ kernel' = [kernel EXCEPT ![o] = IF outcome = "PENDING" THEN "pending" ELSE outcome]
  /\ tick' = u

\* Time ran out while the event was created: nothing is submitted.
SubmitTooLate(o, p, t) ==
  LET r == Expired([New(p) EXCEPT !.event = TRUE, !.terminal = TRUE], t) IN
  /\ CanBegin(o, p)
  /\ t >= p.request
  /\ Start(o, p, r, Ruined(r, t), FALSE)
  /\ tick' = t
  /\ UNCHANGED kernel

\* The event or the clock failed, or the submission raised or answered what is
\* not understood: the kernel may have the buffer.
SubmitContained(o, p) ==
  /\ CanBegin(o, p)
  /\ \/ /\ \E made \in BOOLEAN : Start(o, p, [New(p) EXCEPT !.event = made], TRUE, FALSE)
        /\ UNCHANGED kernel
     \/ /\ Start(o, p, [New(p) EXCEPT !.event = TRUE, !.pending = TRUE], TRUE, FALSE)
        /\ \E k \in {"none", "pending"} : kernel' = [kernel EXCEPT ![o] = k]
  /\ UNCHANGED tick

KernelCompletes(o, outcome) ==
  /\ kernel[o] = "pending"
  /\ kernel' = [kernel EXCEPT ![o] = outcome]
  /\ UNCHANGED <<tick, endpoint, op, call>>

(***************************************************************************)
(* wait_until and _drain: each turn looks at the clock, stops when nothing *)
(* pends or the time is over, else waits and polls.                        *)
(***************************************************************************)
WaitUntil(o, until) ==
  /\ Free /\ Active(o)
  /\ until <= op[o].plan.request
  /\ call' = [at |-> "top", until |-> until, turn |-> 0]
  /\ UNCHANGED <<tick, endpoint, op, kernel>>

DrainTurn(o, t) ==
  LET r == Expired(op[o], t) IN
  /\ call.at = "top" /\ Active(o)
  /\ IF call.turn >= MaxIterations
     THEN Contained(o, op[o]) /\ UNCHANGED tick
     ELSE IF r.pending /\ t < call.until /\ r.ledger.events >= MaxEvents - 4
     THEN Contained(o, r) /\ tick' = t
     ELSE Leave(o, r, t, IF r.pending /\ t < call.until
                         THEN [call EXCEPT !.at = "poll", !.turn = @ + 1] ELSE NoCall)
  /\ UNCHANGED kernel

\* Mutant: an incomplete operation is queried again at once.
Poll_Spins(o, t) ==
  LET polled == [op[o] EXCEPT
                   !.pending = FALSE, !.terminal = TRUE,
                   !.ledger = Recorded(op[o].plan, @, "POLL", kernel[o], t)] IN
  /\ call.at = "poll" /\ Active(o)
  /\ IF kernel[o] = "pending"
     THEN tick' = t /\ UNCHANGED <<endpoint, op, call>>
     ELSE Leave(o, Expired(polled, t), t, [call EXCEPT !.at = "top"])
  /\ UNCHANGED kernel

(***************************************************************************)
(* _poll: asks the kernel, then the clock, then records.                   *)
(***************************************************************************)
Poll(o, t) ==
  LET outcome == IF kernel[o] = "pending" THEN "INCOMPLETE" ELSE kernel[o]
      polled == [op[o] EXCEPT
                   !.pending = outcome = "INCOMPLETE", !.terminal = outcome # "INCOMPLETE",
                   !.ledger = Recorded(op[o].plan, @, "POLL", outcome, t)] IN
  /\ call.at = "poll" /\ Active(o)
  /\ IF op[o].ledger.events > MaxEvents - 2
     THEN Contained(o, op[o]) /\ UNCHANGED tick
     ELSE Leave(o, Expired(polled, t), t, [call EXCEPT !.at = "top"])
  /\ UNCHANGED kernel

\* The wait or the query failed.
PollContained(o) ==
  /\ call.at = "poll" /\ Active(o)
  /\ Contained(o, op[o])
  /\ UNCHANGED <<tick, kernel>>

(***************************************************************************)
(* cancel_and_drain: the result is given up first; a cancelled operation   *)
(* is still polled until the kernel lets go of it.                         *)
(***************************************************************************)
Cancel(o, t) ==
  LET r == Expired([op[o] EXCEPT !.cancelled = TRUE], t) IN
  /\ Free /\ Active(o)
  /\ Leave(o, r, t, IF r.pending
                    THEN [at |-> "cancel", until |-> r.plan.cleanup, turn |-> 0] ELSE NoCall)
  /\ UNCHANGED kernel

CancelCall(o, outcome, t) ==
  /\ call.at = "cancel" /\ Active(o)
  /\ outcome = "NOT_FOUND" => kernel[o] # "pending"
  /\ IF op[o].ledger.events > MaxEvents - 4
     THEN Contained(o, op[o]) /\ UNCHANGED tick
     ELSE Leave(o, [op[o] EXCEPT !.ledger = Recorded(op[o].plan, @, "CANCEL", outcome, t)], t,
                [call EXCEPT !.at = "poll"])
  /\ UNCHANGED kernel

CancelContained(o) ==
  /\ call.at = "cancel" /\ Active(o)
  /\ Contained(o, op[o])
  /\ UNCHANGED <<tick, kernel>>

(***************************************************************************)
(* result_bytes and dispose                                                *)
(***************************************************************************)
ResultBytes(o, t) ==
  LET r == Expired(op[o], t)
      available == ~r.cancelled /\ ResultAvailable(r.ledger) /\ r.terminal /\ ~r.pending IN
  /\ Free /\ Active(o)
  /\ Leave(o, [r EXCEPT !.given = @ \/ (available /\ ~Ruined(r, t))], t, call)
  /\ UNCHANGED kernel

\* Mutant: whether the kernel still owns the buffer is not asked.
CanDispose_WhilePending(o) == Free /\ Active(o)

CanDispose(o) == Free /\ Active(o) /\ ~op[o].pending /\ op[o].terminal

Dispose(o, t) ==
  LET r == [op[o] EXCEPT !.event = FALSE,
                         !.ledger = Recorded(op[o].plan, @, "DISPOSE", "NONE", t)] IN
  /\ CanDispose(o)
  /\ IF Ruined(r, t)
     THEN Contained(o, r)
     ELSE /\ op' = [op EXCEPT ![o] = [r EXCEPT !.disposed = TRUE]]
          /\ endpoint' = [endpoint EXCEPT !.active = NoOperation]
          /\ UNCHANGED call
  /\ tick' = t
  /\ UNCHANGED kernel

DisposeContained(o) ==
  /\ CanDispose(o)
  /\ Contained(o, op[o])
  /\ UNCHANGED <<tick, kernel>>

\* OwnedPipeEndpoint.close; a lease or a continuity that would keep it open
\* is in PeerGate.
Close ==
  /\ Free /\ endpoint.active = NoOperation
  /\ \/ endpoint' = [endpoint EXCEPT !.closed = TRUE]
     \/ endpoint' = [endpoint EXCEPT !.fatal = TRUE]
  /\ UNCHANGED <<tick, op, kernel, call>>

Tick ==
  /\ tick < MaxTick
  /\ tick' = tick + 1
  /\ UNCHANGED <<endpoint, op, kernel, call>>

(* A step of the call the owner thread is in. *)
InCall ==
  \E o \in Operations, t \in Later :
    \/ DrainTurn(o, t) \/ Poll(o, t)
    \/ \E x \in {"CANCEL_ACCEPTED", "NOT_FOUND", "CANCEL_FAILED"} : CancelCall(o, x, t)

Next ==
  \/ Tick \/ Close \/ InCall
  \/ \E o \in Operations :
       \/ \E p \in Plans :
            \/ SubmitContained(o, p)
            \/ \E t \in Later :
                 \/ SubmitTooLate(o, p, t)
                 \/ \E x \in {"SUCCESS", "PENDING", "ERROR"}, u \in Later : Submit(o, p, x, t, u)
       \/ \E x \in {"SUCCESS", "ERROR", "ABORTED"} : KernelCompletes(o, x)
       \/ \E until \in 0..MaxTick : WaitUntil(o, until)
       \/ \E t \in Later : Cancel(o, t) \/ ResultBytes(o, t) \/ Dispose(o, t)
       \/ DisposeContained(o) \/ PollContained(o) \/ CancelContained(o)

(* Fairness: a thread inside a call takes its next step; nothing is        *)
(* assumed of the kernel, of the clock or of native failures.              *)
Spec == Init /\ [][Next]_vars /\ WF_vars(InCall)

(***************************************************************************)
(* As long as the kernel may write to an operation's buffer, the worker    *)
(* keeps it and its event, does not close the pipe, and either knows the   *)
(* operation as pending or has condemned itself.                           *)
(***************************************************************************)
KernelMemoryHeld ==
  \A o \in Operations : kernel[o] = "pending" =>
    /\ ~op[o].disposed /\ op[o].event /\ endpoint.active = o /\ ~endpoint.closed
    /\ op[o].pending \/ endpoint.fatal

(***************************************************************************)
(* The audit ledger is a true projection: short of containment its stage   *)
(* is the operation's, a SUCCESS in it was reported by the kernel, and it  *)
(* never rejects an event the adapter sends, except for lack of room.      *)
(***************************************************************************)
LedgerIsTrue ==
  \A o \in Operations : op[o].begun =>
    LET s == op[o].ledger IN
    /\ s.rejected => s.events = MaxEvents
    /\ ~endpoint.fatal =>
         /\ s.stage = "PENDING" <=> op[o].pending
         /\ s.stage \in {"TERMINAL", "DISPOSED"} <=> op[o].terminal
         /\ s.stage = "DISPOSED" <=> op[o].disposed
         /\ s.terminal = "SUCCESS" => kernel[o] = "SUCCESS"

(***************************************************************************)
(* A result leaves the endpoint only in time, of an operation the kernel   *)
(* completed and nobody cancelled, whenever the completion was noticed.    *)
(***************************************************************************)
NoLateResult ==
  [][\A o \in Operations : ~op[o].given /\ op'[o].given =>
       /\ tick' < op[o].plan.request
       /\ ~op[o].cancelled /\ kernel[o] = "SUCCESS"]_vars

(***************************************************************************)
(* A wait or a cancellation ends, by an answer or by containment, even if  *)
(* the kernel never completes the operation and the clock stands still.    *)
(***************************************************************************)
CallsEnd == call.at # "none" ~> call.at = "none"
=============================================================================

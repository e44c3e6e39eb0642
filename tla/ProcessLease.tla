---------------------------- MODULE ProcessLease ----------------------------
(***************************************************************************)
(* The process lease of a named-pipe endpoint                              *)
(* (windows_pipe_process_lease.py): a worker retains one handle of the     *)
(* client process connected to its pipe, checks it against an independent  *)
(* pin, and gives it back within a bounded cleanup budget.  A handle that  *)
(* cannot be given back is never forgotten: the lease stays registered and *)
(* its endpoint is condemned ("containment").                              *)
(*                                                                         *)
(* The endpoint (windows_pipe_native.py) appears here with the flags the   *)
(* lease reads and writes; PipeEndpoint models its operations.             *)
(***************************************************************************)
EXTENDS Integers, FiniteSets

CONSTANTS
  Endpoints,        \* pipe endpoints of this worker process
  MaxLeases,        \* MAX_LEASES: leases the registry may hold
  LeaseDeadline,    \* the plan's deadline ...
  CleanupDeadline,  \* ... and cleanup_deadline, as absolute ticks
  MaxTick           \* bound on the clock

ASSUME LeaseAssumption ==
  /\ MaxLeases \in Nat \ {0}
  /\ LeaseDeadline \in Nat /\ CleanupDeadline \in Nat /\ MaxTick \in Nat
  /\ 0 < LeaseDeadline /\ LeaseDeadline < CleanupDeadline

VARIABLES
  tick,      \* the injected clock
  endpoint,  \* endpoint[e]: flags of the owned pipe endpoint
  alive,     \* alive[e]: the client process of e's pinned pid is running
  lease      \* lease[e]: the only lease e can ever have

leaseVars == <<tick, endpoint, alive, lease>>

Sources == {"FAKE_PROCESS_API", "NATIVE_PROCESS_API"}

Endpoint == [connected : BOOLEAN, active : BOOLEAN, fatal : BOOLEAN,
             closed : BOOLEAN, claimed : BOOLEAN, leased : BOOLEAN,
             continuity : BOOLEAN]

Lease == [status   : {"none", "live", "released", "contained"},
          handle   : BOOLEAN,
          consumed : BOOLEAN,
          prepared : BOOLEAN,
          source   : Sources,
          audit    : {"NONE", "CORRELATED", "INDETERMINATE"}]

NewEndpoint == [connected |-> FALSE, active |-> FALSE, fatal |-> FALSE,
                closed |-> FALSE, claimed |-> FALSE, leased |-> FALSE,
                continuity |-> FALSE]

NoLease == [status |-> "none", handle |-> FALSE, consumed |-> FALSE,
            prepared |-> FALSE, source |-> "FAKE_PROCESS_API",
            audit |-> "NONE"]

LeaseTypeOK ==
  /\ tick \in 0..MaxTick
  /\ endpoint \in [Endpoints -> Endpoint]
  /\ alive \in [Endpoints -> BOOLEAN]
  /\ lease \in [Endpoints -> Lease]

LeaseInit ==
  /\ tick = 0
  /\ endpoint = [e \in Endpoints |-> NewEndpoint]
  /\ alive = [e \in Endpoints |-> TRUE]
  /\ lease = [e \in Endpoints |-> NoLease]

(* The registry _LEASES: every lease that was not given back. *)
Registry == {e \in Endpoints : lease[e].status \in {"live", "contained"}}

(* _guard of the endpoint, without its owner check: leases, endpoints and  *)
(* operations are all used on their owner thread.                          *)
Usable(e) == ~endpoint[e].fatal /\ ~endpoint[e].closed

Idle(e) == Usable(e) /\ endpoint[e].connected /\ ~endpoint[e].active

(* _check: what a successful correlation has seen by tick t. *)
Correlates(e, t) ==
  Usable(e) /\ endpoint[e].connected /\ alive[e] /\ t < LeaseDeadline

(* The clock as a call finds it: time passes while native calls run. *)
Later == tick..MaxTick

(***************************************************************************)
(* _contain: the lease and its endpoint are condemned; ownership stays.    *)
(***************************************************************************)
ContainLease(e, rec) ==
  /\ lease' = [lease EXCEPT ![e] = [rec EXCEPT !.status = "contained"]]
  /\ endpoint' = [endpoint EXCEPT ![e].fatal = TRUE, ![e].claimed = TRUE,
                                  ![e].leased = TRUE]

GiveBack(e, rec) ==
  /\ lease' = [lease EXCEPT ![e] = [rec EXCEPT !.status = "released"]]
  /\ endpoint' = [endpoint EXCEPT ![e].claimed = TRUE, ![e].leased = FALSE]

(***************************************************************************)
(* _release: the known handle is closed even when the cleanup budget is    *)
(* spent, but a late clock or a close that did not succeed is containment. *)
(* The handle survives exactly when the close failed.                      *)
(***************************************************************************)
ReleaseUnheld(e, rec, t) ==
  LET used == [rec EXCEPT !.consumed = TRUE, !.handle = FALSE] IN
  \/ t < CleanupDeadline /\ GiveBack(e, used)
  \/ t >= CleanupDeadline /\ ContainLease(e, used)

Release(e, rec, t) ==
  \/ ReleaseUnheld(e, rec, t)
  \/ ContainLease(e, [rec EXCEPT !.consumed = TRUE])

(***************************************************************************)
(* _prepare_lease and acquire_process_lease_*: one attempt on an endpoint, *)
(* which claims the endpoint for good whatever becomes of it.              *)
(***************************************************************************)
CanPrepare(e) ==
  /\ Idle(e)
  /\ tick < LeaseDeadline
  /\ Cardinality(Registry) < MaxLeases
  /\ ~endpoint[e].claimed

Fresh(src) == [NoLease EXCEPT !.status = "live", !.source = src]

Acquire(e, src, t) ==
  /\ CanPrepare(e)
  /\ t < LeaseDeadline /\ alive[e]
  /\ lease' = [lease EXCEPT ![e] = [Fresh(src) EXCEPT !.handle = TRUE]]
  /\ endpoint' = [endpoint EXCEPT ![e].claimed = TRUE, ![e].leased = TRUE]
  /\ tick' = t
  /\ UNCHANGED alive

(* The client pid, the clock or an API failed before a handle was kept.    *)
AcquireUnopened(e, src, t) ==
  /\ CanPrepare(e)
  /\ ReleaseUnheld(e, Fresh(src), t)
  /\ tick' = t
  /\ UNCHANGED alive

(* _drop_unopened: OpenProcess itself said there is no handle, so nothing  *)
(* is closed and no cleanup budget applies.                                *)
DropUnopened(e, t) ==
  /\ CanPrepare(e)
  /\ GiveBack(e, [Fresh("NATIVE_PROCESS_API") EXCEPT !.consumed = TRUE])
  /\ tick' = t
  /\ UNCHANGED alive

(* An injected open that raised, or a value that is no handle: whether one *)
(* was allocated is not known.                                             *)
AcquireContained(e, src, t) ==
  /\ CanPrepare(e)
  /\ t < LeaseDeadline
  /\ ContainLease(e, [Fresh(src) EXCEPT !.handle = TRUE])
  /\ tick' = t
  /\ UNCHANGED alive

(* The handle was opened and the correlation of it failed. *)
AcquireUncorrelated(e, src, t) ==
  /\ CanPrepare(e)
  /\ Release(e, [Fresh(src) EXCEPT !.handle = TRUE], t)
  /\ tick' = t
  /\ UNCHANGED alive

(***************************************************************************)
(* finish and abort: the one use of a live lease.  The audit says          *)
(* CORRELATED only if the process still matched before the handle was      *)
(* released, and there is no audit when the release ends in containment.   *)
(***************************************************************************)
LiveLease(e) == lease[e].status = "live" /\ ~lease[e].consumed

Finish(e, t) ==
  /\ LiveLease(e)
  /\ \E a \in {"CORRELATED", "INDETERMINATE"} :
       /\ a = "CORRELATED" => Correlates(e, tick)
       /\ Release(e, [lease[e] EXCEPT !.audit = a], t)
  /\ tick' = t
  /\ UNCHANGED alive

Abort(e, t) ==
  /\ LiveLease(e)
  /\ Release(e, [lease[e] EXCEPT !.audit = "INDETERMINATE"], t)
  /\ tick' = t
  /\ UNCHANGED alive

(***************************************************************************)
(* The endpoint and the process as the lease sees them change: the client  *)
(* connects, an operation runs and is disposed of or is contained, the     *)
(* process exits, the owner closes the endpoint.                           *)
(***************************************************************************)
Connect(e) ==
  /\ Usable(e) /\ ~endpoint[e].connected
  /\ endpoint' = [endpoint EXCEPT ![e].connected = TRUE]
  /\ UNCHANGED <<tick, alive, lease>>

BeginOperation(e) ==
  /\ Idle(e)
  /\ endpoint' = [endpoint EXCEPT ![e].active = TRUE]
  /\ UNCHANGED <<tick, alive, lease>>

EndOperation(e) ==
  /\ Usable(e) /\ endpoint[e].active
  /\ endpoint' = [endpoint EXCEPT ![e].active = FALSE]
  /\ UNCHANGED <<tick, alive, lease>>

OperationContained(e) ==
  /\ Usable(e) /\ endpoint[e].active
  /\ endpoint' = [endpoint EXCEPT ![e].fatal = TRUE]
  /\ UNCHANGED <<tick, alive, lease>>

\* A native close that fails condemns the endpoint instead.
CloseEndpoint(e) ==
  /\ Usable(e)
  /\ ~endpoint[e].leased /\ ~endpoint[e].continuity /\ ~endpoint[e].active
  /\ \/ endpoint' = [endpoint EXCEPT ![e].closed = TRUE]
     \/ endpoint' = [endpoint EXCEPT ![e].fatal = TRUE]
  /\ UNCHANGED <<tick, alive, lease>>

PeerExits(e) ==
  /\ alive[e]
  /\ alive' = [alive EXCEPT ![e] = FALSE]
  /\ UNCHANGED <<tick, endpoint, lease>>

Tick ==
  /\ tick < MaxTick
  /\ tick' = tick + 1
  /\ UNCHANGED <<endpoint, alive, lease>>

LeaseNext ==
  \/ Tick
  \/ \E e \in Endpoints :
       \/ Connect(e) \/ BeginOperation(e) \/ EndOperation(e)
       \/ OperationContained(e) \/ CloseEndpoint(e) \/ PeerExits(e)
       \/ \E t \in Later :
            \/ DropUnopened(e, t) \/ Finish(e, t) \/ Abort(e, t)
            \/ \E src \in Sources :
                 \/ Acquire(e, src, t)
                 \/ AcquireUnopened(e, src, t)
                 \/ AcquireContained(e, src, t)
                 \/ AcquireUncorrelated(e, src, t)
=============================================================================

------------------------------ MODULE PeerGate ------------------------------
(***************************************************************************)
(* The native peer-admission evaluator (windows_peer_admission_gate.py)    *)
(* over live continuities.  Evidence is walked down a ladder of phases;    *)
(* phase 6 looks at the continuity three times, each under its lock but    *)
(* with other threads in between; phase 7 adopts it, which is the only way *)
(* to an ADMITTED result and to an authority.                              *)
(***************************************************************************)
EXTENDS PeerContinuity

CONSTANT Given  \* the evidence records evaluations are given

VARIABLES
  eval,   \* eval[v]: where evaluation v stands, or how it ended
  auth    \* auth[v]: the authority evaluation v produced

gateVars == <<eval, auth>>
vars == <<leaseVars, continuityVars, gateVars>>

PeerAudits == {"CONTRACT", "VIOLATIONS", "CAPTURE_UNAVAILABLE", "OTHER",
               "APP_CONTAINER_EXCLUSION_UNPROVEN"}
AxisStatuses == {"CAPTURED_APPCONTAINER", "CAPTURED_NON_APPCONTAINER",
                 "CAPTURED_CLASSIFICATION_CONFLICT",
                 "CAPTURED_CLASSIFICATION_UNAVAILABLE", "CAPTURE_UNAVAILABLE"}

(***************************************************************************)
(* What an evaluation is given: the audit of a finished lease, the peer    *)
(* audit and the two captured axes, and whether all of it is well-formed.  *)
(* Beside it come a continuity, whether the binding in the evidence is the *)
(* one of that continuity, and the policy revision to evaluate.            *)
(***************************************************************************)
Evidence == [valid : BOOLEAN, source : Sources,
             lease : {"CORRELATED", "INDETERMINATE"}, peer : PeerAudits,
             pipe : AxisStatuses, process : AxisStatuses \ {"CAPTURE_UNAVAILABLE"}]

ASSUME GateAssumption == Given \subseteq Evidence

Unclassified == {"CAPTURED_CLASSIFICATION_UNAVAILABLE", "CAPTURE_UNAVAILABLE"}

(***************************************************************************)
(* Phases 1 to 5, which read the evidence alone: the first rung that       *)
(* stops it.  Rung 2.3, an audit that claims authority, is one no typed    *)
(* audit reaches.                                                          *)
(***************************************************************************)
Rungs(x) == <<
  <<~x.valid, "1">>,
  <<x.source # "NATIVE_PROCESS_API", "2.1">>,
  <<x.lease # "CORRELATED", "2.2">>,
  <<x.peer = "CONTRACT", "3.1">>,
  <<x.peer = "VIOLATIONS", "3.2">>,
  <<x.peer # "APP_CONTAINER_EXCLUSION_UNPROVEN", "3.3">>,
  <<x.pipe \in Unclassified, "4.1a">>,
  <<x.pipe = "CAPTURED_CLASSIFICATION_CONFLICT", "4.1b">>,
  <<x.pipe = "CAPTURED_APPCONTAINER", "4.2">>,
  <<x.process \in Unclassified, "5.1a">>,
  <<x.process = "CAPTURED_CLASSIFICATION_CONFLICT", "5.1b">>,
  <<x.process = "CAPTURED_APPCONTAINER", "5.2">>,
  <<TRUE, "6.1">> >>

Rung(x) ==
  LET stops == {i \in DOMAIN Rungs(x) : Rungs(x)[i][1]}
  IN Rungs(x)[CHOOSE i \in stops : \A j \in stops : i <= j][2]

Phases == {"idle", "1", "2.1", "2.2", "3.1", "3.2", "3.3", "4.1a", "4.1b",
           "4.2", "5.1a", "5.1b", "5.2", "6.1", "6.2", "6.3", "7.1"}

\* "check": the named phase is about to be entered; "ended": it was the
\* terminal one. The outcomes of phase 7 have names of their own.
Results == {"check", "ended", "adopted", "ADMITTED", "HANDOFF_FAILED",
            "AUTHORITY_CONSTRUCTION_FAILED", "INVARIANT_ERROR", "CONTAINMENT"}

NoEndpoint == "none"

Eval == [at : Phases, result : Results,
         on : Endpoints \cup {NoEndpoint}, bound : BOOLEAN,
         revision : 0..MaxRevision]

NotStarted == [at |-> "idle", result |-> "check", on |-> NoEndpoint,
               bound |-> FALSE, revision |-> 0]

GateTypeOK ==
  /\ eval \in [Evaluators -> Eval]
  /\ auth \in [Evaluators -> {"none", "open", "closed", "contained"}]

GateInit ==
  /\ eval = [v \in Evaluators |-> NotStarted]
  /\ auth = [v \in Evaluators |-> "none"]

At(v, phase) == eval[v].at = phase /\ eval[v].result = "check"

Goto(v, phase) == eval' = [eval EXCEPT ![v].at = phase]
End(v, result) == eval' = [eval EXCEPT ![v].result = result]

\* A terminal before phase 7; what was evaluated is not looked at again.
Stop(v, phase) ==
  eval' = [eval EXCEPT ![v] = [NotStarted EXCEPT !.at = phase, !.result = "ended"]]

(* The audits a caller may hold: those of leases that were finished. *)
Audits == {[source |-> lease[e].source, lease |-> lease[e].audit] :
             e \in {f \in Endpoints : lease[f].audit # "NONE" /\ lease[f].status = "released"}}

Evaluate(v, e, b, rev, x) ==
  /\ At(v, "idle")
  /\ cont[e].status # "none"
  /\ [source |-> x.source, lease |-> x.lease] \in Audits
  /\ \/ /\ Rung(x) = "6.1"
        /\ eval' = [eval EXCEPT ![v] = [at |-> "6.1", result |-> "check", on |-> e,
                                       bound |-> b, revision |-> rev]]
     \/ Rung(x) # "6.1" /\ Stop(v, Rung(x))
  /\ UNCHANGED <<leaseVars, continuityVars, auth>>

Its(v) == cont[eval[v].on]

\* Every read of a contained continuity raises the containment.
PhaseContained(v) ==
  /\ \E p \in {"6.1", "6.2", "6.3", "7.1"} : At(v, p)
  /\ Its(v).status = "contained"
  /\ End(v, "CONTAINMENT")
  /\ UNCHANGED <<leaseVars, continuityVars, auth>>

\* _evaluation_binding_available
Phase61(v) ==
  /\ At(v, "6.1") /\ Its(v).status # "contained"
  /\ IF Its(v).handle /\ eval[v].bound
     THEN Goto(v, "6.2") ELSE Stop(v, eval[v].at)
  /\ UNCHANGED <<leaseVars, continuityVars, auth>>

\* _evaluation_policy_matches: the snapshot taken at preparation, not the
\* provider's current one
Phase62(v) ==
  /\ At(v, "6.2") /\ Its(v).status # "contained"
  /\ IF Its(v).snapshot = eval[v].revision
     THEN Goto(v, "6.3") ELSE Stop(v, eval[v].at)
  /\ UNCHANGED <<leaseVars, continuityVars, auth>>

\* _open_at_adoption_start
Phase63(v) ==
  /\ At(v, "6.3") /\ Its(v).status # "contained"
  /\ IF Open(eval[v].on) /\ Its(v).adoptedBy = NoEvaluator
     THEN Goto(v, "7.1") ELSE Stop(v, eval[v].at)
  /\ UNCHANGED <<leaseVars, continuityVars, auth>>

(***************************************************************************)
(* _adopt: revalidates and takes the continuity over.                      *)
(***************************************************************************)
Adopt(v) ==
  LET e == eval[v].on IN
  /\ At(v, "7.1")
  /\ Open(e) /\ cont[e].adoptedBy = NoEvaluator
  /\ Revalidates(e)
  /\ cont' = [cont EXCEPT ![e].adoptedBy = v]
  /\ auth' = [auth EXCEPT ![v] = "open"]
  /\ End(v, "adopted")
  /\ UNCHANGED <<leaseVars, policy>>

\* Refused by the revalidation, which invalidates the continuity.
AdoptInvalidates(v) ==
  LET e == eval[v].on IN
  /\ At(v, "7.1")
  /\ Open(e) /\ cont[e].adoptedBy = NoEvaluator
  /\ \/ GiveUp(e, "invalid") /\ UNCHANGED eval
     \/ Contain(e) /\ End(v, "CONTAINMENT")
  /\ UNCHANGED <<tick, alive, lease, policy, auth>>

\* Mutant: the refusal is reported without the close.
CloseRefused_LeftInvalid(v) ==
  /\ At(v, "7.1")
  /\ cont[eval[v].on].status \in {"closed", "invalid"}
  /\ End(v, "AUTHORITY_CONSTRUCTION_FAILED")
  /\ UNCHANGED <<leaseVars, continuityVars, auth>>

(***************************************************************************)
(* A refusal is reported only after close(): of a continuity nobody        *)
(* adopted it leaves nothing open; of one another evaluation adopted it    *)
(* raises, and the evaluator reports a bug of its own.                     *)
(***************************************************************************)
CloseRefused(v) ==
  LET e == eval[v].on IN
  /\ At(v, "7.1")
  /\ \/ cont[e].status = "closed" /\ UNCHANGED <<endpoint, cont>>
     \/ /\ cont[e].status = "invalid" /\ cont[e].adoptedBy = NoEvaluator
        /\ GiveUp(e, "closed")
  /\ End(v, "AUTHORITY_CONSTRUCTION_FAILED")
  /\ UNCHANGED <<tick, alive, lease, policy, auth>>

RefusedByOther(v) ==
  /\ At(v, "7.1")
  /\ Its(v).adoptedBy # NoEvaluator /\ Its(v).status \notin {"closed", "contained"}
  /\ End(v, "INVARIANT_ERROR")
  /\ UNCHANGED <<leaseVars, continuityVars, auth>>

(***************************************************************************)
(* The audit is built and handed over with the authority; if that fails    *)
(* the evaluator closes the authority and raises.  A holder closes it too, *)
(* once: the authority's own lock makes a second close return.             *)
(***************************************************************************)
HandOver(v) ==
  /\ eval[v].result = "adopted"
  /\ End(v, "ADMITTED")
  /\ UNCHANGED <<leaseVars, continuityVars, auth>>

EndAuthority(v) ==
  \/ GiveUp(eval[v].on, "closed") /\ auth' = [auth EXCEPT ![v] = "closed"]
  \/ Contain(eval[v].on) /\ auth' = [auth EXCEPT ![v] = "contained"]

HandOverFails(v) ==
  /\ eval[v].result = "adopted"
  /\ EndAuthority(v)
  /\ End(v, "HANDOFF_FAILED")
  /\ UNCHANGED <<tick, alive, lease, policy>>

CloseAuthority(v) ==
  /\ eval[v].result = "ADMITTED" /\ auth[v] = "open"
  /\ EndAuthority(v)
  /\ UNCHANGED <<tick, alive, lease, policy, eval>>

GateNext ==
  \E v \in Evaluators :
    \/ \E e \in Endpoints, b \in BOOLEAN, rev \in 1..MaxRevision, x \in Given :
         Evaluate(v, e, b, rev, x)
    \/ PhaseContained(v) \/ Phase61(v) \/ Phase62(v) \/ Phase63(v)
    \/ Adopt(v) \/ AdoptInvalidates(v) \/ CloseRefused(v) \/ RefusedByOther(v)
    \/ HandOver(v) \/ HandOverFails(v) \/ CloseAuthority(v)

Init == LeaseInit /\ ContinuityInit /\ GateInit

Next == (ContinuityNext /\ UNCHANGED gateVars) \/ GateNext

Spec == Init /\ [][Next]_vars

(***************************************************************************)
(* Every process handle has an owner that can still be reached: a lease's  *)
(* is in the registry and keeps its endpoint from closing; a continuity's  *)
(* claims its endpoint, unless it was contained and the endpoint condemned *)
(* with it.  The registry is bounded, and a closed endpoint owns nothing.  *)
(***************************************************************************)
HandlesStayOwned ==
  /\ Cardinality(Registry) <= MaxLeases
  /\ \A e \in Endpoints :
       /\ endpoint[e].leased <=> e \in Registry
       /\ lease[e].handle => e \in Registry
       /\ cont[e].handle => endpoint[e].continuity \/ endpoint[e].fatal
       /\ endpoint[e].closed => ~lease[e].handle /\ ~cont[e].handle

(***************************************************************************)
(* A continuity has at most one token that can still be used, it is the    *)
(* outstanding one, and there is none once the continuity was closed,      *)
(* invalidated or contained, by whatever thread.                           *)
(***************************************************************************)
OneLiveToken ==
  \A e \in Endpoints : \A i \in DOMAIN cont[e].tokens :
    cont[e].tokens[i].state = "live" =>
      i = cont[e].outstanding /\ cont[e].status = "open"

(***************************************************************************)
(* An authority that was not closed owns a continuity that is open, holds  *)
(* the process and claims its endpoint, and that was prepared for the very *)
(* binding and policy the evaluation looked at: nobody else can close,     *)
(* invalidate or adopt it meanwhile.                                       *)
(***************************************************************************)
AuthorityOwnsContinuity ==
  \A v \in Evaluators : auth[v] = "open" =>
    LET e == eval[v].on IN
    /\ Open(e) /\ endpoint[e].continuity
    /\ cont[e].adoptedBy = v
    /\ eval[v].bound /\ cont[e].snapshot = eval[v].revision

(***************************************************************************)
(* What AuthorityConstructionUnavailable certifies: no authority exists,   *)
(* and the continuity is completely and successfully closed.  The          *)
(* evaluator blames itself only if another evaluation took the continuity. *)
(***************************************************************************)
RefusalLeavesNothing ==
  \A v \in Evaluators :
    /\ eval[v].result = "AUTHORITY_CONSTRUCTION_FAILED" =>
         /\ cont[eval[v].on].status = "closed" /\ ~cont[eval[v].on].handle
         /\ \A w \in Evaluators : eval[w].on = eval[v].on => auth[w] # "open"
    /\ eval[v].result = "INVARIANT_ERROR" =>
         cont[eval[v].on].adoptedBy \notin {v, NoEvaluator}

(***************************************************************************)
(* An admission is granted, and a token used, only at a moment when the    *)
(* process lives, time is left and the provider still shows the policy     *)
(* that was evaluated, although each was last looked at by other steps of  *)
(* other threads; and no token is used twice or after it was burned.       *)
(***************************************************************************)
Current(e, rev) ==
  alive[e] /\ tick < cont[e].deadline /\ policy[cont[e].provider] = rev

GrantsAreCurrent ==
  [][/\ \A v \in Evaluators :
          auth[v] # "open" /\ auth'[v] = "open" => Current(eval[v].on, eval[v].revision)
     /\ \A e \in Endpoints : \A i \in DOMAIN cont[e].tokens :
          LET before == cont[e].tokens[i].state
              after == cont'[e].tokens[i].state IN
          /\ before # "live" => after = before
          /\ before = "live" /\ after = "used" =>
               Current(e, cont[e].snapshot) /\ cont[e].adoptedBy = NoEvaluator]_vars
=============================================================================

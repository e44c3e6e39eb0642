--------------------------- MODULE PeerContinuity ---------------------------
(***************************************************************************)
(* Continuity from an admission's evaluation to its use                    *)
(* (windows_peer_admission_continuity.py).  While the process lease lives, *)
(* its owner may open a second handle of the client process and claim the  *)
(* endpoint for a continuity object.  Its methods run under its own lock,  *)
(* from any thread: they mint and consume single-use tokens, each time     *)
(* checking again that the endpoint, the process, the deadline and the     *)
(* policy are those the admission was evaluated for.  A check that fails   *)
(* is final.                                                               *)
(***************************************************************************)
EXTENDS ProcessLease, Sequences

CONSTANTS
  Evaluators,        \* evaluations that may adopt a continuity
  ContinuityTicks,   \* the continuity deadlines a host asks for
  TokenTicks,        \* MAX_CONTINUITY_USE_TOKEN_MS
  MaxRevision,       \* bound on policy revisions
  MaxTokens          \* bound on tokens minted by one continuity

NoEvaluator == "none"

ASSUME ContinuityAssumption ==
  /\ ContinuityTicks \subseteq Nat /\ TokenTicks \in Nat \ {0}
  /\ MaxRevision \in Nat \ {0} /\ MaxTokens \in Nat
  /\ NoEvaluator \notin Evaluators

VARIABLES
  policy,  \* policy[p]: snapshot of policy provider p, 0 when unavailable
  cont     \* cont[e]: the continuity prepared from e's lease

continuityVars == <<policy, cont>>

\* PeerAdmissionPolicyProvider and PeerAdmissionPolicyProviderForTesting
Providers == {"production", "testing"}

Token == [deadline : Nat, state : {"live", "used", "burned"}]

Cont == [status    : {"none", "open", "invalid", "closed", "contained"},
         handle    : BOOLEAN,
         provider  : Providers,
         snapshot  : 0..MaxRevision,
         deadline  : Nat,
         adoptedBy : Evaluators \cup {NoEvaluator},
         tokens    : Seq(Token),
         outstanding : Nat]

NoCont == [status |-> "none", handle |-> FALSE, provider |-> "production",
           snapshot |-> 0, deadline |-> 0, adoptedBy |-> NoEvaluator,
           tokens |-> <<>>, outstanding |-> 0]

ContinuityTypeOK ==
  /\ policy \in [Providers -> 0..MaxRevision]
  /\ cont \in [Endpoints -> Cont]

ContinuityInit ==
  /\ policy = [p \in Providers |-> 1]
  /\ cont = [e \in Endpoints |-> NoCont]

(***************************************************************************)
(* The policy providers.  The host's only moves forward; the one for tests *)
(* may show anything or nothing.                                           *)
(***************************************************************************)
ReplacePolicy(rev) ==
  /\ rev > policy["production"]
  /\ policy' = [policy EXCEPT !["production"] = rev]
  /\ UNCHANGED <<leaseVars, cont>>

SetTestPolicy(rev) ==
  /\ policy["testing"] # rev
  /\ policy' = [policy EXCEPT !["testing"] = rev]
  /\ UNCHANGED <<leaseVars, cont>>

(***************************************************************************)
(* prepare_continuity_from_live_lease, by the lease's owner.  The policy   *)
(* snapshot is taken first, then the process is opened and checked, then   *)
(* the endpoint is claimed.                                                *)
(***************************************************************************)
CanPrepareContinuity(e, p, deadline) ==
  /\ LiveLease(e) /\ lease[e].handle /\ ~lease[e].prepared
  /\ Idle(e)
  /\ policy[p] # 0
  /\ tick < deadline

PrepareContinuity(e, p, deadline, t) ==
  /\ CanPrepareContinuity(e, p, deadline)
  /\ Correlates(e, t)
  /\ ~endpoint[e].continuity
  /\ cont' = [cont EXCEPT ![e] = [NoCont EXCEPT
                !.status = "open", !.handle = TRUE, !.provider = p,
                !.snapshot = policy[p], !.deadline = deadline]]
  /\ endpoint' = [endpoint EXCEPT ![e].continuity = TRUE]
  /\ lease' = [lease EXCEPT ![e].prepared = TRUE]
  /\ tick' = t
  /\ UNCHANGED <<alive, policy>>

\* The handle opened for a continuity that failed its checks cannot be
\* closed; one that can be closed leaves no trace.
PreparationContained(e, p, deadline) ==
  /\ CanPrepareContinuity(e, p, deadline)
  /\ endpoint' = [endpoint EXCEPT ![e].fatal = TRUE]
  /\ UNCHANGED <<tick, alive, lease, continuityVars>>

\* Mutant: the outstanding token is forgotten, not consumed.
Burned_Forgotten(c) == [c EXCEPT !.outstanding = 0]

(***************************************************************************)
(* Giving the continuity up.  _burn_outstanding_locked, then               *)
(* _release_endpoint_claim_locked, then _release_process_locked: the       *)
(* process handle is closed, or it stays and everything is contained.      *)
(***************************************************************************)
Burned(c) ==
  [c EXCEPT !.outstanding = 0,
            !.tokens = IF c.outstanding = 0 THEN @
                       ELSE [@ EXCEPT ![c.outstanding].state = "burned"]]

GiveUp(e, status) ==
  /\ cont' = [cont EXCEPT ![e] = [Burned(@) EXCEPT !.status = status,
                                                   !.handle = FALSE]]
  /\ endpoint' = [endpoint EXCEPT ![e].continuity = FALSE]

\* Mutant: only the continuity is contained.
Contain_EndpointSpared(e) ==
  /\ cont[e].handle
  /\ cont' = [cont EXCEPT ![e] = [Burned(@) EXCEPT !.status = "contained"]]
  /\ endpoint' = [endpoint EXCEPT ![e].continuity = FALSE]

Contain(e) ==
  /\ cont[e].handle
  /\ cont' = [cont EXCEPT ![e] = [Burned(@) EXCEPT !.status = "contained"]]
  /\ endpoint' = [endpoint EXCEPT ![e].continuity = FALSE, ![e].fatal = TRUE]

(* _invalidate_locked *)
Invalidate(e) == GiveUp(e, "invalid") \/ Contain(e)

Open(e) == cont[e].status = "open" /\ cont[e].handle

\* Mutant: the policy is compared when the continuity is prepared only.
Revalidates_PolicyOnce(e) ==
  /\ tick < cont[e].deadline
  /\ endpoint[e].continuity /\ endpoint[e].connected /\ ~endpoint[e].closed
  /\ alive[e]

(***************************************************************************)
(* _revalidate_locked, when it succeeds.  It may always fail, too: a       *)
(* native query may.  The endpoint's fatal flag is not consulted.          *)
(***************************************************************************)
Revalidates(e) ==
  /\ tick < cont[e].deadline
  /\ endpoint[e].continuity /\ endpoint[e].connected /\ ~endpoint[e].closed
  /\ alive[e]
  /\ policy[cont[e].provider] = cont[e].snapshot

(***************************************************************************)
(* mint_use_token.  With the one use kind there is, RESERVED_FOR_TESTING,  *)
(* the production provider is refused; an authority's list of allowed      *)
(* kinds is empty, so an adopted continuity mints nothing.                 *)
(***************************************************************************)
Least(S) == CHOOSE m \in S : \A n \in S : m <= n

UseDeadline(e, until) ==
  Least({tick + TokenTicks, cont[e].deadline, until})

CanMint(e) ==
  /\ Open(e)
  /\ cont[e].adoptedBy = NoEvaluator
  /\ cont[e].provider = "testing"
  /\ cont[e].outstanding = 0
  /\ Len(cont[e].tokens) < MaxTokens

Mint(e, until) ==
  /\ CanMint(e)
  /\ Revalidates(e)
  /\ tick < UseDeadline(e, until)
  /\ cont' = [cont EXCEPT
       ![e].tokens = Append(@, [deadline |-> UseDeadline(e, until), state |-> "live"]),
       ![e].outstanding = Len(cont[e].tokens) + 1]
  /\ UNCHANGED <<leaseVars, policy>>

MintInvalidates(e) ==
  /\ CanMint(e)
  /\ Invalidate(e)
  /\ UNCHANGED <<tick, alive, lease, policy>>

(***************************************************************************)
(* consume_use_token, with a token i the caller holds, naming the          *)
(* operation and kind it was minted for or another: only the outstanding   *)
(* one is looked at, and that uses it up even for the wrong operation or   *)
(* after its deadline.                                                     *)
(***************************************************************************)
CanConsume(e, i) ==
  /\ Open(e)
  /\ cont[e].adoptedBy = NoEvaluator
  /\ i = cont[e].outstanding

Consume(e, i, matches) ==
  LET valid == matches /\ tick < cont[e].tokens[i].deadline IN
  /\ CanConsume(e, i)
  /\ Revalidates(e)
  /\ cont' = [cont EXCEPT
       ![e].tokens[i].state = IF valid THEN "used" ELSE "burned",
       ![e].outstanding = 0]
  /\ UNCHANGED <<leaseVars, policy>>

ConsumeInvalidates(e, i) ==
  /\ CanConsume(e, i)
  /\ Invalidate(e)
  /\ UNCHANGED <<tick, alive, lease, policy>>

\* Mutant: the orchestrator closes what an authority has adopted.
CloseContinuity_Adopted(e) ==
  /\ cont[e].status \in {"open", "invalid"}
  /\ GiveUp(e, "closed") \/ Contain(e)
  /\ UNCHANGED <<tick, alive, lease, policy>>

(***************************************************************************)
(* close, by the orchestrator that still owns the continuity.              *)
(***************************************************************************)
CloseContinuity(e) ==
  /\ cont[e].status \in {"open", "invalid"}
  /\ cont[e].adoptedBy = NoEvaluator
  /\ GiveUp(e, "closed") \/ Contain(e)
  /\ UNCHANGED <<tick, alive, lease, policy>>

ContinuityNext ==
  \/ LeaseNext /\ UNCHANGED continuityVars
  \/ \E rev \in 1..MaxRevision : ReplacePolicy(rev)
  \/ \E rev \in 0..MaxRevision : SetTestPolicy(rev)
  \/ \E e \in Endpoints :
       \/ \E p \in Providers, d \in ContinuityTicks :
            PreparationContained(e, p, d) \/ \E t \in Later : PrepareContinuity(e, p, d, t)
       \/ \E until \in 1..MaxTick : Mint(e, until)
       \/ MintInvalidates(e) \/ CloseContinuity(e)
       \/ \E i \in 1..MaxTokens :
            ConsumeInvalidates(e, i) \/ \E matches \in BOOLEAN : Consume(e, i, matches)
=============================================================================

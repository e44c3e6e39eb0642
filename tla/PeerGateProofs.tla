---------------------------- MODULE PeerGateProofs ----------------------------
(***************************************************************************)
(* Leases, continuities and evaluations, for any number of endpoints, of   *)
(* evaluations of each and of leases in the registry, any deadlines and    *)
(* any policies.  The invariant has two parts: what lease and continuity   *)
(* of an endpoint are to each other, and what an evaluation may rely on    *)
(* between two looks at the continuity it was given.                       *)
(***************************************************************************)
EXTENDS PeerGate, TLAPS, FiniteSetTheorems, NaturalsInduction

\* The outstanding token is the only one that can still be used.
InOrder(c) ==
  /\ \A i \in DOMAIN c.tokens :
       c.tokens[i].state = "live" => i = c.outstanding /\ c.status = "open"
  /\ c.outstanding # 0 =>
       c.outstanding \in DOMAIN c.tokens /\ c.tokens[c.outstanding].state = "live"

\* An endpoint has one lease, and one continuity is prepared from it.
PreparedOnce ==
  \A e \in Endpoints :
    /\ lease[e].status # "none" => endpoint[e].claimed
    /\ lease[e].prepared => lease[e].status # "none"
    /\ cont[e].status # "none" => lease[e].prepared
    /\ cont[e].status = "none" => cont[e] = NoCont
    /\ cont[e].handle => cont[e].status \in {"open", "contained"}

StoreInv ==
  /\ LeaseTypeOK /\ ContinuityTypeOK
  /\ IsFiniteSet(Registry) /\ HandlesStayOwned
  /\ PreparedOnce
  /\ \A e \in Endpoints : InOrder(cont[e])

Ladder == {"6.1", "6.2", "6.3", "7.1"}

\* What evaluation v relies on between two looks at its continuity
Settled(v) ==
  LET x == eval[v]
      c == cont[x.on] IN
  /\ (\E p \in Ladder : At(v, p)) \/ x.result \notin {"check", "ended"} =>
       x.on \in Endpoints /\ c.status # "none"
  /\ At(v, "6.2") \/ At(v, "6.3") \/ At(v, "7.1") => x.bound
  /\ At(v, "6.3") \/ At(v, "7.1") => c.snapshot = x.revision
  /\ x.result = "adopted" => auth[v] = "open"
  /\ auth[v] = "open" =>
       /\ x.result \in {"adopted", "ADMITTED"}
       /\ Open(x.on) /\ endpoint[x.on].continuity /\ c.adoptedBy = v
       /\ x.bound /\ c.snapshot = x.revision
  /\ \A e \in Endpoints :
       cont[e].adoptedBy = v => x.result \in {"adopted", "ADMITTED", "HANDOFF_FAILED"}
  /\ x.result = "AUTHORITY_CONSTRUCTION_FAILED" => c.status = "closed" /\ ~c.handle
  /\ x.result = "INVARIANT_ERROR" => c.adoptedBy \notin {v, NoEvaluator}

EvalInv == GateTypeOK /\ \A v \in Evaluators : Settled(v)

GateInv == StoreInv /\ EvalInv

\* What a step that is not evaluation w's may do to a continuity
Respected(w, e) ==
  /\ cont'[e].adoptedBy = w <=> cont[e].adoptedBy = w
  /\ cont[e].adoptedBy \notin {w, NoEvaluator} => cont'[e].adoptedBy \notin {w, NoEvaluator}
  /\ cont[e].status # "none" => cont'[e].status # "none" /\ cont'[e].snapshot = cont[e].snapshot
  /\ cont[e].status = "closed" => cont'[e].status = "closed" /\ cont'[e].handle = cont[e].handle
  /\ cont[e].adoptedBy = w /\ Open(e) /\ endpoint[e].continuity =>
       cont'[e].status = "open" /\ cont'[e].handle /\ endpoint'[e].continuity

\* No token is used, and none that could not be used is touched
TokensKept(e) ==
  \A i \in DOMAIN cont[e].tokens :
    \/ cont'[e].tokens[i].state = cont[e].tokens[i].state
    \/ cont[e].tokens[i].state = "live" /\ cont'[e].tokens[i].state = "burned"

-----------------------------------------------------------------------------
(* The invariant holds initially.                                          *)
LEMMA GateInitially == Init => GateInv
<1> SUFFICES ASSUME Init PROVE GateInv
  OBVIOUS
<1> USE DEF Init, LeaseInit, ContinuityInit, GateInit
<1>1. LeaseTypeOK
  BY LeaseAssumption
     DEF LeaseTypeOK, NewEndpoint, NoLease, Endpoint, Lease, Sources
<1>2. ContinuityTypeOK
  BY ContinuityAssumption DEF ContinuityTypeOK, NoCont, Cont, Providers, NoEvaluator
<1>3. IsFiniteSet(Registry) /\ Cardinality(Registry) = 0
  <2>1. Registry = {}
    BY DEF Registry, NoLease
  <2> QED BY <2>1, FS_EmptySet
<1>4. HandlesStayOwned
  BY <1>3, LeaseAssumption DEF HandlesStayOwned, NewEndpoint, NoLease, NoCont, Registry
<1>5. PreparedOnce /\ \A e \in Endpoints : InOrder(cont[e])
  BY DEF PreparedOnce, InOrder, NewEndpoint, NoLease, NoCont
<1>6. GateTypeOK
  BY ContinuityAssumption DEF GateTypeOK, Eval, NotStarted, Phases, Results
<1>7. \A v \in Evaluators : Settled(v)
  BY ContinuityAssumption DEF Settled, At, Ladder, NotStarted, NoCont
<1> QED BY <1>1, <1>2, <1>3, <1>4, <1>5, <1>6, <1>7 DEF GateInv, StoreInv, EvalInv

-----------------------------------------------------------------------------
(* The registry stays within its bound when the lease of one endpoint      *)
(* changes, if that endpoint is in it or there was room.                   *)
LEMMA RegistryChanges ==
  ASSUME IsFiniteSet(Registry), Cardinality(Registry) <= MaxLeases,
         NEW e \in Endpoints, lease \in [Endpoints -> Lease],
         NEW r, lease' = [lease EXCEPT ![e] = r],
         e \in Registry \/ Cardinality(Registry) < MaxLeases
  PROVE  IsFiniteSet(Registry)' /\ Cardinality(Registry)' <= MaxLeases
<1>1. Registry' \subseteq Registry \cup {e}
  BY DEF Registry
<1>2. IsFiniteSet(Registry \cup {e}) /\ Cardinality(Registry \cup {e}) <= MaxLeases
  <2>1. Cardinality(Registry) \in Nat
    BY FS_CardinalityType
  <2> QED BY <2>1, FS_AddElement, LeaseAssumption
<1>3. IsFiniteSet(Registry') /\ Cardinality(Registry') <= Cardinality(Registry \cup {e})
  BY <1>1, <1>2, FS_Subset
<1>4. Cardinality(Registry') \in Nat /\ Cardinality(Registry \cup {e}) \in Nat
  BY <1>2, <1>3, FS_CardinalityType
<1> QED BY <1>2, <1>3, <1>4, LeaseAssumption

(* What a change of one lease and its endpoint must obey to leave leases   *)
(* and continuities in order.                                              *)
LEMMA LeaseChanges ==
  ASSUME StoreInv, NEW e \in Endpoints, NEW r \in Lease, NEW d \in Endpoint,
         lease' = [lease EXCEPT ![e] = r], endpoint' = [endpoint EXCEPT ![e] = d],
         tick' \in 0..MaxTick, UNCHANGED <<alive, continuityVars>>,
         e \in Registry \/ Cardinality(Registry) < MaxLeases,
         r.status # "none", d.leased <=> r.status # "released",
         r.handle => r.status # "released",
         d.claimed, d.closed = endpoint[e].closed, d.continuity = endpoint[e].continuity,
         endpoint[e].fatal => d.fatal, r.handle => ~d.closed \/ lease[e].handle,
         lease[e].prepared => r.prepared
  PROVE  StoreInv'
<1> USE DEF continuityVars
<1>1. LeaseTypeOK' /\ ContinuityTypeOK'
  BY DEF StoreInv, LeaseTypeOK, ContinuityTypeOK
<1>2. IsFiniteSet(Registry)' /\ Cardinality(Registry)' <= MaxLeases
  BY RegistryChanges DEF StoreInv, HandlesStayOwned, LeaseTypeOK
<1>3. HandlesStayOwned'
  <2> SUFFICES ASSUME NEW f \in Endpoints
               PROVE  /\ endpoint'[f].leased <=> f \in Registry'
                      /\ lease'[f].handle => f \in Registry'
                      /\ cont'[f].handle => endpoint'[f].continuity \/ endpoint'[f].fatal
                      /\ endpoint'[f].closed => ~lease'[f].handle /\ ~cont'[f].handle
    BY <1>2 DEF HandlesStayOwned
  <2>1. CASE f = e
    <3>1. lease'[e] = r /\ endpoint'[e] = d
      BY DEF StoreInv, LeaseTypeOK
    <3>2. e \in Registry' <=> r.status # "released"
      BY <3>1 DEF Registry, Lease
    <3> QED BY <2>1, <3>1, <3>2 DEF StoreInv, HandlesStayOwned
  <2>2. CASE f # e
    <3>1. lease'[f] = lease[f] /\ endpoint'[f] = endpoint[f]
      BY <2>2 DEF StoreInv, LeaseTypeOK
    <3>2. f \in Registry' <=> f \in Registry
      BY <3>1 DEF Registry
    <3> QED BY <3>1, <3>2 DEF StoreInv, HandlesStayOwned
  <2> QED BY <2>1, <2>2
<1>4. PreparedOnce'
  BY DEF StoreInv, PreparedOnce, LeaseTypeOK
<1>5. \A f \in Endpoints : InOrder(cont[f])'
  BY DEF StoreInv, InOrder
<1> QED BY <1>1, <1>2, <1>3, <1>4, <1>5 DEF StoreInv

(* A lease that is given back leaves the registry.                         *)
LEMMA GiveBackEnds ==
  ASSUME StoreInv, NEW e \in Endpoints, NEW rec \in Lease, GiveBack(e, rec), ~rec.handle,
         tick' \in 0..MaxTick, UNCHANGED <<alive, continuityVars>>,
         e \in Registry \/ Cardinality(Registry) < MaxLeases,
         lease[e].prepared => rec.prepared
  PROVE  StoreInv'
<1> DEFINE r == [rec EXCEPT !.status = "released"]
           d == [endpoint[e] EXCEPT !.claimed = TRUE, !.leased = FALSE]
<1>1. r \in Lease /\ r.status = "released" /\ ~r.handle /\ r.prepared = rec.prepared
  BY DEF Lease
<1>2. endpoint[e] \in Endpoint
  BY DEF StoreInv, LeaseTypeOK
<1>3. d \in Endpoint /\ d.claimed /\ ~d.leased /\ d.closed = endpoint[e].closed
      /\ d.continuity = endpoint[e].continuity /\ d.fatal = endpoint[e].fatal
  BY <1>2 DEF Endpoint
<1>4. lease' = [lease EXCEPT ![e] = r] /\ endpoint' = [endpoint EXCEPT ![e] = d]
  BY DEF GiveBack, StoreInv, LeaseTypeOK
<1> HIDE DEF r, d
<1> QED BY <1>1, <1>3, <1>4, LeaseChanges

(* A lease whose handle or ownership is in doubt is contained, and its     *)
(* endpoint with it.                                                       *)
LEMMA ContainmentEnds ==
  ASSUME StoreInv, NEW e \in Endpoints, NEW rec \in Lease, ContainLease(e, rec),
         rec.handle => ~endpoint[e].closed \/ lease[e].handle,
         tick' \in 0..MaxTick, UNCHANGED <<alive, continuityVars>>,
         e \in Registry \/ Cardinality(Registry) < MaxLeases,
         lease[e].prepared => rec.prepared
  PROVE  StoreInv'
<1> DEFINE r == [rec EXCEPT !.status = "contained"]
           d == [endpoint[e] EXCEPT !.fatal = TRUE, !.claimed = TRUE, !.leased = TRUE]
<1>1. r \in Lease /\ r.status = "contained" /\ r.handle = rec.handle /\ r.prepared = rec.prepared
  BY DEF Lease
<1>2. endpoint[e] \in Endpoint
  BY DEF StoreInv, LeaseTypeOK
<1>3. d \in Endpoint /\ d.claimed /\ d.leased /\ d.closed = endpoint[e].closed
      /\ d.continuity = endpoint[e].continuity /\ d.fatal
  BY <1>2 DEF Endpoint
<1>4. lease' = [lease EXCEPT ![e] = r] /\ endpoint' = [endpoint EXCEPT ![e] = d]
  BY DEF ContainLease, StoreInv, LeaseTypeOK
<1> HIDE DEF r, d
<1> QED BY <1>1, <1>3, <1>4, LeaseChanges

(* However a release ends.                                                 *)
LEMMA ReleaseEnds ==
  ASSUME StoreInv, NEW e \in Endpoints, NEW rec \in Lease, NEW t, Release(e, rec, t),
         rec.handle => ~endpoint[e].closed \/ lease[e].handle,
         tick' \in 0..MaxTick, UNCHANGED <<alive, continuityVars>>,
         e \in Registry \/ Cardinality(Registry) < MaxLeases,
         lease[e].prepared => rec.prepared
  PROVE  StoreInv'
<1> DEFINE used == [rec EXCEPT !.consumed = TRUE, !.handle = FALSE]
           kept == [rec EXCEPT !.consumed = TRUE]
<1>1. used \in Lease /\ ~used.handle /\ used.prepared = rec.prepared
  BY DEF Lease
<1>2. kept \in Lease /\ kept.handle = rec.handle /\ kept.prepared = rec.prepared
  BY DEF Lease
<1>3. GiveBack(e, used) \/ ContainLease(e, used) \/ ContainLease(e, kept)
  BY DEF Release, ReleaseUnheld
<1> HIDE DEF used, kept
<1> QED BY <1>1, <1>2, <1>3, GiveBackEnds, ContainmentEnds

(* Acquiring a lease, however it ends.                                     *)
LEMMA AcquisitionSteps ==
  ASSUME StoreInv, NEW e \in Endpoints, NEW t \in Later, NEW src \in Sources,
         UNCHANGED continuityVars,
         \/ Acquire(e, src, t) \/ AcquireUnopened(e, src, t) \/ DropUnopened(e, t)
         \/ AcquireContained(e, src, t) \/ AcquireUncorrelated(e, src, t)
  PROVE  StoreInv'
<1>1. /\ Cardinality(Registry) < MaxLeases /\ ~endpoint[e].closed /\ ~endpoint[e].claimed
      /\ tick' = t /\ UNCHANGED alive
  BY DEF Acquire, AcquireUnopened, DropUnopened, AcquireContained, AcquireUncorrelated,
         CanPrepare, Idle, Usable
<1>2. tick' \in 0..MaxTick
  BY <1>1 DEF Later, StoreInv, LeaseTypeOK
<1>3. ~lease[e].prepared
  BY <1>1 DEF StoreInv, PreparedOnce
<1> DEFINE opened == [Fresh(src) EXCEPT !.handle = TRUE]
           dropped == [Fresh("NATIVE_PROCESS_API") EXCEPT !.consumed = TRUE]
<1>4. /\ opened \in Lease /\ Fresh(src) \in Lease /\ dropped \in Lease
      /\ opened.status = "live" /\ ~Fresh(src).handle /\ ~dropped.handle
  BY DEF Fresh, NoLease, Lease, Sources
<1>5. CASE Acquire(e, src, t)
  <2> DEFINE d == [endpoint[e] EXCEPT !.claimed = TRUE, !.leased = TRUE]
  <2>1. endpoint[e] \in Endpoint
    BY DEF StoreInv, LeaseTypeOK
  <2>2. d \in Endpoint /\ d.claimed /\ d.leased /\ d.closed = endpoint[e].closed
        /\ d.continuity = endpoint[e].continuity /\ d.fatal = endpoint[e].fatal
    BY <2>1 DEF Endpoint
  <2>3. lease' = [lease EXCEPT ![e] = opened] /\ endpoint' = [endpoint EXCEPT ![e] = d]
    BY <1>5 DEF Acquire, StoreInv, LeaseTypeOK
  <2> HIDE DEF d, opened
  <2> QED BY <1>1, <1>2, <1>3, <1>4, <2>2, <2>3, LeaseChanges
<1>6. CASE AcquireUnopened(e, src, t)
  <2>1. Release(e, Fresh(src), t)
    BY <1>6 DEF AcquireUnopened, Release
  <2> QED BY <1>1, <1>2, <1>3, <1>4, <2>1, ReleaseEnds
<1>7. CASE DropUnopened(e, t)
  <2>1. GiveBack(e, dropped)
    BY <1>7 DEF DropUnopened
  <2> HIDE DEF dropped
  <2> QED BY <1>1, <1>2, <1>3, <1>4, <2>1, GiveBackEnds
<1>8. CASE AcquireContained(e, src, t)
  <2>1. ContainLease(e, opened)
    BY <1>8 DEF AcquireContained
  <2> HIDE DEF opened
  <2> QED BY <1>1, <1>2, <1>3, <1>4, <2>1, ContainmentEnds
<1>9. CASE AcquireUncorrelated(e, src, t)
  <2>1. Release(e, opened, t)
    BY <1>9 DEF AcquireUncorrelated
  <2> HIDE DEF opened
  <2> QED BY <1>1, <1>2, <1>3, <1>4, <2>1, ReleaseEnds
<1> QED BY <1>5, <1>6, <1>7, <1>8, <1>9

(* The one use of a lease.                                                 *)
LEMMA LeaseUseSteps ==
  ASSUME StoreInv, NEW e \in Endpoints, NEW t \in Later, UNCHANGED continuityVars,
         Finish(e, t) \/ Abort(e, t)
  PROVE  StoreInv'
<1>1. e \in Registry /\ tick' = t /\ UNCHANGED alive
  BY DEF Finish, Abort, LiveLease, Registry
<1>2. tick' \in 0..MaxTick
  BY <1>1 DEF Later, StoreInv, LeaseTypeOK
<1>3. PICK a \in {"CORRELATED", "INDETERMINATE"} : Release(e, [lease[e] EXCEPT !.audit = a], t)
  BY DEF Finish, Abort
<1> DEFINE rec == [lease[e] EXCEPT !.audit = a]
<1>4. lease[e] \in Lease
  BY DEF StoreInv, LeaseTypeOK
<1>5. rec \in Lease /\ rec.handle = lease[e].handle /\ rec.prepared = lease[e].prepared
  BY <1>4 DEF Lease
<1>6. Release(e, rec, t)
  BY <1>3
<1> HIDE DEF rec
<1> QED BY <1>1, <1>2, <1>5, <1>6, ReleaseEnds

(* What a change of the endpoint alone must obey.                          *)
LEMMA EndpointChanges ==
  ASSUME StoreInv, NEW e \in Endpoints, NEW d \in Endpoint,
         endpoint' = [endpoint EXCEPT ![e] = d], UNCHANGED <<tick, alive, lease, continuityVars>>,
         d.leased = endpoint[e].leased, d.claimed = endpoint[e].claimed,
         d.continuity = endpoint[e].continuity, endpoint[e].fatal => d.fatal,
         d.closed => \/ endpoint[e].closed
                     \/ ~endpoint[e].fatal /\ ~endpoint[e].leased /\ ~endpoint[e].continuity
  PROVE  StoreInv'
<1> USE DEF continuityVars
<1>1. LeaseTypeOK' /\ ContinuityTypeOK' /\ UNCHANGED Registry
  BY DEF StoreInv, LeaseTypeOK, ContinuityTypeOK, Registry
<1>2. HandlesStayOwned'
  BY <1>1 DEF StoreInv, LeaseTypeOK, HandlesStayOwned
<1>3. PreparedOnce'
  BY DEF StoreInv, PreparedOnce, LeaseTypeOK
<1> QED BY <1>1, <1>2, <1>3 DEF StoreInv, InOrder

(* The endpoint and its client.                                            *)
LEMMA EndpointSteps ==
  ASSUME StoreInv, NEW e \in Endpoints, UNCHANGED continuityVars,
         \/ Connect(e) \/ BeginOperation(e) \/ EndOperation(e)
         \/ OperationContained(e) \/ CloseEndpoint(e)
  PROVE  StoreInv'
<1>0. endpoint[e] \in Endpoint
  BY DEF StoreInv, LeaseTypeOK
<1>1. ASSUME NEW d, d \in {[endpoint[e] EXCEPT !.connected = TRUE],
                          [endpoint[e] EXCEPT !.active = TRUE],
                          [endpoint[e] EXCEPT !.active = FALSE],
                          [endpoint[e] EXCEPT !.fatal = TRUE]},
             endpoint' = [endpoint EXCEPT ![e] = d], UNCHANGED <<tick, alive, lease>>
      PROVE  StoreInv'
  <2>1. /\ d \in Endpoint /\ d.leased = endpoint[e].leased /\ d.claimed = endpoint[e].claimed
        /\ d.continuity = endpoint[e].continuity /\ d.closed = endpoint[e].closed
        /\ endpoint[e].fatal => d.fatal
    BY <1>0, <1>1 DEF Endpoint
  <2> QED BY <1>1, <2>1, EndpointChanges
<1>2. CASE CloseEndpoint(e) /\ endpoint' = [endpoint EXCEPT ![e].closed = TRUE]
  <2> DEFINE d == [endpoint[e] EXCEPT !.closed = TRUE]
  <2>1. /\ d \in Endpoint /\ d.leased = endpoint[e].leased /\ d.claimed = endpoint[e].claimed
        /\ d.continuity = endpoint[e].continuity /\ d.fatal = endpoint[e].fatal
    BY <1>0 DEF Endpoint
  <2>2. endpoint' = [endpoint EXCEPT ![e] = d]
    BY <1>2 DEF StoreInv, LeaseTypeOK
  <2> HIDE DEF d
  <2> QED BY <1>2, <2>1, <2>2, EndpointChanges DEF CloseEndpoint, Usable
<1>3. CASE /\ UNCHANGED <<tick, alive, lease>>
           /\ \/ endpoint' = [endpoint EXCEPT ![e].connected = TRUE]
              \/ endpoint' = [endpoint EXCEPT ![e].active = TRUE]
              \/ endpoint' = [endpoint EXCEPT ![e].active = FALSE]
              \/ endpoint' = [endpoint EXCEPT ![e].fatal = TRUE]
  BY <1>1, <1>3 DEF StoreInv, LeaseTypeOK
<1> QED BY <1>2, <1>3
        DEF Connect, BeginOperation, EndOperation, OperationContained, CloseEndpoint

(* Steps that touch neither lease nor continuity.                          *)
LEMMA OutsideSteps ==
  ASSUME StoreInv, UNCHANGED <<endpoint, lease, cont>>, LeaseTypeOK', ContinuityTypeOK'
  PROVE  StoreInv'
BY DEF StoreInv, HandlesStayOwned, PreparedOnce, InOrder, Registry

(* No step on leases and endpoints breaks it.                              *)
LEMMA LeaseKeepsStoreInv ==
  ASSUME StoreInv, LeaseNext, UNCHANGED continuityVars PROVE StoreInv'
<1>1. CASE Tick
  BY <1>1, LeaseAssumption, OutsideSteps DEF Tick, StoreInv, LeaseTypeOK, ContinuityTypeOK, continuityVars
<1>2. CASE \E e \in Endpoints : PeerExits(e)
  BY <1>2, OutsideSteps DEF PeerExits, StoreInv, LeaseTypeOK, ContinuityTypeOK, continuityVars
<1>3. CASE \E e \in Endpoints : Connect(e) \/ BeginOperation(e) \/ EndOperation(e)
                                \/ OperationContained(e) \/ CloseEndpoint(e)
  BY <1>3, EndpointSteps
<1>4. CASE \E e \in Endpoints : \E t \in Later : Finish(e, t) \/ Abort(e, t)
  BY <1>4, LeaseUseSteps
<1>5. CASE \E e \in Endpoints : \E t \in Later :
             \/ DropUnopened(e, t)
             \/ \E src \in Sources :
                  \/ Acquire(e, src, t) \/ AcquireUnopened(e, src, t)
                  \/ AcquireContained(e, src, t) \/ AcquireUncorrelated(e, src, t)
  <2>1. "NATIVE_PROCESS_API" \in Sources
    BY DEF Sources
  <2> QED BY <1>5, <2>1, AcquisitionSteps
<1> QED BY <1>1, <1>2, <1>3, <1>4, <1>5 DEF LeaseNext

-----------------------------------------------------------------------------
WithTokens(c, toks, n) == [c EXCEPT !.tokens = toks, !.outstanding = n]

(* A continuity whose tokens change is otherwise as it was.                *)
LEMMA EditedTokens ==
  ASSUME NEW c \in Cont, NEW toks \in Seq(Token), NEW n \in Nat
  PROVE  LET d == WithTokens(c, toks, n) IN
         /\ d \in Cont /\ d.tokens = toks /\ d.outstanding = n
         /\ d.status = c.status /\ d.handle = c.handle
         /\ d.snapshot = c.snapshot /\ d.adoptedBy = c.adoptedBy
BY DEF Cont, WithTokens

(* Outstanding and tokens are set in either order.                         *)
LEMMA EitherOrder ==
  ASSUME NEW c \in Cont, NEW toks \in Seq(Token), NEW n \in Nat
  PROVE  [c EXCEPT !.outstanding = n, !.tokens = toks] = WithTokens(c, toks, n)
<1> DEFINE x == [c EXCEPT !.outstanding = n, !.tokens = toks]
           y == WithTokens(c, toks, n)
           fields == {"status", "handle", "provider", "snapshot", "deadline",
                      "adoptedBy", "tokens", "outstanding"}
<1>1. x = [f \in fields |-> x[f]] /\ y = [f \in fields |-> y[f]]
  BY DEF Cont, WithTokens
<1>2. \A f \in fields : x[f] = y[f]
  BY DEF Cont, WithTokens
<1> QED BY <1>1, <1>2

(* Burning the outstanding token leaves none that can be used.             *)
LEMMA BurnedEndsTokens ==
  ASSUME NEW c \in Cont, InOrder(c)
  PROVE  LET b == Burned(c) IN
         /\ b \in Cont /\ b.outstanding = 0
         /\ b.snapshot = c.snapshot /\ b.adoptedBy = c.adoptedBy /\ b.handle = c.handle
         /\ DOMAIN b.tokens = DOMAIN c.tokens
         /\ \A i \in DOMAIN c.tokens :
              /\ b.tokens[i].state # "live"
              /\ \/ b.tokens[i].state = c.tokens[i].state
                 \/ c.tokens[i].state = "live" /\ b.tokens[i].state = "burned"
<1>1. c.tokens \in Seq(Token)
  BY DEF Cont
<1>2. CASE c.outstanding = 0
  <2>1. Burned(c) = [c EXCEPT !.outstanding = 0, !.tokens = c.tokens]
    BY <1>2 DEF Burned
  <2>2. Burned(c) = c
    BY <1>2, <2>1 DEF Cont
  <2> QED BY <1>2, <2>2 DEF InOrder, Cont
<1>3. CASE c.outstanding # 0
  <2> DEFINE n == c.outstanding
             u == [c.tokens[n] EXCEPT !.state = "burned"]
             toks == [c.tokens EXCEPT ![n] = u]
  <2>1. n \in DOMAIN c.tokens /\ c.tokens[n].state = "live" /\ c.tokens[n] \in Token
    BY <1>1, <1>3 DEF InOrder
  <2>2. u \in Token /\ u.state = "burned"
    BY <2>1 DEF Token
  <2> HIDE DEF u
  <2>3. /\ toks \in Seq(Token) /\ DOMAIN toks = DOMAIN c.tokens /\ toks[n] = u
        /\ \A i \in DOMAIN c.tokens \ {n} : toks[i] = c.tokens[i]
    BY <1>1, <2>1, <2>2
  <2>4. Burned(c) = WithTokens(c, toks, 0)
    <3>1. Burned(c) = [c EXCEPT !.outstanding = 0, !.tokens = toks]
      BY <1>3 DEF Burned, u
    <3> HIDE DEF toks
    <3> QED BY <2>3, <3>1, EitherOrder
  <2> HIDE DEF toks
  <2>5. LET b == Burned(c) IN
        /\ b \in Cont /\ b.outstanding = 0 /\ b.tokens = toks
        /\ b.snapshot = c.snapshot /\ b.adoptedBy = c.adoptedBy /\ b.handle = c.handle
    BY <2>3, <2>4, EditedTokens
  <2>6. \A i \in DOMAIN c.tokens : i # n => c.tokens[i].state # "live"
    BY DEF InOrder
  <2> QED BY <2>1, <2>2, <2>3, <2>5, <2>6
<1> QED BY <1>2, <1>3

LeftIn(b, status, handle) == [b EXCEPT !.status = status, !.handle = handle]

(* What a change of one continuity and its endpoint must obey.             *)
LEMMA ContinuityChanges ==
  ASSUME StoreInv, NEW e \in Endpoints, NEW c \in Cont, NEW d \in Endpoint,
         cont' = [cont EXCEPT ![e] = c], endpoint' = [endpoint EXCEPT ![e] = d],
         UNCHANGED <<tick, alive, lease, policy>>,
         cont[e].status # "none", c.status # "none",
         d.leased = endpoint[e].leased, d.claimed = endpoint[e].claimed,
         d.closed = endpoint[e].closed, endpoint[e].fatal => d.fatal,
         c.handle => cont[e].handle, c.handle => d.continuity \/ d.fatal,
         c.handle => c.status \in {"open", "contained"}, InOrder(c)
  PROVE  StoreInv'
<1>0. /\ cont'[e] = c /\ endpoint'[e] = d
      /\ \A f \in Endpoints \ {e} : cont'[f] = cont[f] /\ endpoint'[f] = endpoint[f]
  BY DEF StoreInv, LeaseTypeOK, ContinuityTypeOK
<1>1. LeaseTypeOK' /\ ContinuityTypeOK' /\ UNCHANGED Registry
  BY DEF StoreInv, LeaseTypeOK, ContinuityTypeOK, Registry
<1>2. HandlesStayOwned'
  <2> SUFFICES ASSUME NEW f \in Endpoints
               PROVE  /\ endpoint'[f].leased <=> f \in Registry'
                      /\ lease'[f].handle => f \in Registry'
                      /\ cont'[f].handle => endpoint'[f].continuity \/ endpoint'[f].fatal
                      /\ endpoint'[f].closed => ~lease'[f].handle /\ ~cont'[f].handle
    BY <1>1 DEF HandlesStayOwned, StoreInv
  <2>1. CASE f = e
    BY <1>0, <1>1, <2>1 DEF StoreInv, HandlesStayOwned
  <2>2. CASE f # e
    BY <1>0, <1>1, <2>2 DEF StoreInv, HandlesStayOwned
  <2> QED BY <2>1, <2>2
<1>3. PreparedOnce'
  BY <1>0 DEF StoreInv, PreparedOnce
<1>4. \A f \in Endpoints : InOrder(cont'[f])
  BY <1>0 DEF StoreInv
<1>5. \A f \in Endpoints : InOrder(cont[f])'
  BY <1>4 DEF InOrder
<1> QED BY <1>1, <1>2, <1>3, <1>5 DEF StoreInv

Ends(e) ==
  \/ GiveUp(e, "invalid") \/ GiveUp(e, "closed")
  \/ Contain(e)

(* Giving a continuity up: nothing of it can be used any more.             *)
LEMMA EndingSteps ==
  ASSUME StoreInv, NEW e \in Endpoints, Ends(e), cont[e].status # "none",
         UNCHANGED <<tick, alive, lease, policy>>
  PROVE  /\ StoreInv'
         /\ \A f \in Endpoints \ {e} : cont'[f] = cont[f] /\ endpoint'[f] = endpoint[f]
         /\ cont'[e].snapshot = cont[e].snapshot /\ cont'[e].adoptedBy = cont[e].adoptedBy
         /\ GiveUp(e, "invalid") => cont'[e].status = "invalid" /\ ~cont'[e].handle
         /\ GiveUp(e, "closed") => cont'[e].status = "closed" /\ ~cont'[e].handle
         /\ Contain(e) => cont'[e].status = "contained"
         /\ \A f \in Endpoints : TokensKept(f)
<1> DEFINE b == Burned(cont[e])
<1>1. cont[e] \in Cont /\ InOrder(cont[e]) /\ endpoint[e] \in Endpoint
  BY DEF StoreInv, ContinuityTypeOK, LeaseTypeOK
<1>2. /\ b \in Cont /\ b.outstanding = 0
      /\ b.snapshot = cont[e].snapshot /\ b.adoptedBy = cont[e].adoptedBy
      /\ b.handle = cont[e].handle
      /\ DOMAIN b.tokens = DOMAIN cont[e].tokens
      /\ \A i \in DOMAIN b.tokens :
           /\ b.tokens[i].state # "live"
           /\ \/ b.tokens[i].state = cont[e].tokens[i].state
              \/ cont[e].tokens[i].state = "live" /\ b.tokens[i].state = "burned"
  BY <1>1, BurnedEndsTokens
<1> HIDE DEF b
<1>3. ASSUME NEW status \in {"invalid", "closed", "contained"}, NEW handle \in BOOLEAN,
             NEW d \in Endpoint, d.leased = endpoint[e].leased, d.claimed = endpoint[e].claimed,
             d.closed = endpoint[e].closed, endpoint[e].fatal => d.fatal,
             handle => cont[e].handle /\ d.fatal /\ status = "contained",
             cont' = [cont EXCEPT ![e] = LeftIn(b, status, handle)],
             endpoint' = [endpoint EXCEPT ![e] = d]
      PROVE  /\ StoreInv'
             /\ \A f \in Endpoints \ {e} : cont'[f] = cont[f] /\ endpoint'[f] = endpoint[f]
             /\ cont'[e].snapshot = cont[e].snapshot /\ cont'[e].adoptedBy = cont[e].adoptedBy
             /\ cont'[e].status = status /\ cont'[e].handle = handle
             /\ \A f \in Endpoints : TokensKept(f)
  <2> DEFINE c == LeftIn(b, status, handle)
  <2>d. status \in {"open", "invalid", "closed", "contained"}
    OBVIOUS
  <2>1. /\ c \in Cont /\ c.status = status /\ c.handle = handle
        /\ c.snapshot = b.snapshot /\ c.adoptedBy = b.adoptedBy
        /\ c.tokens = b.tokens /\ c.outstanding = b.outstanding
    <3>1. b \in Cont
      BY <1>2
    <3>2. c \in Cont /\ c.status = status /\ c.handle = handle
      BY <2>d, <3>1 DEF LeftIn, Cont
    <3>3. /\ c.snapshot = b.snapshot /\ c.adoptedBy = b.adoptedBy
          /\ c.tokens = b.tokens /\ c.outstanding = b.outstanding
      BY <3>1 DEF LeftIn, Cont
    <3> HIDE DEF c
    <3> QED BY <3>2, <3>3
  <2>2. cont' = [cont EXCEPT ![e] = c]
    BY <1>3
  <2> HIDE DEF c
  <2>3. InOrder(c)
    BY <1>2, <2>1 DEF InOrder
  <2>4. StoreInv'
    BY <1>3, <2>1, <2>2, <2>3, ContinuityChanges
  <2>5. cont'[e] = c /\ \A f \in Endpoints \ {e} : cont'[f] = cont[f] /\ endpoint'[f] = endpoint[f]
    BY <1>3, <2>2 DEF StoreInv, ContinuityTypeOK, LeaseTypeOK
  <2>6. \A f \in Endpoints : TokensKept(f)
    BY <1>2, <2>1, <2>5 DEF TokensKept
  <2> QED BY <1>2, <2>1, <2>4, <2>5, <2>6
<1> DEFINE free == [endpoint[e] EXCEPT !.continuity = FALSE]
           condemned == [endpoint[e] EXCEPT !.continuity = FALSE, !.fatal = TRUE]
<1>4. /\ free \in Endpoint /\ free.leased = endpoint[e].leased /\ free.claimed = endpoint[e].claimed
      /\ free.closed = endpoint[e].closed /\ free.fatal = endpoint[e].fatal
      /\ condemned \in Endpoint /\ condemned.leased = endpoint[e].leased
      /\ condemned.claimed = endpoint[e].claimed
      /\ condemned.closed = endpoint[e].closed /\ condemned.fatal
  BY <1>1 DEF Endpoint
<1>5. ASSUME NEW status \in {"invalid", "closed"}, GiveUp(e, status)
      PROVE  /\ cont' = [cont EXCEPT ![e] = LeftIn(b, status, FALSE)]
             /\ endpoint' = [endpoint EXCEPT ![e] = free]
  BY <1>5 DEF GiveUp, LeftIn, b, StoreInv, ContinuityTypeOK, LeaseTypeOK
<1>6. ASSUME Contain(e)
      PROVE  /\ cont' = [cont EXCEPT ![e] = LeftIn(b, "contained", TRUE)]
             /\ endpoint' = [endpoint EXCEPT ![e] = condemned] /\ cont[e].handle
  <2>1. cont' = [cont EXCEPT ![e] = [b EXCEPT !.status = "contained"]] /\ b.handle
    BY <1>2, <1>6 DEF Contain, b, StoreInv, ContinuityTypeOK
  <2>2. [b EXCEPT !.status = "contained"] = LeftIn(b, "contained", TRUE)
    BY <1>2, <2>1 DEF Cont, LeftIn
  <2> QED BY <1>6, <2>1, <2>2 DEF Contain, StoreInv, LeaseTypeOK
<1> HIDE DEF free, condemned
<1>7. ASSUME NEW status \in {"invalid", "closed"}, GiveUp(e, status)
      PROVE  /\ StoreInv' /\ cont'[e].status = status /\ ~cont'[e].handle
             /\ \A f \in Endpoints \ {e} : cont'[f] = cont[f] /\ endpoint'[f] = endpoint[f]
             /\ cont'[e].snapshot = cont[e].snapshot /\ cont'[e].adoptedBy = cont[e].adoptedBy
             /\ \A f \in Endpoints : TokensKept(f)
  BY <1>3, <1>4, <1>5, <1>7
<1>8. ASSUME Contain(e)
      PROVE  /\ StoreInv' /\ cont'[e].status = "contained"
             /\ \A f \in Endpoints \ {e} : cont'[f] = cont[f] /\ endpoint'[f] = endpoint[f]
             /\ cont'[e].snapshot = cont[e].snapshot /\ cont'[e].adoptedBy = cont[e].adoptedBy
             /\ \A f \in Endpoints : TokensKept(f)
  BY <1>3, <1>4, <1>6, <1>8
<1> QED BY <1>7, <1>8 DEF Ends

Prepared(p, snapshot, until) ==
  [NoCont EXCEPT !.status = "open", !.handle = TRUE, !.provider = p,
                 !.snapshot = snapshot, !.deadline = until]

(* A continuity as it is prepared.                                         *)
LEMMA FreshContinuity ==
  ASSUME NEW p \in Providers, NEW snapshot \in 0..MaxRevision, NEW until \in Nat
  PROVE  LET d == Prepared(p, snapshot, until) IN
         /\ d \in Cont /\ d.status = "open" /\ d.handle /\ d.adoptedBy = NoEvaluator
         /\ d.tokens = <<>> /\ d.outstanding = 0
<1>1. Prepared(p, snapshot, until) =
        [status |-> "open", handle |-> TRUE, provider |-> p, snapshot |-> snapshot,
         deadline |-> until, adoptedBy |-> NoEvaluator, tokens |-> <<>>, outstanding |-> 0]
  <2>1. ASSUME NEW d, d = Prepared(p, snapshot, until)
        PROVE  d = [status |-> "open", handle |-> TRUE, provider |-> p, snapshot |-> snapshot,
                    deadline |-> until, adoptedBy |-> NoEvaluator, tokens |-> <<>>,
                    outstanding |-> 0]
    BY <2>1 DEF Prepared, NoCont
  <2> QED BY <2>1
<1>2. <<>> \in Seq(Token)
  OBVIOUS
<1> QED BY <1>1, <1>2 DEF Cont

(* Claiming the endpoint of a live lease for a continuity, the first one.  *)
LEMMA PrepareStep ==
  ASSUME StoreInv, NEW e \in Endpoints, NEW p \in Providers, NEW until \in ContinuityTicks,
         NEW t \in Later, PrepareContinuity(e, p, until, t)
  PROVE  /\ StoreInv'
         /\ cont[e] = NoCont /\ cont'[e].status = "open" /\ cont'[e].adoptedBy = NoEvaluator
         /\ \A f \in Endpoints \ {e} : cont'[f] = cont[f] /\ endpoint'[f] = endpoint[f]
<1> DEFINE c == Prepared(p, policy[p], until)
           d == [endpoint[e] EXCEPT !.continuity = TRUE]
           r == [lease[e] EXCEPT !.prepared = TRUE]
<1>1. /\ lease[e] \in Lease /\ endpoint[e] \in Endpoint /\ policy[p] \in 0..MaxRevision
      /\ lease[e].status = "live" /\ ~lease[e].prepared /\ ~endpoint[e].closed
  BY DEF StoreInv, LeaseTypeOK, ContinuityTypeOK, PrepareContinuity, CanPrepareContinuity,
         LiveLease, Idle, Usable
<1>2. cont[e] = NoCont /\ endpoint[e].claimed
  BY <1>1 DEF StoreInv, PreparedOnce
<1>3. /\ c \in Cont /\ c.status = "open" /\ c.handle /\ c.adoptedBy = NoEvaluator
      /\ c.tokens = <<>> /\ c.outstanding = 0
  BY <1>1, ContinuityAssumption, FreshContinuity
<1>4. /\ d \in Endpoint /\ d.continuity /\ d.leased = endpoint[e].leased
      /\ d.claimed = endpoint[e].claimed /\ d.closed = endpoint[e].closed
  BY <1>1 DEF Endpoint
<1>5. r \in Lease /\ r.prepared /\ r.status = lease[e].status /\ r.handle = lease[e].handle
  BY <1>1 DEF Lease
<1>6. /\ cont' = [cont EXCEPT ![e] = c] /\ endpoint' = [endpoint EXCEPT ![e] = d]
      /\ lease' = [lease EXCEPT ![e] = r] /\ tick' = t /\ UNCHANGED <<alive, policy>>
  BY DEF PrepareContinuity, Prepared, StoreInv, LeaseTypeOK
<1> HIDE DEF c, d, r
<1>7. /\ cont'[e] = c /\ endpoint'[e] = d /\ lease'[e] = r
      /\ \A f \in Endpoints \ {e} :
           cont'[f] = cont[f] /\ endpoint'[f] = endpoint[f] /\ lease'[f] = lease[f]
  BY <1>6 DEF StoreInv, LeaseTypeOK, ContinuityTypeOK
<1>8. LeaseTypeOK' /\ ContinuityTypeOK'
  BY <1>3, <1>4, <1>5, <1>6 DEF StoreInv, LeaseTypeOK, ContinuityTypeOK, Later
<1>9. Registry' = Registry
  BY <1>5, <1>7 DEF Registry
<1>10. HandlesStayOwned'
  <2> SUFFICES ASSUME NEW f \in Endpoints
               PROVE  /\ endpoint'[f].leased <=> f \in Registry'
                      /\ lease'[f].handle => f \in Registry'
                      /\ cont'[f].handle => endpoint'[f].continuity \/ endpoint'[f].fatal
                      /\ endpoint'[f].closed => ~lease'[f].handle /\ ~cont'[f].handle
    BY <1>9 DEF HandlesStayOwned, StoreInv
  <2>1. CASE f = e
    BY <1>1, <1>4, <1>5, <1>7, <1>9, <2>1 DEF StoreInv, HandlesStayOwned
  <2>2. CASE f # e
    BY <1>7, <1>9, <2>2 DEF StoreInv, HandlesStayOwned
  <2> QED BY <2>1, <2>2
<1>11. PreparedOnce'
  <2>1. /\ lease'[e].status # "none" /\ lease'[e].prepared /\ endpoint'[e].claimed
        /\ cont'[e].status = "open"
    BY <1>1, <1>2, <1>3, <1>4, <1>5, <1>7
  <2>2. PreparedOnce
    BY DEF StoreInv
  <2> QED BY <1>7, <2>1, <2>2 DEF PreparedOnce
<1>12. \A f \in Endpoints : InOrder(cont'[f])
  <2>1. InOrder(c)
    BY <1>3 DEF InOrder
  <2>2. \A f \in Endpoints : InOrder(cont[f])
    BY DEF StoreInv
  <2> QED BY <1>7, <2>1, <2>2
<1>13. \A f \in Endpoints : InOrder(cont[f])'
  BY <1>12 DEF InOrder
<1>14. StoreInv'
  BY <1>8, <1>9, <1>10, <1>11, <1>13 DEF StoreInv
<1> QED BY <1>2, <1>3, <1>7, <1>14

(* A token is minted when there is no other.                               *)
LEMMA MintStep ==
  ASSUME StoreInv, NEW e \in Endpoints, NEW until \in 1..MaxTick, Mint(e, until)
  PROVE  /\ StoreInv'
         /\ cont[e].adoptedBy = NoEvaluator /\ cont'[e].adoptedBy = NoEvaluator
         /\ cont'[e].status = "open" /\ cont[e].status = "open"
         /\ cont'[e].snapshot = cont[e].snapshot
         /\ \A f \in Endpoints \ {e} : cont'[f] = cont[f] /\ endpoint'[f] = endpoint[f]
         /\ \A f \in Endpoints : TokensKept(f)
<1> DEFINE k == [deadline |-> UseDeadline(e, until), state |-> "live"]
           n == Len(cont[e].tokens) + 1
           toks == Append(cont[e].tokens, k)
           c == WithTokens(cont[e], toks, n)
<1>1. /\ cont[e] \in Cont /\ InOrder(cont[e]) /\ cont[e].tokens \in Seq(Token)
      /\ cont[e].outstanding = 0 /\ cont[e].status = "open" /\ cont[e].handle
      /\ cont[e].adoptedBy = NoEvaluator /\ endpoint[e] \in Endpoint /\ endpoint[e].continuity
      /\ tick \in Nat /\ cont[e].deadline \in Nat
  BY LeaseAssumption
     DEF Mint, CanMint, Open, Revalidates, StoreInv, ContinuityTypeOK, LeaseTypeOK, Cont
<1>2. UseDeadline(e, until) \in Nat
  <2>1. tick + TokenTicks \in Nat /\ until \in Nat
    BY <1>1, ContinuityAssumption, LeaseAssumption
  <2> DEFINE S == {tick + TokenTicks, cont[e].deadline, until}
  <2>2. \E m \in S : \A x \in S : m <= x
    BY <1>1, <2>1
  <2>3. Least(S) \in S
    BY <2>2 DEF Least
  <2> QED BY <1>1, <2>1, <2>3 DEF UseDeadline
<1>3. k \in Token /\ k.state = "live"
  BY <1>2 DEF Token
<1> HIDE DEF k
<1>4. /\ toks \in Seq(Token) /\ DOMAIN toks = DOMAIN cont[e].tokens \cup {n} /\ toks[n] = k
      /\ \A i \in DOMAIN cont[e].tokens : toks[i] = cont[e].tokens[i] /\ i # 0
      /\ n \in Nat /\ n # 0
  <2>1. cont[e].tokens \in Seq(Token)
    BY <1>1
  <2> QED BY <1>3, <2>1
<1>5. cont' = [cont EXCEPT ![e] = c]
  BY DEF Mint, WithTokens, k, StoreInv, ContinuityTypeOK
<1> HIDE DEF toks, n
<1>6. /\ c \in Cont /\ c.tokens = toks /\ c.outstanding = n /\ c.status = "open" /\ c.handle
      /\ c.adoptedBy = NoEvaluator /\ c.snapshot = cont[e].snapshot
  <2>1. cont[e] \in Cont /\ toks \in Seq(Token) /\ n \in Nat
    BY <1>1, <1>4
  <2>2. c \in Cont /\ c.tokens = toks /\ c.outstanding = n
    BY <2>1, EditedTokens
  <2>3. /\ c.status = cont[e].status /\ c.handle = cont[e].handle
        /\ c.adoptedBy = cont[e].adoptedBy /\ c.snapshot = cont[e].snapshot
    BY <2>1, EditedTokens
  <2> HIDE DEF c
  <2> QED BY <1>1, <2>1, <2>2, <2>3
<1> HIDE DEF c
<1>7. InOrder(c)
  BY <1>1, <1>3, <1>4, <1>6 DEF InOrder
<1>8. endpoint' = [endpoint EXCEPT ![e] = endpoint[e]] /\ UNCHANGED <<tick, alive, lease, policy>>
  BY DEF Mint, leaseVars, StoreInv, LeaseTypeOK
<1>9. StoreInv'
  BY <1>1, <1>5, <1>6, <1>7, <1>8, ContinuityChanges
<1>10. cont'[e] = c /\ \A f \in Endpoints \ {e} : cont'[f] = cont[f] /\ endpoint'[f] = endpoint[f]
  BY <1>5, <1>8 DEF StoreInv, ContinuityTypeOK, LeaseTypeOK
<1>11. \A f \in Endpoints : TokensKept(f)
  BY <1>4, <1>6, <1>10 DEF TokensKept
<1> QED BY <1>1, <1>6, <1>9, <1>10, <1>11

(* A token is consumed: the outstanding one, which could still be used.    *)
LEMMA ConsumeStep ==
  ASSUME StoreInv, NEW e \in Endpoints, NEW i, NEW matches \in BOOLEAN, Consume(e, i, matches)
  PROVE  /\ StoreInv'
         /\ cont[e].adoptedBy = NoEvaluator /\ cont'[e].adoptedBy = NoEvaluator
         /\ cont'[e].status = "open" /\ cont[e].status = "open"
         /\ cont'[e].snapshot = cont[e].snapshot
         /\ Current(e, cont[e].snapshot)
         /\ \A f \in Endpoints \ {e} : cont'[f] = cont[f] /\ endpoint'[f] = endpoint[f]
         /\ \A j \in DOMAIN cont[e].tokens :
              \/ cont'[e].tokens[j].state = cont[e].tokens[j].state
              \/ cont[e].tokens[j].state = "live"
<1>1. /\ cont[e] \in Cont /\ InOrder(cont[e]) /\ cont[e].tokens \in Seq(Token)
      /\ i = cont[e].outstanding /\ cont[e].status = "open" /\ cont[e].handle
      /\ cont[e].adoptedBy = NoEvaluator /\ endpoint[e] \in Endpoint /\ endpoint[e].continuity
      /\ Current(e, cont[e].snapshot)
  BY DEF Consume, CanConsume, Open, Revalidates, StoreInv, ContinuityTypeOK, LeaseTypeOK, Cont,
         Current
<1>2. PICK w \in {"used", "burned"} :
        cont' = [cont EXCEPT ![e].tokens[i].state = w, ![e].outstanding = 0]
  BY DEF Consume
<1> DEFINE u == [cont[e].tokens[i] EXCEPT !.state = w]
           toks == [cont[e].tokens EXCEPT ![i] = u]
           c == WithTokens(cont[e], toks, 0)
<1>3. cont' = [cont EXCEPT ![e] = c]
  BY <1>1, <1>2 DEF WithTokens, StoreInv, ContinuityTypeOK, Cont
<1>4. /\ toks \in Seq(Token) /\ DOMAIN toks = DOMAIN cont[e].tokens
      /\ \A j \in DOMAIN cont[e].tokens : j # i => toks[j] = cont[e].tokens[j]
      /\ i \in DOMAIN cont[e].tokens => toks[i].state = w
  <2>1. CASE i \in DOMAIN cont[e].tokens
    <3>1. cont[e].tokens[i] \in Token
      BY <1>1, <2>1
    <3>2. u \in Token /\ u.state = w
      BY <3>1 DEF Token
    <3> HIDE DEF u
    <3> QED BY <1>1, <2>1, <3>2
  <2>2. CASE i \notin DOMAIN cont[e].tokens
    <3>1. toks = cont[e].tokens
      BY <1>1, <2>2
    <3> QED BY <1>1, <2>2, <3>1
  <2> QED BY <2>1, <2>2
<1> HIDE DEF toks
<1>5. /\ c \in Cont /\ c.tokens = toks /\ c.outstanding = 0 /\ c.status = "open" /\ c.handle
      /\ c.adoptedBy = NoEvaluator /\ c.snapshot = cont[e].snapshot
  <2>1. cont[e] \in Cont /\ toks \in Seq(Token) /\ 0 \in Nat
    BY <1>1, <1>4
  <2>2. c \in Cont /\ c.tokens = toks /\ c.outstanding = 0
    BY <2>1, EditedTokens
  <2>3. /\ c.status = cont[e].status /\ c.handle = cont[e].handle
        /\ c.adoptedBy = cont[e].adoptedBy /\ c.snapshot = cont[e].snapshot
    BY <2>1, EditedTokens
  <2> HIDE DEF c
  <2> QED BY <1>1, <2>2, <2>3
<1> HIDE DEF c
<1>6. \A j \in DOMAIN cont[e].tokens : cont[e].tokens[j].state = "live" => j = i
  BY <1>1 DEF InOrder
<1>7. InOrder(c)
  BY <1>1, <1>4, <1>5, <1>6 DEF InOrder
<1>8. endpoint' = [endpoint EXCEPT ![e] = endpoint[e]] /\ UNCHANGED <<tick, alive, lease, policy>>
  BY DEF Consume, leaseVars, StoreInv, LeaseTypeOK
<1>9. StoreInv'
  BY <1>1, <1>3, <1>5, <1>7, <1>8, ContinuityChanges
<1>10. cont'[e] = c /\ \A f \in Endpoints \ {e} : cont'[f] = cont[f] /\ endpoint'[f] = endpoint[f]
  BY <1>3, <1>8 DEF StoreInv, ContinuityTypeOK, LeaseTypeOK
<1>11. ASSUME NEW j \in DOMAIN cont[e].tokens, j = i PROVE cont[e].tokens[j].state = "live"
  <2>1. i # 0
    BY <1>1, <1>11
  <2> QED BY <1>1, <1>11, <2>1 DEF InOrder
<1> QED BY <1>1, <1>4, <1>5, <1>9, <1>10, <1>11


\* Tokens are used and used up as GrantsAreCurrent says
TokensUsed(e) ==
  \A i \in DOMAIN cont[e].tokens :
    LET before == cont[e].tokens[i].state
        after == cont'[e].tokens[i].state IN
    /\ before # "live" => after = before
    /\ before = "live" /\ after = "used" =>
         Current(e, cont[e].snapshot) /\ cont[e].adoptedBy = NoEvaluator

(* Only continuity steps change the claim of a continuity on its endpoint. *)
LEMMA LeaseKeepsClaims ==
  ASSUME LeaseTypeOK, LeaseNext PROVE \A f \in Endpoints : endpoint'[f].continuity = endpoint[f].continuity
<1> DEFINE Kept == \A f \in Endpoints : endpoint'[f].continuity = endpoint[f].continuity
<1> SUFFICES Kept
  OBVIOUS
<1> USE DEF LeaseTypeOK, Endpoint
<1>1. ASSUME NEW e \in Endpoints, NEW rec, GiveBack(e, rec) \/ ContainLease(e, rec) PROVE Kept
  BY <1>1 DEF GiveBack, ContainLease
<1>2. ASSUME NEW e \in Endpoints, NEW rec, NEW t, ReleaseUnheld(e, rec, t) \/ Release(e, rec, t)
      PROVE  Kept
  BY <1>1, <1>2 DEF Release, ReleaseUnheld
<1>3. CASE Tick \/ \E e \in Endpoints : PeerExits(e)
  BY <1>3 DEF Tick, PeerExits
<1>4. CASE \E e \in Endpoints : Connect(e) \/ BeginOperation(e) \/ EndOperation(e)
                                \/ OperationContained(e) \/ CloseEndpoint(e)
  BY <1>4 DEF Connect, BeginOperation, EndOperation, OperationContained, CloseEndpoint
<1>5. CASE \E e \in Endpoints, t \in Later : DropUnopened(e, t) \/ Finish(e, t) \/ Abort(e, t)
  BY <1>1, <1>2, <1>5 DEF DropUnopened, Finish, Abort
<1>6. CASE \E e \in Endpoints, t \in Later, src \in Sources :
             AcquireUnopened(e, src, t) \/ AcquireContained(e, src, t) \/ AcquireUncorrelated(e, src, t)
  BY <1>1, <1>2, <1>6 DEF AcquireUnopened, AcquireContained, AcquireUncorrelated
<1>7. CASE \E e \in Endpoints, t \in Later, src \in Sources : Acquire(e, src, t)
  BY <1>7 DEF Acquire
<1> HIDE DEF Kept
<1> QED BY ONLY LeaseNext, <1>3, <1>4, <1>5, <1>6, <1>7 DEF LeaseNext

(* No step outside the evaluations breaks the invariant of leases and      *)
(* continuities, nor takes a continuity from the evaluation that owns it.  *)
LEMMA ContinuitySteps ==
  ASSUME StoreInv, ContinuityNext
  PROVE  /\ StoreInv'
         /\ \A w \in Evaluators, e \in Endpoints : Respected(w, e)
         /\ \A e \in Endpoints : TokensUsed(e)
<1> DEFINE Good == /\ StoreInv'
                   /\ \A w \in Evaluators, e \in Endpoints : Respected(w, e)
                   /\ \A e \in Endpoints : TokensUsed(e)
<1> SUFFICES Good
  OBVIOUS
<1>1. ASSUME StoreInv', cont' = cont, \A f \in Endpoints : endpoint'[f].continuity = endpoint[f].continuity
      PROVE  Good
  BY <1>1 DEF Respected, TokensUsed, Open
<1>2. ASSUME NEW e \in Endpoints, StoreInv', cont[e].adoptedBy = NoEvaluator,
             cont'[e].adoptedBy = NoEvaluator, cont[e].status # "closed",
             cont[e].status # "none" => cont'[e].status # "none" /\ cont'[e].snapshot = cont[e].snapshot,
             \A f \in Endpoints \ {e} : cont'[f] = cont[f] /\ endpoint'[f] = endpoint[f],
             TokensUsed(e)
      PROVE  Good
  BY <1>2, ContinuityAssumption DEF Respected, TokensUsed, Open
<1>3. CASE LeaseNext /\ UNCHANGED continuityVars
  BY <1>1, <1>3, LeaseKeepsStoreInv, LeaseKeepsClaims DEF continuityVars, StoreInv
<1>4. CASE \/ \E rev \in 1..MaxRevision : ReplacePolicy(rev)
           \/ \E rev \in 0..MaxRevision : SetTestPolicy(rev)
  <2>1. UNCHANGED <<leaseVars, cont>> /\ policy' \in [Providers -> 0..MaxRevision]
    BY <1>4, ContinuityAssumption
       DEF ReplacePolicy, SetTestPolicy, StoreInv, ContinuityTypeOK, Providers
  <2>2. StoreInv'
    BY <2>1, OutsideSteps DEF StoreInv, LeaseTypeOK, ContinuityTypeOK, leaseVars
  <2> QED BY <1>1, <2>1, <2>2 DEF leaseVars
<1>5. CASE \E e \in Endpoints, p \in Providers, d \in ContinuityTicks : PreparationContained(e, p, d)
  <2>1. PICK e \in Endpoints : /\ endpoint' = [endpoint EXCEPT ![e].fatal = TRUE]
                               /\ UNCHANGED <<tick, alive, lease, continuityVars>>
    BY <1>5 DEF PreparationContained
  <2> DEFINE d == [endpoint[e] EXCEPT !.fatal = TRUE]
  <2>2. endpoint[e] \in Endpoint
    BY DEF StoreInv, LeaseTypeOK
  <2>3. /\ d \in Endpoint /\ d.leased = endpoint[e].leased /\ d.claimed = endpoint[e].claimed
        /\ d.continuity = endpoint[e].continuity /\ d.closed = endpoint[e].closed /\ d.fatal
    BY <2>2 DEF Endpoint
  <2>4. endpoint' = [endpoint EXCEPT ![e] = d]
    BY <2>1 DEF StoreInv, LeaseTypeOK
  <2> HIDE DEF d
  <2>5. StoreInv'
    BY <2>1, <2>3, <2>4, EndpointChanges
  <2>6. \A f \in Endpoints : endpoint'[f].continuity = endpoint[f].continuity
    BY <2>3, <2>4 DEF StoreInv, LeaseTypeOK
  <2> QED BY <1>1, <2>1, <2>5, <2>6 DEF continuityVars
<1>6. CASE \E e \in Endpoints, p \in Providers, d \in ContinuityTicks, t \in Later :
             PrepareContinuity(e, p, d, t)
  <2>1. PICK e \in Endpoints :
          /\ StoreInv'
          /\ cont[e] = NoCont /\ cont'[e].status = "open" /\ cont'[e].adoptedBy = NoEvaluator
          /\ \A f \in Endpoints \ {e} : cont'[f] = cont[f] /\ endpoint'[f] = endpoint[f]
    BY <1>6, PrepareStep
  <2>2. TokensUsed(e) /\ cont[e].adoptedBy = NoEvaluator /\ cont[e].status = "none"
    BY <2>1 DEF TokensUsed, NoCont
  <2> QED BY <1>2, <2>1, <2>2
<1>7. CASE \E e \in Endpoints, until \in 1..MaxTick : Mint(e, until)
  <2>1. PICK e \in Endpoints :
          /\ StoreInv'
          /\ cont[e].adoptedBy = NoEvaluator /\ cont'[e].adoptedBy = NoEvaluator
          /\ cont'[e].status = "open" /\ cont[e].status = "open"
          /\ cont'[e].snapshot = cont[e].snapshot
          /\ \A f \in Endpoints \ {e} : cont'[f] = cont[f] /\ endpoint'[f] = endpoint[f]
          /\ \A f \in Endpoints : TokensKept(f)
    BY <1>7, MintStep
  <2>2. TokensUsed(e)
    BY <2>1 DEF TokensKept, TokensUsed
  <2> QED BY <1>2, <2>1, <2>2
<1>8. CASE \E e \in Endpoints, i \in 1..MaxTokens, matches \in BOOLEAN : Consume(e, i, matches)
  <2>1. PICK e \in Endpoints :
          /\ StoreInv'
          /\ cont[e].adoptedBy = NoEvaluator /\ cont'[e].adoptedBy = NoEvaluator
          /\ cont'[e].status = "open" /\ cont[e].status = "open"
          /\ cont'[e].snapshot = cont[e].snapshot
          /\ Current(e, cont[e].snapshot)
          /\ \A f \in Endpoints \ {e} : cont'[f] = cont[f] /\ endpoint'[f] = endpoint[f]
          /\ \A j \in DOMAIN cont[e].tokens :
               \/ cont'[e].tokens[j].state = cont[e].tokens[j].state
               \/ cont[e].tokens[j].state = "live"
    BY <1>8, ConsumeStep
  <2>2. TokensUsed(e)
    BY <2>1 DEF TokensUsed
  <2> QED BY <1>2, <2>1, <2>2
<1>9. CASE \E e \in Endpoints : \/ MintInvalidates(e) \/ CloseContinuity(e)
                               \/ \E i \in 1..MaxTokens : ConsumeInvalidates(e, i)
  <2>1. PICK e \in Endpoints :
          /\ Ends(e) /\ cont[e].status \in {"open", "invalid"} /\ cont[e].adoptedBy = NoEvaluator
          /\ UNCHANGED <<tick, alive, lease, policy>>
    BY <1>9 DEF MintInvalidates, CanMint, ConsumeInvalidates, CanConsume, CloseContinuity,
                Invalidate, Open, Ends
  <2>2. /\ StoreInv'
        /\ \A f \in Endpoints \ {e} : cont'[f] = cont[f] /\ endpoint'[f] = endpoint[f]
        /\ cont'[e].snapshot = cont[e].snapshot /\ cont'[e].adoptedBy = cont[e].adoptedBy
        /\ cont'[e].status # "none"
        /\ \A f \in Endpoints : TokensKept(f)
    BY <2>1, EndingSteps DEF Ends
  <2>3. TokensUsed(e)
    BY <2>2 DEF TokensKept, TokensUsed
  <2> QED BY <1>2, <2>1, <2>2, <2>3
<1> HIDE DEF Good
<1> QED
  <2>1. ASSUME NEW e \in Endpoints, NEW p \in Providers, NEW d \in ContinuityTicks,
               PreparationContained(e, p, d) \/ \E t \in Later : PrepareContinuity(e, p, d, t)
        PROVE  Good
    BY <1>5, <1>6, <2>1
  <2>2. ASSUME NEW e \in Endpoints, NEW i \in 1..MaxTokens,
               ConsumeInvalidates(e, i) \/ \E matches \in BOOLEAN : Consume(e, i, matches)
        PROVE  Good
    BY <1>8, <1>9, <2>2
  <2> QED BY ONLY ContinuityNext, <1>3, <1>4, <1>7, <1>9, <2>1, <2>2 DEF ContinuityNext

-----------------------------------------------------------------------------
(* What an evaluation relies on survives the steps of everybody else.      *)
LEMMA SettledKept ==
  ASSUME EvalInv, NEW w \in Evaluators, eval'[w] = eval[w], auth'[w] = auth[w],
         \A e \in Endpoints : Respected(w, e)
  PROVE  Settled(w)'
<1> DEFINE e == eval[w].on
<1>1. Settled(w) /\ eval[w] \in Eval
  BY DEF EvalInv, GateTypeOK
<1>2. CASE e \in Endpoints
  BY <1>1, <1>2 DEF Settled, Respected, At, Open, Ladder
<1>3. CASE e \notin Endpoints
  BY <1>1, <1>3 DEF Settled, Respected, At, Open, Eval, Ladder
<1> QED BY <1>2, <1>3

(* An evaluation that moves, or ends, keeps what it was given.             *)
LEMMA Moves ==
  ASSUME GateTypeOK, NEW v \in Evaluators, NEW at \in Phases, NEW result \in Results,
         \/ Goto(v, at) /\ result = eval[v].result
         \/ End(v, result) /\ at = eval[v].at
  PROVE  /\ eval' \in [Evaluators -> Eval]
         /\ eval'[v].at = at /\ eval'[v].result = result
         /\ eval'[v].on = eval[v].on /\ eval'[v].bound = eval[v].bound
         /\ eval'[v].revision = eval[v].revision
         /\ \A w \in Evaluators \ {v} : eval'[w] = eval[w]
<1>1. eval[v] \in Eval /\ eval \in [Evaluators -> Eval]
  BY DEF GateTypeOK
<1>2. CASE Goto(v, at) /\ result = eval[v].result
  BY <1>1, <1>2 DEF Goto, Eval
<1>3. CASE End(v, result) /\ at = eval[v].at
  BY <1>1, <1>3 DEF End, Eval
<1> QED BY <1>2, <1>3

(* A terminal before phase 7 forgets what it was given.                    *)
LEMMA Stops ==
  ASSUME GateTypeOK, NEW v \in Evaluators, NEW at \in Phases, Stop(v, at)
  PROVE  /\ eval' \in [Evaluators -> Eval]
         /\ eval'[v].result = "ended"
         /\ \A w \in Evaluators \ {v} : eval'[w] = eval[w]
<1> DEFINE r == [NotStarted EXCEPT !.at = at, !.result = "ended"]
<1>2. eval' = [eval EXCEPT ![v] = r]
  BY DEF Stop
<1>e. r = [NotStarted EXCEPT !.at = at, !.result = "ended"]
  OBVIOUS
<1> HIDE DEF r
<1>1. r \in Eval /\ r.result = "ended"
  <2>1. r = [at |-> at, result |-> "ended", on |-> NoEndpoint, bound |-> FALSE, revision |-> 0]
    BY <1>e DEF NotStarted
  <2>2. 0 \in 0..MaxRevision
    BY ContinuityAssumption
  <2> QED BY <2>1, <2>2 DEF Eval, Results
<1> QED BY <1>1, <1>2 DEF GateTypeOK

(* What a step of evaluation v must obey to leave every evaluation settled. *)
LEMMA EvaluationChanges ==
  ASSUME GateInv, NEW v \in Evaluators, GateTypeOK', Settled(v)',
         \A w \in Evaluators \ {v} : eval'[w] = eval[w] /\ auth'[w] = auth[w],
         \A w \in Evaluators \ {v}, e \in Endpoints : Respected(w, e)
  PROVE  EvalInv'
<1>1. \A w \in Evaluators \ {v} : Settled(w)'
  BY SettledKept DEF GateInv
<1> QED BY <1>1 DEF EvalInv

\* Steps of evaluation v that look and do not touch
Looks(v) == UNCHANGED <<leaseVars, continuityVars, auth>>

(* Such steps leave what is not v's as it was.                             *)
LEMMA LookingSteps ==
  ASSUME GateInv, NEW v \in Evaluators, Looks(v), eval' \in [Evaluators -> Eval], Settled(v)',
         \A w \in Evaluators \ {v} : eval'[w] = eval[w]
  PROVE  GateInv' /\ \A e \in Endpoints : TokensUsed(e)
<1> USE DEF Looks, leaseVars, continuityVars
<1>1. StoreInv'
  BY OutsideSteps DEF GateInv, StoreInv, LeaseTypeOK, ContinuityTypeOK
<1>2. \A w \in Evaluators, e \in Endpoints : Respected(w, e)
  BY DEF Respected, Open
<1>3. GateTypeOK'
  BY DEF GateInv, EvalInv, GateTypeOK
<1>4. EvalInv'
  BY <1>2, <1>3, EvaluationChanges
<1> QED BY <1>1, <1>4 DEF GateInv, TokensUsed

(* A walk that stops relies on nothing any more.                           *)
LEMMA StoppingSteps ==
  ASSUME GateInv, NEW v \in Evaluators, NEW at \in Phases, Looks(v), Stop(v, at),
         eval[v].result = "check"
  PROVE  GateInv' /\ \A e \in Endpoints : TokensUsed(e)
<1>1. /\ eval' \in [Evaluators -> Eval] /\ eval'[v].result = "ended"
      /\ \A w \in Evaluators \ {v} : eval'[w] = eval[w]
  BY Stops DEF GateInv, EvalInv
<1>2. Settled(v)
  BY DEF GateInv, EvalInv
<1>3. Settled(v)'
  BY <1>1, <1>2 DEF Settled, At, Looks, leaseVars, continuityVars
<1> QED BY <1>1, <1>3, LookingSteps

(* A set of numbers has a least one.                                       *)
LEMMA LeastRung ==
  ASSUME NEW T \in SUBSET Nat, T # {}
  PROVE  \E m \in T : \A k \in T : m <= k
<1> DEFINE R == OpToRel(<, Nat)
<1>1. IsWellFoundedOn(R, Nat)
  BY NatLessThanWellFounded
<1>2. \A i, j \in Nat : <<i, j>> \in R <=> i < j
  BY DEF OpToRel
<1> HIDE DEF R
<1>3. PICK m \in T : \A k \in T : ~ (<<k, m>> \in R)
  BY <1>1, WFMin
<1>4. \A k \in T : ~(k < m)
  BY <1>2, <1>3, Zenon
<1> QED BY <1>4

(* The rung a walk stops at has a name.                                    *)
LEMMA RungIsPhase == ASSUME NEW x PROVE Rung(x) \in Phases
<1> DEFINE stops == {i \in DOMAIN Rungs(x) : Rungs(x)[i][1]}
           first == CHOOSE i \in stops : \A j \in stops : i <= j
<1>1. DOMAIN Rungs(x) = 1..13 /\ Rungs(x)[13][1] = TRUE
  BY DEF Rungs
<1>2. \A i \in 1..13 : Rungs(x)[i][2] \in Phases
  BY DEF Rungs, Phases
<1>3. \E i \in stops : \A j \in stops : i <= j
  <2>1. stops \in SUBSET (1..13) /\ 13 \in stops
    BY <1>1
  <2> HIDE DEF stops
  <2>2. stops \in SUBSET Nat /\ stops # {}
    BY <2>1
  <2> QED BY <2>2, LeastRung
<1>4. first \in stops
  BY <1>3
<1> QED BY <1>1, <1>2, <1>4 DEF Rung

(* Looking at the continuity: the three phases, and the containment.       *)
LEMMA PhaseSteps ==
  ASSUME GateInv, NEW v \in Evaluators,
         PhaseContained(v) \/ Phase61(v) \/ Phase62(v) \/ Phase63(v)
  PROVE  GateInv' /\ \A e \in Endpoints : TokensUsed(e)
<1>0. /\ GateTypeOK /\ Settled(v) /\ Looks(v) /\ eval[v] \in Eval /\ eval[v].result = "check"
      /\ "CONTAINMENT" \in Results
  BY DEF GateInv, EvalInv, GateTypeOK, PhaseContained, Phase61, Phase62, Phase63, At, Looks, Results
<1>1. CASE \E at \in Phases : Stop(v, at)
  BY <1>0, <1>1, StoppingSteps
<1>2. CASE PhaseContained(v)
  <2>1. End(v, "CONTAINMENT")
    BY <1>2 DEF PhaseContained
  <2>2. eval[v].at \in Phases
    BY <1>0 DEF Eval
  <2>3. /\ eval' \in [Evaluators -> Eval] /\ eval'[v].result = "CONTAINMENT"
        /\ eval'[v].on = eval[v].on
        /\ \A w \in Evaluators \ {v} : eval'[w] = eval[w]
    BY <1>0, <2>1, <2>2, Moves
  <2>4. Settled(v)'
    <3>1. \E q \in Ladder : At(v, q)
      BY <1>2 DEF PhaseContained, Ladder
    <3>2. UNCHANGED <<cont, endpoint, auth>>
      BY <1>0 DEF Looks, leaseVars, continuityVars
    <3>3. /\ eval[v].on \in Endpoints /\ cont[eval[v].on].status # "none"
          /\ auth[v] # "open" /\ \A e \in Endpoints : cont[e].adoptedBy # v
      BY <1>0, <3>1 DEF Settled
    <3>4. auth'[v] # "open"
      BY <3>2, <3>3
    <3>5. eval'[v].on \in Endpoints /\ cont'[eval'[v].on].status # "none"
      BY <2>3, <3>2, <3>3
    <3>6. \A e \in Endpoints : cont'[e].adoptedBy # v
      BY <3>2, <3>3
    <3> QED BY <2>3, <3>4, <3>5, <3>6 DEF Settled, At
  <2> QED BY <1>0, <2>3, <2>4, LookingSteps
<1>3. ASSUME NEW at \in {"6.2", "6.3", "7.1"}, Goto(v, at),
             \E p \in Ladder : At(v, p), eval[v].bound,
             at # "6.2" => Its(v).snapshot = eval[v].revision
      PROVE  GateInv' /\ \A e \in Endpoints : TokensUsed(e)
  <2>1. at \in Phases /\ eval[v].result \in Results
    BY <1>0 DEF Phases, Eval
  <2>2. /\ eval' \in [Evaluators -> Eval] /\ eval'[v].result = "check" /\ eval'[v].at = at
        /\ eval'[v].on = eval[v].on /\ eval'[v].bound = eval[v].bound
        /\ eval'[v].revision = eval[v].revision
        /\ \A w \in Evaluators \ {v} : eval'[w] = eval[w]
    <3>1. Goto(v, at) /\ GateTypeOK /\ eval[v].result = "check"
      BY <1>0, <1>3
    <3> QED BY <2>1, <3>1, Moves
  <2>3. Settled(v)'
    <3>1. UNCHANGED <<cont, endpoint, auth>>
      BY <1>0 DEF Looks, leaseVars, continuityVars
    <3>2. /\ eval[v].on \in Endpoints /\ cont[eval[v].on].status # "none"
          /\ auth[v] # "open" /\ \A e \in Endpoints : cont[e].adoptedBy # v
      BY <1>0, <1>3 DEF Settled
    <3>3. auth'[v] # "open" /\ eval'[v].on \in Endpoints /\ cont'[eval'[v].on].status # "none"
          /\ eval'[v].bound /\ \A e \in Endpoints : cont'[e].adoptedBy # v
      BY <1>3, <2>2, <3>1, <3>2
    <3>4. at # "6.2" => cont'[eval'[v].on].snapshot = eval'[v].revision
      BY <1>3, <2>2, <3>1 DEF Its
    <3> QED BY <2>2, <3>3, <3>4 DEF Settled, At
  <2> QED BY <1>0, <2>2, <2>3, LookingSteps
<1>4. CASE Phase61(v) \/ Phase62(v) \/ Phase63(v)
  <2>1. CASE Stop(v, eval[v].at)
    BY <1>0, <1>1, <2>1 DEF Eval
  <2>2. CASE Phase61(v) /\ Goto(v, "6.2") /\ eval[v].bound
    <3>1. \E p \in Ladder : At(v, p)
      BY <2>2 DEF Phase61, Ladder
    <3> QED BY <1>3, <2>2, <3>1
  <2>3. CASE Phase62(v) /\ Goto(v, "6.3") /\ Its(v).snapshot = eval[v].revision
    <3>1. (\E p \in Ladder : At(v, p)) /\ eval[v].bound
      BY <1>0, <2>3 DEF Phase62, Ladder, Settled
    <3> QED BY <1>3, <2>3, <3>1
  <2>4. CASE Phase63(v) /\ Goto(v, "7.1")
    <3>1. (\E p \in Ladder : At(v, p)) /\ eval[v].bound /\ Its(v).snapshot = eval[v].revision
      BY <1>0, <2>4 DEF Phase63, Ladder, Settled, Its
    <3> QED BY <1>3, <2>4, <3>1
  <2> QED BY <1>4, <2>1, <2>2, <2>3, <2>4 DEF Phase61, Phase62, Phase63
<1> QED BY <1>2, <1>4

(* Starting an evaluation of a continuity that was prepared.               *)
LEMMA EvaluateSteps ==
  ASSUME GateInv, NEW v \in Evaluators, NEW e \in Endpoints, NEW b \in BOOLEAN,
         NEW rev \in 1..MaxRevision, NEW x, Evaluate(v, e, b, rev, x)
  PROVE  GateInv' /\ \A f \in Endpoints : TokensUsed(f)
<1>0. /\ GateTypeOK /\ Settled(v) /\ Looks(v) /\ eval[v].result = "check"
      /\ cont[e].status # "none" /\ rev \in 0..MaxRevision
  BY ContinuityAssumption DEF GateInv, EvalInv, Evaluate, At, Looks
<1>1. CASE Stop(v, Rung(x))
  BY <1>0, <1>1, RungIsPhase, StoppingSteps
<1> DEFINE r == [at |-> "6.1", result |-> "check", on |-> e, bound |-> b, revision |-> rev]
<1>2. CASE eval' = [eval EXCEPT ![v] = r]
  <2>1. r \in Eval /\ r.at = "6.1" /\ r.result = "check" /\ r.on = e
    BY <1>0 DEF Eval, Phases, Results
  <2> HIDE DEF r
  <2>2. /\ eval' \in [Evaluators -> Eval] /\ eval'[v] = r
        /\ \A w \in Evaluators \ {v} : eval'[w] = eval[w]
    BY <1>0, <1>2, <2>1 DEF GateTypeOK
  <2>3. Settled(v)'
    BY <1>0, <2>1, <2>2 DEF Settled, At, Looks, leaseVars, continuityVars
  <2> QED BY <1>0, <2>2, <2>3, LookingSteps
<1> QED BY <1>1, <1>2 DEF Evaluate

(* A refusal that another evaluation caused, and an admission handed over. *)
LEMMA ReportingSteps ==
  ASSUME GateInv, NEW v \in Evaluators, RefusedByOther(v) \/ HandOver(v)
  PROVE  GateInv' /\ \A e \in Endpoints : TokensUsed(e)
<1>0. /\ GateTypeOK /\ Settled(v) /\ Looks(v) /\ eval[v].at \in Phases
      /\ {"INVARIANT_ERROR", "ADMITTED"} \subseteq Results
  BY DEF GateInv, EvalInv, GateTypeOK, Eval, RefusedByOther, HandOver, Looks, Results
<1>1. CASE RefusedByOther(v)
  <2>1. End(v, "INVARIANT_ERROR")
    BY <1>1 DEF RefusedByOther
  <2>2. /\ eval' \in [Evaluators -> Eval] /\ eval'[v].result = "INVARIANT_ERROR"
        /\ eval'[v].on = eval[v].on
        /\ \A w \in Evaluators \ {v} : eval'[w] = eval[w]
    BY <1>0, <2>1, Moves
  <2>3. /\ eval[v].on \in Endpoints /\ Its(v).status # "none" /\ auth[v] # "open"
        /\ \A e \in Endpoints : cont[e].adoptedBy # v
    BY <1>0, <1>1 DEF RefusedByOther, Settled, At, Its, Ladder
  <2>4. Settled(v)'
    BY <1>0, <1>1, <2>2, <2>3
       DEF RefusedByOther, Settled, At, Its, Looks, leaseVars, continuityVars
  <2> QED BY <1>0, <2>2, <2>4, LookingSteps
<1>2. CASE HandOver(v)
  <2>1. End(v, "ADMITTED") /\ eval[v].result = "adopted"
    BY <1>2 DEF HandOver
  <2>2. /\ eval' \in [Evaluators -> Eval] /\ eval'[v].result = "ADMITTED"
        /\ eval'[v].on = eval[v].on /\ eval'[v].bound = eval[v].bound
        /\ eval'[v].revision = eval[v].revision
        /\ \A w \in Evaluators \ {v} : eval'[w] = eval[w]
    BY <1>0, <2>1, Moves
  <2>3. Settled(v)'
    BY <1>0, <2>1, <2>2 DEF Settled, At, Open, Looks, leaseVars, continuityVars
  <2> QED BY <1>0, <2>2, <2>3, LookingSteps
<1> QED BY <1>1, <1>2

(* Adoption: the evaluation takes the continuity, which was open and has   *)
(* just been checked against the process, the clock and the policy.        *)
LEMMA AdoptStep ==
  ASSUME GateInv, NEW v \in Evaluators, Adopt(v)
  PROVE  /\ GateInv'
         /\ Current(eval[v].on, eval[v].revision)
         /\ \A w \in Evaluators \ {v} : auth'[w] = auth[w]
         /\ \A e \in Endpoints : TokensUsed(e)
<1> DEFINE e == eval[v].on
           c == [cont[e] EXCEPT !.adoptedBy = v]
<1>1. /\ StoreInv /\ GateTypeOK /\ Settled(v) /\ At(v, "7.1") /\ eval[v].at \in Phases
      /\ Open(e) /\ Revalidates(e) /\ cont[e].adoptedBy = NoEvaluator
      /\ UNCHANGED <<tick, endpoint, alive, lease, policy>>
      /\ auth' = [auth EXCEPT ![v] = "open"] /\ End(v, "adopted") /\ "adopted" \in Results
  BY DEF GateInv, EvalInv, GateTypeOK, Eval, Adopt, leaseVars, Results
<1>2. e \in Endpoints /\ eval[v].bound /\ cont[e].snapshot = eval[v].revision
  BY <1>1 DEF Settled, At, Ladder
<1> HIDE DEF e
<1>3. /\ eval' \in [Evaluators -> Eval] /\ eval'[v].result = "adopted"
      /\ eval'[v].on = e /\ eval'[v].bound = eval[v].bound
      /\ eval'[v].revision = eval[v].revision
      /\ \A w \in Evaluators \ {v} : eval'[w] = eval[w]
  BY <1>1, Moves DEF e
<1>4. cont[e] \in Cont /\ InOrder(cont[e]) /\ endpoint[e] \in Endpoint
  BY <1>1, <1>2 DEF StoreInv, ContinuityTypeOK, LeaseTypeOK
<1>5. /\ c \in Cont /\ c.adoptedBy = v /\ c.status = cont[e].status /\ c.handle = cont[e].handle
      /\ c.snapshot = cont[e].snapshot /\ c.tokens = cont[e].tokens
      /\ c.outstanding = cont[e].outstanding
  BY <1>4 DEF Cont
<1>6. cont' = [cont EXCEPT ![e] = c]
  BY <1>1, <1>2 DEF Adopt, e, StoreInv, ContinuityTypeOK
<1> HIDE DEF c
<1>7. cont[e].status = "open" /\ cont[e].handle /\ endpoint[e].continuity /\ InOrder(c)
  BY <1>1, <1>4, <1>5 DEF Open, Revalidates, InOrder
<1>8. endpoint' = [endpoint EXCEPT ![e] = endpoint[e]]
  BY <1>1, <1>2 DEF StoreInv, LeaseTypeOK
<1>9. StoreInv'
  BY <1>1, <1>2, <1>4, <1>5, <1>6, <1>7, <1>8, ContinuityChanges
<1>10. cont'[e] = c /\ \A f \in Endpoints \ {e} : cont'[f] = cont[f]
  BY <1>1, <1>2, <1>6 DEF StoreInv, ContinuityTypeOK
<1>11. auth'[v] = "open" /\ \A w \in Evaluators \ {v} : auth'[w] = auth[w]
  BY <1>1 DEF GateTypeOK
<1>12. GateTypeOK'
  BY <1>1, <1>3 DEF GateTypeOK
<1>13. endpoint' = endpoint
  BY <1>1
<1>14. Settled(v)'
  <2>1. /\ cont'[e].status = "open" /\ cont'[e].handle /\ endpoint'[e].continuity
        /\ cont'[e].adoptedBy = v /\ cont'[e].snapshot = eval'[v].revision
        /\ eval'[v].bound
    <3>1. cont'[e] = c /\ endpoint'[e] = endpoint[e]
      BY <1>10, <1>13
    <3>2. eval'[v].bound /\ c.snapshot = eval'[v].revision
      BY <1>2, <1>3, <1>5
    <3>3. c.status = "open" /\ c.handle /\ c.adoptedBy = v
      BY <1>5, <1>7
    <3> QED BY <1>7, <3>1, <3>2, <3>3
  <2>2. ~At(v, "6.2")' /\ ~At(v, "6.3")'
    BY <1>3 DEF At
  <2>3. cont'[e].snapshot = eval'[v].revision /\ auth'[v] = "open" /\ eval'[v].on = e
    BY <1>3, <1>11, <2>1
  <2> QED BY <1>2, <1>3, <2>1, <2>2, <2>3 DEF Settled, Open
<1>15. \A w \in Evaluators \ {v}, f \in Endpoints : Respected(w, f)
  BY <1>1, <1>2, <1>5, <1>10, ContinuityAssumption DEF Respected, Open
<1>16. EvalInv'
  BY <1>3, <1>11, <1>12, <1>14, <1>15, EvaluationChanges
<1>17. Current(e, eval[v].revision)
  BY <1>1, <1>2 DEF Current, Revalidates
<1>18. \A f \in Endpoints : TokensUsed(f)
  BY <1>2, <1>5, <1>10 DEF TokensUsed
<1> QED BY <1>9, <1>11, <1>16, <1>17, <1>18 DEF GateInv, e

(* Ending a continuity that nobody else has adopted.                       *)
LEMMA OwnedEnds ==
  ASSUME GateInv, NEW v \in Evaluators, NEW e \in Endpoints, Ends(e),
         cont[e].status \in {"open", "invalid"}, cont[e].adoptedBy \in {v, NoEvaluator},
         UNCHANGED <<tick, alive, lease, policy>>
  PROVE  /\ StoreInv'
         /\ \A w \in Evaluators \ {v}, f \in Endpoints : Respected(w, f)
         /\ \A f \in Endpoints : TokensUsed(f)
         /\ \A f \in Endpoints : cont'[f].adoptedBy = cont[f].adoptedBy
         /\ cont'[e].status # "none" /\ cont'[e].snapshot = cont[e].snapshot
         /\ GiveUp(e, "closed") => cont'[e].status = "closed" /\ ~cont'[e].handle
<1>1. /\ StoreInv'
      /\ \A f \in Endpoints \ {e} : cont'[f] = cont[f] /\ endpoint'[f] = endpoint[f]
      /\ cont'[e].snapshot = cont[e].snapshot /\ cont'[e].adoptedBy = cont[e].adoptedBy
      /\ GiveUp(e, "closed") => cont'[e].status = "closed" /\ ~cont'[e].handle
      /\ cont'[e].status # "none"
      /\ \A f \in Endpoints : TokensKept(f)
  BY EndingSteps DEF GateInv, Ends
<1>2. \A f \in Endpoints : TokensUsed(f)
  BY <1>1 DEF TokensKept, TokensUsed
<1>3. \A w \in Evaluators \ {v}, f \in Endpoints : Respected(w, f)
  BY <1>1, ContinuityAssumption DEF Respected, Open
<1> QED BY <1>1, <1>2, <1>3

(* Adoption refused by the last check, and what is closed of it.           *)
LEMMA RefusingSteps ==
  ASSUME GateInv, NEW v \in Evaluators, AdoptInvalidates(v) \/ CloseRefused(v)
  PROVE  /\ GateInv' /\ UNCHANGED auth
         /\ \A e \in Endpoints : TokensUsed(e)
<1> DEFINE e == eval[v].on
<1>1. /\ GateTypeOK /\ Settled(v) /\ eval[v].at \in Phases /\ At(v, "7.1")
      /\ UNCHANGED <<tick, alive, lease, policy, auth>>
      /\ {"CONTAINMENT", "AUTHORITY_CONSTRUCTION_FAILED"} \subseteq Results
  BY DEF GateInv, EvalInv, GateTypeOK, Eval, AdoptInvalidates, CloseRefused, Results
<1>2. /\ e \in Endpoints /\ eval[v].bound /\ cont[e].snapshot = eval[v].revision
      /\ auth[v] # "open" /\ \A f \in Endpoints : cont[f].adoptedBy # v
  BY <1>1 DEF Settled, At, Ladder
<1> HIDE DEF e
<1>3. ASSUME NEW result \in Results, End(v, result)
      PROVE  /\ eval' \in [Evaluators -> Eval] /\ eval'[v].result = result /\ eval'[v].on = e
             /\ \A w \in Evaluators \ {v} : eval'[w] = eval[w]
  BY <1>1, <1>3, Moves DEF e
<1>4. ASSUME Ends(e), cont[e].status \in {"open", "invalid"}, cont[e].adoptedBy = NoEvaluator
      PROVE  /\ StoreInv'
             /\ \A w \in Evaluators \ {v}, f \in Endpoints : Respected(w, f)
             /\ \A f \in Endpoints : TokensUsed(f)
             /\ \A f \in Endpoints : cont'[f].adoptedBy # v
             /\ cont'[e].status # "none" /\ cont'[e].snapshot = cont[e].snapshot
             /\ GiveUp(e, "closed") => cont'[e].status = "closed" /\ ~cont'[e].handle
  BY <1>1, <1>2, <1>4, OwnedEnds
<1>5. CASE AdoptInvalidates(v) /\ GiveUp(e, "invalid") /\ UNCHANGED eval
  <2>1. Ends(e) /\ cont[e].status = "open" /\ cont[e].adoptedBy = NoEvaluator
    BY <1>5 DEF AdoptInvalidates, Ends, Open, e
  <2>2. Settled(v)'
    BY <1>1, <1>2, <1>4, <1>5, <2>1 DEF Settled, At, e
  <2>3. GateTypeOK'
    BY <1>1, <1>5 DEF GateTypeOK
  <2>4. EvalInv'
    BY <1>1, <1>4, <1>5, <2>1, <2>2, <2>3, EvaluationChanges
  <2> QED BY <1>1, <1>4, <2>1, <2>4 DEF GateInv
<1>6. CASE AdoptInvalidates(v) /\ Contain(e) /\ End(v, "CONTAINMENT")
  <2>1. Ends(e) /\ cont[e].status = "open" /\ cont[e].adoptedBy = NoEvaluator
    BY <1>6 DEF AdoptInvalidates, Ends, Open, e
  <2>2. /\ eval' \in [Evaluators -> Eval] /\ eval'[v].result = "CONTAINMENT" /\ eval'[v].on = e
        /\ \A w \in Evaluators \ {v} : eval'[w] = eval[w]
    BY <1>1, <1>3, <1>6
  <2>3. Settled(v)'
    BY <1>1, <1>2, <1>4, <2>1, <2>2 DEF Settled, At
  <2>4. GateTypeOK'
    BY <1>1, <2>2 DEF GateTypeOK
  <2>5. EvalInv'
    BY <1>1, <1>4, <2>1, <2>2, <2>3, <2>4, EvaluationChanges
  <2> QED BY <1>1, <1>4, <2>1, <2>5 DEF GateInv
<1>7. CASE CloseRefused(v)
  <2>1. /\ eval' \in [Evaluators -> Eval] /\ eval'[v].on = e
        /\ eval'[v].result = "AUTHORITY_CONSTRUCTION_FAILED"
        /\ \A w \in Evaluators \ {v} : eval'[w] = eval[w]
    BY <1>1, <1>3, <1>7 DEF CloseRefused
  <2>2. CASE cont[e].status = "closed" /\ UNCHANGED <<endpoint, cont>>
    <3>1. Looks(v)
      BY <1>1, <2>2 DEF Looks, leaseVars, continuityVars
    <3>2. ~cont[e].handle
      BY <1>2, <2>2 DEF GateInv, StoreInv, PreparedOnce
    <3>3. Settled(v)'
      BY <1>1, <1>2, <2>1, <2>2, <3>2 DEF Settled, At
    <3> QED BY <1>1, <2>1, <3>1, <3>3, LookingSteps
  <2>3. CASE /\ cont[e].status = "invalid" /\ cont[e].adoptedBy = NoEvaluator
             /\ GiveUp(e, "closed")
    <3>1. Ends(e)
      BY <2>3 DEF Ends
    <3>2. Settled(v)'
      BY <1>1, <1>2, <1>4, <2>1, <2>3, <3>1 DEF Settled, At
    <3>3. GateTypeOK'
      BY <1>1, <2>1 DEF GateTypeOK
    <3>4. EvalInv'
      BY <1>1, <1>4, <2>1, <2>3, <3>1, <3>2, <3>3, EvaluationChanges
    <3> QED BY <1>1, <1>4, <2>3, <3>1, <3>4 DEF GateInv
  <2> QED BY <1>7, <2>2, <2>3 DEF CloseRefused, e
<1> QED BY <1>5, <1>6, <1>7 DEF AdoptInvalidates, e

(* An authority ends with its continuity, whoever closes it.               *)
LEMMA AuthoritySteps ==
  ASSUME GateInv, NEW v \in Evaluators, HandOverFails(v) \/ CloseAuthority(v)
  PROVE  /\ GateInv'
         /\ \A w \in Evaluators : auth'[w] = "open" => auth[w] = "open"
         /\ \A e \in Endpoints : TokensUsed(e)
<1> DEFINE e == eval[v].on
<1>1. /\ GateTypeOK /\ Settled(v) /\ eval[v].at \in Phases /\ eval[v].result \in {"adopted", "ADMITTED"}
      /\ auth[v] = "open" /\ EndAuthority(v) /\ UNCHANGED <<tick, alive, lease, policy>>
      /\ "HANDOFF_FAILED" \in Results
  BY DEF GateInv, EvalInv, GateTypeOK, Eval, HandOverFails, CloseAuthority, Results, Settled
<1>2. /\ e \in Endpoints /\ cont[e].adoptedBy = v /\ cont[e].status = "open"
  BY <1>1 DEF Settled, Open
<1>3. /\ auth' \in [Evaluators -> {"none", "open", "closed", "contained"}]
      /\ auth'[v] # "open" /\ \A w \in Evaluators \ {v} : auth'[w] = auth[w]
  BY <1>1 DEF EndAuthority, GateTypeOK
<1>4. Ends(e)
  BY <1>1 DEF EndAuthority, Ends
<1> HIDE DEF e
<1>5. /\ StoreInv'
      /\ \A w \in Evaluators \ {v}, f \in Endpoints : Respected(w, f)
      /\ \A f \in Endpoints : TokensUsed(f)
      /\ cont'[e].status # "none"
  BY <1>1, <1>2, <1>4, OwnedEnds
<1>6. /\ eval' \in [Evaluators -> Eval] /\ eval'[v].on = e
      /\ \/ eval'[v].result = "HANDOFF_FAILED"
         \/ eval'[v].result = "ADMITTED"
      /\ \A w \in Evaluators \ {v} : eval'[w] = eval[w]
  <2>1. CASE HandOverFails(v)
    <3>1. End(v, "HANDOFF_FAILED")
      BY <2>1 DEF HandOverFails
    <3> QED BY <1>1, <3>1, Moves DEF e
  <2>2. CASE CloseAuthority(v)
    BY <1>1, <2>2 DEF CloseAuthority, GateTypeOK, e
  <2> QED BY <2>1, <2>2
<1>7. Settled(v)'
  BY <1>2, <1>3, <1>5, <1>6 DEF Settled, At
<1>8. GateTypeOK'
  BY <1>3, <1>6 DEF GateTypeOK
<1>9. EvalInv'
  BY <1>3, <1>5, <1>6, <1>7, <1>8, EvaluationChanges
<1> QED BY <1>3, <1>5, <1>9 DEF GateInv

-----------------------------------------------------------------------------
\* What GrantsAreCurrent says of one step
StepGrants ==
  /\ \A v \in Evaluators :
       auth[v] # "open" /\ auth'[v] = "open" => Current(eval[v].on, eval[v].revision)
  /\ \A e \in Endpoints : TokensUsed(e)

(* Every step keeps the invariant, and grants only what is current.        *)
LEMMA StepsKeepGateInv ==
  ASSUME GateInv, [Next]_vars PROVE GateInv' /\ StepGrants
<1>1. CASE UNCHANGED vars
  <2>1. UNCHANGED <<leaseVars, continuityVars, eval, auth>>
    BY <1>1 DEF vars, gateVars
  <2>2. UNCHANGED <<tick, endpoint, alive, lease, policy, cont>>
    BY <2>1 DEF leaseVars, continuityVars
  <2>3. StoreInv'
    BY <2>2, OutsideSteps DEF GateInv, StoreInv, LeaseTypeOK, ContinuityTypeOK
  <2>4. \A w \in Evaluators, e \in Endpoints : Respected(w, e)
    BY <2>2 DEF Respected, Open
  <2>5. EvalInv'
    BY <2>1, <2>4, SettledKept DEF GateInv, EvalInv, GateTypeOK
  <2> QED BY <2>1, <2>2, <2>3, <2>5 DEF GateInv, StepGrants, TokensUsed
<1>2. CASE ContinuityNext /\ UNCHANGED gateVars
  <2>1. /\ StoreInv' /\ eval' = eval /\ auth' = auth
        /\ \A w \in Evaluators, e \in Endpoints : Respected(w, e)
        /\ \A e \in Endpoints : TokensUsed(e)
    BY <1>2, ContinuitySteps DEF GateInv, gateVars
  <2>2. EvalInv'
    BY <2>1, SettledKept DEF GateInv, EvalInv, GateTypeOK
  <2> QED BY <2>1, <2>2 DEF GateInv, StepGrants
<1>3. ASSUME NEW v \in Evaluators, Looks(v), GateInv', \A e \in Endpoints : TokensUsed(e)
      PROVE  GateInv' /\ StepGrants
  BY <1>3 DEF Looks, StepGrants
<1>4. ASSUME NEW v \in Evaluators,
             \/ \E e \in Endpoints, b \in BOOLEAN, rev \in 1..MaxRevision, x \in Given :
                  Evaluate(v, e, b, rev, x)
             \/ PhaseContained(v) \/ Phase61(v) \/ Phase62(v) \/ Phase63(v)
             \/ RefusedByOther(v) \/ HandOver(v)
      PROVE  GateInv' /\ StepGrants
  <2>1. Looks(v)
    BY <1>4 DEF Evaluate, PhaseContained, Phase61, Phase62, Phase63, RefusedByOther, HandOver, Looks
  <2>2. GateInv' /\ \A e \in Endpoints : TokensUsed(e)
    BY <1>4, EvaluateSteps, PhaseSteps, ReportingSteps
  <2> QED BY <1>3, <2>1, <2>2
<1>5. ASSUME NEW v \in Evaluators, Adopt(v) PROVE GateInv' /\ StepGrants
  BY <1>5, AdoptStep DEF StepGrants
<1>6. ASSUME NEW v \in Evaluators, AdoptInvalidates(v) \/ CloseRefused(v)
      PROVE  GateInv' /\ StepGrants
  BY <1>6, RefusingSteps DEF StepGrants
<1>7. ASSUME NEW v \in Evaluators, HandOverFails(v) \/ CloseAuthority(v)
      PROVE  GateInv' /\ StepGrants
  BY <1>7, AuthoritySteps DEF StepGrants
<1>8. CASE GateNext
  BY ONLY <1>4, <1>5, <1>6, <1>7, <1>8 DEF GateNext
<1> QED BY <1>1, <1>2, <1>8 DEF Next

(* The invariant of leases, continuities and evaluations is an invariant.  *)
THEOREM GateInvHolds == Spec => []GateInv
<1>1. GateInv /\ [Next]_vars => GateInv'
  BY StepsKeepGateInv
<1> QED BY GateInitially, <1>1, PTL DEF Spec

(* Leases, continuities and evaluations keep their types.                  *)
THEOREM GateTypes == Spec => [](LeaseTypeOK /\ ContinuityTypeOK /\ GateTypeOK)
BY GateInvHolds, PTL DEF GateInv, StoreInv, EvalInv

(* No process handle is orphaned (windows_pipe_process_lease.py,           *)
(* windows_peer_admission_continuity.py), however many endpoints share the *)
(* registry.                                                               *)
THEOREM HandlesAreOwned == Spec => []HandlesStayOwned
BY GateInvHolds, PTL DEF GateInv, StoreInv

(* A continuity never has two tokens that can be used, nor one after it    *)
(* ended (mint_use_token, _burn_outstanding_locked).                       *)
THEOREM TokensAreExclusive == Spec => []OneLiveToken
<1>1. GateInv => OneLiveToken
  BY DEF GateInv, StoreInv, InOrder, OneLiveToken
<1> QED BY <1>1, GateInvHolds, PTL

(* An open authority (_adopt) owns the very continuity it was granted on,  *)
(* and that is open, claims its endpoint and shows what was evaluated.     *)
THEOREM AuthoritiesOwn == Spec => []AuthorityOwnsContinuity
<1>1. GateInv => AuthorityOwnsContinuity
  BY DEF GateInv, EvalInv, Settled, AuthorityOwnsContinuity
<1> QED BY <1>1, GateInvHolds, PTL

(* A refusal of phase 7 (AuthorityConstructionUnavailable) leaves neither  *)
(* an authority nor an open continuity, whoever else evaluated it.         *)
THEOREM RefusalsAreComplete == Spec => []RefusalLeavesNothing
<1>1. GateInv => RefusalLeavesNothing
  <2> SUFFICES ASSUME GateInv, NEW v \in Evaluators
               PROVE  /\ eval[v].result = "AUTHORITY_CONSTRUCTION_FAILED" =>
                           /\ cont[eval[v].on].status = "closed" /\ ~cont[eval[v].on].handle
                           /\ \A w \in Evaluators : eval[w].on = eval[v].on => auth[w] # "open"
                      /\ eval[v].result = "INVARIANT_ERROR" =>
                           cont[eval[v].on].adoptedBy \notin {v, NoEvaluator}
    BY DEF RefusalLeavesNothing
  <2> QED BY DEF GateInv, EvalInv, Settled, Open
<1> QED BY <1>1, GateInvHolds, PTL

(* Whatever other threads do between two checks, an admission is granted   *)
(* and a token used only while process, deadline and policy are still what *)
(* was evaluated (_revalidate_locked), and no token comes back.            *)
THEOREM GrantsStayCurrent == Spec => GrantsAreCurrent
<1>1. GateInv /\ [Next]_vars =>
        [/\ \A v \in Evaluators :
              auth[v] # "open" /\ auth'[v] = "open" => Current(eval[v].on, eval[v].revision)
         /\ \A e \in Endpoints : \A i \in DOMAIN cont[e].tokens :
              LET before == cont[e].tokens[i].state
                  after == cont'[e].tokens[i].state IN
              /\ before # "live" => after = before
              /\ before = "live" /\ after = "used" =>
                   Current(e, cont[e].snapshot) /\ cont[e].adoptedBy = NoEvaluator]_vars
  BY StepsKeepGateInv DEF StepGrants, TokensUsed
<1> QED BY <1>1, GateInvHolds, PTL DEF Spec, GrantsAreCurrent

=============================================================================

------------------------- MODULE TrustDistribution -------------------------
(***************************************************************************)
(* The protected trust distribution (protected_trust_distribution.py,      *)
(* _store.py): a store that ingests signed checkpoints of the trust store, *)
(* each the direct successor of the one before, under the policy and the   *)
(* independent pin its provider supplies.                                  *)
(*                                                                         *)
(* apply holds the write lock and the lease of the provider.  It verifies  *)
(* the bundle against the head, writes, verifies it again against the head *)
(* it wrote, commits, and verifies once more before it answers.            *)
(*                                                                         *)
(* Signatures verify: bundles are the ones some key signed.  The end of a  *)
(* bundle stands for all windows that end with it, and its transition for  *)
(* the epoch and key it was signed to leave.                               *)
(***************************************************************************)
EXTENDS HostClock, Sequences

CONSTANTS
  Bundles,      \* TrustDistributionBundle
  PolicyInputs, \* DistributionPolicyInputs: a policy and a pin of it
  FirstInputs,  \* those of the anchor, in force at its creation
  MaxIngestions \* HISTORY_LIMIT

NoTransition == [root |-> "none"]

ASSUME DistributionConstants ==
  /\ \A b \in Bundles :
       /\ b.revision \in Nat /\ b.issued \in Nat /\ b.until \in Nat
       /\ {b.trust, b.epoch} \subseteq Nat \X STRING
       /\ {b.name, b.previous, b.key} \subseteq STRING
       /\ b.transition = NoTransition \/ DOMAIN b.transition = {"root", "epoch", "key"}
  /\ \A in \in PolicyInputs :
       /\ in.pin \in STRING /\ in.until \in Nat
       /\ in.policy.revision \in Nat /\ in.policy.keys \subseteq STRING
       /\ in.policy.root \in STRING
       /\ DOMAIN in.policy.bootstrap = {"revision", "epoch", "key"}
  /\ FirstInputs \in PolicyInputs
  /\ MaxIngestions \in Nat

VARIABLES
  store,     \* the image: history of ingestions and head
  provider,  \* what the policy provider supplies now
  applying,  \* the apply under way
  outcome    \* the last answer of apply

distributionVars == <<store, provider, applying, outcome>>

NoHead == [bundle |-> "none"]
NotApplying == [phase |-> "idle"]
NoOutcome == [status |-> "NONE"]

(***************************************************************************)
(* verify_trust_distribution, of the request q = [bundle, inputs]          *)
(***************************************************************************)
\* Everything that does not depend on the head: windows, keys, and the root's
\* signature under a transition
InForce(q, now) ==
  LET b == q.bundle IN
  /\ b.issued <= now /\ now < b.until /\ now < q.inputs.until
  /\ b.revision >= q.inputs.policy.bootstrap.revision
  /\ b.key \in q.inputs.policy.keys
  /\ b.transition # NoTransition => b.transition.root = q.inputs.policy.root

Starts(q) ==
  LET b == q.bundle IN
  /\ [revision |-> b.revision, epoch |-> b.epoch, key |-> b.key] = q.inputs.policy.bootstrap
  /\ b.previous = "zero" /\ b.transition = NoTransition

Onward(q, head, now) ==
  /\ now >= head.checked
  /\ \/ q.inputs.policy.revision > head.policy.revision
     \/ q.inputs.policy = head.policy

SameEpoch(b, last) ==
  b.epoch = last.epoch /\ b.key = last.key /\ b.transition = NoTransition

NewEpoch(b, last) ==
  /\ b.epoch[1] = last.epoch[1] + 1 /\ b.epoch[2] # last.epoch[2]
  /\ b.key # last.key
  /\ b.transition # NoTransition
  /\ b.transition.epoch = last.epoch /\ b.transition.key = last.key

\* Mutant: a revision that was missed is skipped.
Follows_Skipping(b, last) ==
  /\ b.revision > last.revision
  /\ b.issued >= last.issued
  /\ b.trust[1] > last.trust[1] \/ b.trust = last.trust
  /\ SameEpoch(b, last) \/ NewEpoch(b, last)

Follows(b, last) ==
  /\ b.revision = last.revision + 1 /\ b.previous = last.name
  /\ b.issued >= last.issued
  /\ b.trust[1] > last.trust[1] \/ b.trust = last.trust
  /\ SameEpoch(b, last) \/ NewEpoch(b, last)

Status(q, head, now) ==
  IF ~InForce(q, now) THEN "REJECTED"
  ELSE IF head = NoHead THEN IF Starts(q) THEN "INITIAL" ELSE "REJECTED"
  ELSE IF ~Onward(q, head, now) THEN "REJECTED"
  ELSE IF q.bundle = head.bundle THEN "UNCHANGED"
  ELSE IF Follows(q.bundle, head.bundle) THEN "ADVANCE" ELSE "REJECTED"

HeadFrom(q, head, now) ==
  [bundle |-> q.bundle, policy |-> q.inputs.policy, checked |-> now,
   accepted |-> IF Status(q, head, now) = "UNCHANGED" THEN head.accepted ELSE now]

(***************************************************************************)
(* _anchor_inputs: what a store was created under stays.                   *)
(***************************************************************************)
Anchored(in) ==
  LET first == FirstInputs.policy IN
  /\ in.policy.bootstrap = first.bootstrap
  /\ in.policy.revision > first.revision \/ in.policy = first

(***************************************************************************)
(* _validate: the history is replayed, each ingestion at its own time; the *)
(* head is the last one, verified again later.                             *)
(***************************************************************************)
HeadAfter(history) ==
  LET head[i \in 0..Len(history)] ==
        IF i = 0 THEN NoHead
        ELSE HeadFrom(history[i].request, head[i - 1], history[i].at)
  IN head[Len(history)]

ValidEntry(history, i) ==
  LET e == history[i]
      before == SubSeq(history, 1, i - 1)
  IN /\ Anchored(e.request.inputs)
     /\ e.status # "REJECTED" /\ e.status = Status(e.request, HeadAfter(before), e.at)
     /\ \A j \in 1..(i - 1) : history[j].request # e.request

StoreLoads(image) ==
  LET replayed == HeadAfter(image.history) IN
  /\ Len(image.history) <= MaxIngestions
  /\ \A i \in DOMAIN image.history : ValidEntry(image.history, i)
  /\ image.history = <<>> => image.head = NoHead
  /\ image.history # <<>> =>
       LET last == image.history[Len(image.history)].request
           at == image.head.checked
       IN /\ replayed.checked <= at
          /\ Status(last, replayed, at) # "REJECTED"
          /\ image.head = HeadFrom(last, replayed, at)

\* _load: and the clock must not be behind what it recorded.
LoadsAt(image, now) ==
  StoreLoads(image) /\ (image.head # NoHead => image.head.checked <= now)

(***************************************************************************)
(* TestDistributionPolicyProvider.replace_for_testing; while an apply has  *)
(* the lease only its own hooks can.                                       *)
(***************************************************************************)
ReplaceProvider(in) ==
  /\ in.policy.revision > provider.policy.revision \/ in.policy = provider.policy
  /\ provider' = in
  /\ applying' = IF applying = NotApplying THEN applying
                 ELSE [applying EXCEPT !.stale = TRUE]
  /\ UNCHANGED <<store, outcome>>

\* A provider of another process: it shares no policy with this one.
NewDistributionProvider(in) ==
  /\ applying = NotApplying
  /\ provider' = in
  /\ UNCHANGED <<store, applying, outcome>>

(***************************************************************************)
(* apply.  A bundle that is the last one, under the very inputs it was     *)
(* last ingested under, is a repeat; a repeat of an earlier one runs into  *)
(* the UNIQUE constraint.                                                  *)
(***************************************************************************)
Repeats(q) ==
  store.history # <<>> /\ store.history[Len(store.history)].request = q

MayIngest(q) ==
  /\ Len(store.history) < MaxIngestions
  /\ \A i \in DOMAIN store.history : store.history[i].request # q

BeginApply(b) ==
  LET q == [bundle |-> b, inputs |-> provider]
      status == Status(q, store.head, clock)
      entry == [request |-> q, at |-> clock, status |-> status]
  IN
  /\ applying = NotApplying
  /\ LoadsAt(store, clock) /\ Anchored(provider) /\ status # "REJECTED"
  /\ Repeats(q) \/ MayIngest(q)
  /\ applying' =
       [phase |-> "written", request |-> q, last |-> clock, stale |-> FALSE,
        before |-> Len(store.history), status |-> status,
        image |-> [history |-> IF Repeats(q) THEN store.history
                               ELSE Append(store.history, entry),
                   head |-> HeadFrom(q, store.head, clock)]]
  /\ outcome' = NoOutcome
  /\ UNCHANGED <<store, provider>>

\* The checks made before and after the commit, with a new reading of the clock
Verified ==
  /\ clock >= applying.last /\ ~applying.stale
  /\ Status(applying.request, applying.image.head, clock) # "REJECTED"

RecheckApply ==
  /\ applying.phase = "written" /\ Verified
  /\ applying' = [applying EXCEPT
       !.phase = "checked", !.last = clock,
       !.image = [history |-> @.history, head |-> HeadFrom(applying.request, @.head, clock)]]
  /\ UNCHANGED <<store, provider, outcome>>

Commits == applying.phase = "checked" /\ Verified /\ LoadsAt(applying.image, clock)

CommitApply ==
  /\ Commits
  /\ store' = applying.image
  /\ applying' = [applying EXCEPT !.phase = "committed", !.last = clock]
  /\ UNCHANGED <<provider, outcome>>

Conclude(status) ==
  /\ applying' = NotApplying
  /\ outcome' = [status |-> status]

CommitApplyFails ==
  /\ Commits
  /\ store' \in {store, applying.image}
  /\ Conclude("OUTCOME_UNKNOWN")
  /\ UNCHANGED provider

ReturnApply ==
  /\ applying.phase = "committed"
  /\ IF Verified
     THEN /\ applying' = NotApplying
          /\ outcome' = [status |-> applying.status, request |-> applying.request,
                         receipt |-> Len(applying.image.history)]
     ELSE Conclude("OUTCOME_UNKNOWN")
  /\ UNCHANGED <<store, provider>>

\* A check or SQLite fails before COMMIT is attempted.
RollbackApply ==
  /\ applying.phase \in {"written", "checked"}
  /\ Conclude("REFUSED")
  /\ UNCHANGED <<store, provider>>

CrashApply ==
  /\ applying # NotApplying
  /\ applying' = NotApplying /\ outcome' = NoOutcome
  /\ UNCHANGED <<store, provider>>

DistributionInit ==
  /\ store = [history |-> <<>>, head |-> NoHead]
  /\ provider = FirstInputs
  /\ applying = NotApplying
  /\ outcome = NoOutcome

DistributionNext ==
  \/ SetClock /\ UNCHANGED distributionVars
  \/ /\ UNCHANGED clock
     /\ \/ \E in \in PolicyInputs : ReplaceProvider(in) \/ NewDistributionProvider(in)
        \/ \E b \in Bundles : BeginApply(b)
        \/ RecheckApply \/ CommitApply \/ CommitApplyFails
        \/ ReturnApply \/ RollbackApply \/ CrashApply

(***************************************************************************)
(* Whatever was ingested under whatever policies and clocks, the history   *)
(* replays: the loader accepts it from the time of its head on.            *)
(***************************************************************************)
DistributionLoads == StoreLoads(store)

(***************************************************************************)
(* What apply answers is true: an accepted bundle is recorded under the    *)
(* inputs that were checked, and a refusal has recorded nothing.           *)
(***************************************************************************)
DistributionAnswers ==
  [][/\ outcome'.status \in {"INITIAL", "ADVANCE", "UNCHANGED"} =>
          store'.history[outcome'.receipt].request = outcome'.request
     /\ applying # NotApplying /\ outcome'.status = "REFUSED" =>
          Len(store'.history) = applying.before]_distributionVars
=============================================================================

------------------------ MODULE CheckpointAuthority ------------------------
(***************************************************************************)
(* The reconciliation authority (reconciliation_simulation.py, _validation *)
(* .py, _durable_store.py, _durable_writer.py): it accepts, one after the  *)
(* other, extensions of the update store, and so knows when that store was *)
(* set back.  A client drafts a request from what it reads of both stores; *)
(* the authority evaluates it in one transaction at the caller's time.     *)
(*                                                                         *)
(* An image stands for its digest; the authorization of a batch names the  *)
(* policy it was given under, and its window is that of the request.  An   *)
(* envelope is its revision, the image it certifies and its end.           *)
(***************************************************************************)
EXTENDS UpdateStore, SequencesExt

CONSTANTS
  Clients,         \* principal_id
  RequestIds,      \* request_id
  AuthorityPolicies,  \* SyntheticAuthorityPolicy
  FirstAuthorityPolicy,
  RequestLifetime,
  FirstUntil,      \* end of the trusted initial envelope
  MaxAcceptances   \* 64 in the code

ASSUME AuthorityConstants ==
  /\ AuthorityPolicies \subseteq
       [revision : Nat, until : Nat, submit : SUBSET Clients, recover : SUBSET Clients]
  /\ FirstAuthorityPolicy \in AuthorityPolicies
  /\ RequestLifetime \in Nat /\ FirstUntil \in Nat /\ MaxAcceptances \in Nat

VARIABLES
  history,   \* acceptances
  policy,    \* the policy of the authority
  asked,     \* the request last drafted under each id
  outcome    \* what the last step answered, if it did

authorityVars == <<history, policy, asked, outcome>>
vars == <<clock, updateVars, authorityVars>>

NoRequest == [id |-> "none"]
NoOutcome == [status |-> "NONE"]

FirstEnvelope == [revision |-> 1, image |-> <<>>, until |-> FirstUntil]

EnvelopeAfter(entries) ==
  IF entries = <<>> THEN FirstEnvelope ELSE entries[Len(entries)].successor

Late(image, now) == \E i \in DOMAIN image : image[i].at > now

\* Mutant: the numbers of events are compared, not the events.
Relationship_Counts(image, envelope, now) ==
  IF now >= envelope.until \/ Late(image, now) THEN "INDETERMINATE"
  ELSE IF Len(image) < Len(envelope.image) THEN "CHECKPOINT_AHEAD"
  ELSE IF Len(image) = Len(envelope.image) THEN "MATCHED"
  ELSE "DATABASE_EXTENSION_PENDING"

(* classify_checkpoint_relationship                                        *)
Relationship(image, envelope, now) ==
  IF now >= envelope.until \/ Late(image, now) THEN "INDETERMINATE"
  ELSE IF ~UpdateLoads(image) THEN "FORK_OR_MISMATCH"
  ELSE IF Len(image) < Len(envelope.image) THEN "CHECKPOINT_AHEAD"
  ELSE IF ~IsPrefix(envelope.image, image) THEN "FORK_OR_MISMATCH"
  ELSE IF image = envelope.image THEN "MATCHED"
  ELSE "DATABASE_EXTENSION_PENDING"

Permitted(p, action, client, now) == now < p.until /\ client \in p[action]

(* _make_acceptance                                                        *)
MayAccept(envelope, r, p, now) ==
  /\ r.expected = envelope
  /\ Permitted(p, "submit", r.client, now)
  /\ now < r.until /\ r.policy = p.revision
  /\ Relationship(r.image, envelope, now) = "DATABASE_EXTENSION_PENDING"

Acceptance(envelope, r, p, now) ==
  [request |-> r, policy |-> p, at |-> now,
   successor |-> [revision |-> envelope.revision + 1, image |-> r.image,
                  until |-> Min({r.until, p.until})]]

PolicyFollows(p, old) == p.revision > old.revision \/ p = old

(* _validate_state, at the time of the caller: every acceptance is made    *)
(* anew from the ones before it.                                           *)
AuthorityLoads(entries, p, now) ==
  /\ ~Late(EnvelopeAfter(entries).image, now)
  /\ entries # <<>> => PolicyFollows(p, entries[Len(entries)].policy)
  /\ \A i \in DOMAIN entries :
       LET e == entries[i]
           before == SubSeq(entries, 1, i - 1)
       IN /\ e.at <= now
          /\ \A j \in DOMAIN before : before[j].request.id # e.request.id
          /\ before # <<>> =>
               before[i - 1].at <= e.at /\ PolicyFollows(e.policy, before[i - 1].policy)
          /\ MayAccept(EnvelopeAfter(before), e.request, e.policy, e.at)
          /\ e = Acceptance(EnvelopeAfter(before), e.request, e.policy, e.at)

(***************************************************************************)
(* The client: the request and its authorization are drafted from the      *)
(* update store and the authority as they are now, under any id, when its  *)
(* own comparison says that an acceptance is what is missing.              *)
(***************************************************************************)
Draft(client, id) ==
  /\ Relationship(events, EnvelopeAfter(history), clock) = "DATABASE_EXTENSION_PENDING"
  /\ asked' = [asked EXCEPT ![id] =
       [id |-> id, client |-> client, expected |-> EnvelopeAfter(history), image |-> events,
        until |-> clock + RequestLifetime, policy |-> policy.revision]]
  /\ outcome' = NoOutcome
  /\ UNCHANGED <<history, policy>>

(***************************************************************************)
(* submit: one transaction.  The rights of today are tested before the     *)
(* request is looked up; a recorded request is only ever recovered.        *)
(***************************************************************************)
Recorded(id) == {i \in DOMAIN history : history[i].request.id = id}

Addressed(r) ==
  /\ r # NoRequest
  /\ AuthorityLoads(history, policy, clock)
  /\ \E action \in {"submit", "recover"} : Permitted(policy, action, r.client, clock)

Answered(status, id, i) == outcome' = [status |-> status, id |-> id, at |-> i]

\* It is validated like a loaded state, which says nothing new of it.
Proposed(r) == Append(history, Acceptance(EnvelopeAfter(history), r, policy, clock))

Acceptable(r) ==
  /\ Addressed(r) /\ Recorded(r.id) = {}
  /\ Len(history) < MaxAcceptances
  /\ MayAccept(EnvelopeAfter(history), r, policy, clock)

Submit(id) ==
  LET r == asked[id] IN
  /\ Acceptable(r)
  /\ history' = Proposed(r)
  /\ Answered("ACCEPTED", id, Len(history) + 1)
  /\ UNCHANGED <<policy, asked>>

\* COMMIT reports an error (OUTCOME_UNKNOWN), or the answer is lost.
SubmitFails(id) ==
  LET r == asked[id] IN
  /\ Acceptable(r)
  /\ history' \in {history, Proposed(r)}
  /\ outcome' = NoOutcome
  /\ UNCHANGED <<policy, asked>>

\* Mutant: whatever is on record under the id is the answer.
RecoverAcceptance_ById(id) ==
  LET r == asked[id] IN
  /\ Addressed(r)
  /\ \E i \in Recorded(r.id) : Answered("RECOVERED", id, i)
  /\ Permitted(policy, "recover", r.client, clock)
  /\ UNCHANGED <<history, policy, asked>>

\* Both for SUBMIT and RECOVER of a request that is on record
RecoverAcceptance(id) ==
  LET r == asked[id] IN
  /\ Addressed(r)
  /\ \E i \in Recorded(r.id) : history[i].request = r /\ Answered("RECOVERED", id, i)
  /\ Permitted(policy, "recover", r.client, clock)
  /\ UNCHANGED <<history, policy, asked>>

\* Mutant: any other policy may replace the one in force.
ReplaceAuthorityPolicy_Any(p) ==
  /\ AuthorityLoads(history, policy, clock)
  /\ p # policy /\ clock < p.until
  /\ policy' = p
  /\ outcome' = NoOutcome
  /\ UNCHANGED <<history, asked>>

\* replace_policy_for_testing: compare and set, also of its own repeat
ReplaceAuthorityPolicy(p) ==
  /\ AuthorityLoads(history, policy, clock)
  /\ p.revision > policy.revision /\ clock < p.until
  /\ policy' = p
  /\ outcome' = NoOutcome
  /\ UNCHANGED <<history, asked>>

AuthorityNext ==
  \/ \E client \in Clients, id \in RequestIds : Draft(client, id)
  \/ \E id \in RequestIds : Submit(id) \/ SubmitFails(id) \/ RecoverAcceptance(id)
  \/ \E p \in AuthorityPolicies : ReplaceAuthorityPolicy(p)

Init ==
  /\ clock = 0
  /\ UpdateInit
  /\ history = <<>>
  /\ policy = FirstAuthorityPolicy
  /\ asked = [id \in RequestIds |-> NoRequest]
  /\ outcome = NoOutcome

Next ==
  \/ UpdateNext /\ outcome' = NoOutcome /\ UNCHANGED <<history, policy, asked>>
  \/ /\ update = NoUpdate /\ AuthorityNext
     /\ reply' = NoReply /\ UNCHANGED <<clock, events, update>>

Spec == Init /\ [][Next]_vars

(***************************************************************************)
(* What the authority accepted is never contradicted by what it accepts    *)
(* later, however often the update store is set back and goes another way: *)
(* the accepted images are prefixes of each other, and none is forgotten.  *)
(***************************************************************************)
AcceptedOnlyGrows ==
  [][/\ IsPrefix(history, history')
     /\ IsStrictPrefix(EnvelopeAfter(history).image, EnvelopeAfter(history').image)
          \/ history' = history]_vars

(***************************************************************************)
(* A request is accepted once, and its acceptance is what every repeat of  *)
(* it is answered, under whatever policy and envelope: an answer names the *)
(* acceptance of exactly the request that was asked, a repeat adds none,   *)
(* and no id is ever on record twice.                                      *)
(***************************************************************************)
RepeatsMakeNothing ==
  [][/\ outcome'.status \in {"ACCEPTED", "RECOVERED"} =>
          history'[outcome'.at].request = asked[outcome'.id]
     /\ outcome'.status = "RECOVERED" => history' = history
     /\ \A i, j \in DOMAIN history' :
          history'[i].request.id = history'[j].request.id => i = j]_vars

(***************************************************************************)
(* The authority, which makes every acceptance anew before it serves,      *)
(* refuses its own history for one reason only, a clock that stands before *)
(* the last acceptance: whatever the update store, the requests and the    *)
(* policies have been since, from that instant on it loads.                *)
(***************************************************************************)
RefusedForTimeOnly ==
  \A now \in Times :
    (history # <<>> => history[Len(history)].at <= now) => AuthorityLoads(history, policy, now)
=============================================================================

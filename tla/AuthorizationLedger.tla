------------------------ MODULE AuthorizationLedger ------------------------
(***************************************************************************)
(* The administrative ledger of the version 4 store (authorization_writer  *)
(* .py, authorization_validator.py, authorization_storage.py, and of the   *)
(* host the parts of host_auth.py, mtls.py and provisioning_session.py     *)
(* they call): an operator seeds it under a provisioning lease, and from   *)
(* then on the administrators it names enroll and disable credentials,     *)
(* grant and revoke permissions.                                           *)
(*                                                                         *)
(* Operator and administrators are verified before the store is locked,    *)
(* and what was verified is used under the lock, any time later.  All      *)
(* windows begin at 0; a manifest stands for its digest; a grant id is a   *)
(* number, since the code takes the least of several.                      *)
(***************************************************************************)
EXTENDS HostClock, Sequences, FiniteSetsExt

CONSTANTS
  Hosts,            \* processes that bootstrap, each with a session of its own
  Descriptors,      \* what a host's session was installed with
  Anchor,           \* BootstrapTrustAnchor of the store
  LeaseLifetime,    \* authorization_seconds
  IdentityLifetime, \* five minutes in the code
  Payloads,         \* AdminPayload
  MaxAuthorizations \* bound of the instances; the code's ledger is unbounded

Enrollments == [id : STRING, principal : STRING, until : Nat]
Permissions == [id : Nat, principal : STRING, manage : BOOLEAN, until : Nat]
Manifests == [name : STRING, until : Nat, enrolled : Enrollments, granted : Permissions]
Installed == [manifest : Manifests, operator : STRING, session : STRING, until : Nat]

ASSUME AuthorizationConstants ==
  /\ Anchor \in Installed /\ Descriptors \subseteq Installed
  /\ \A d \in Descriptors \cup {Anchor} :  \* seed_contract
       d.manifest.granted.manage /\ d.manifest.granted.principal = d.manifest.enrolled.principal
  /\ Payloads \subseteq
       [kind : {"CREDENTIAL_ENROLLED"}, enrolled : Enrollments]
         \cup [kind : {"PERMISSION_GRANTED"}, granted : Permissions]
         \cup [kind : {"CREDENTIAL_DISABLED"}, target : STRING, expected : Nat]
         \cup [kind : {"PERMISSION_REVOKED"}, target : Nat, expected : Nat]
  /\ {LeaseLifetime, IdentityLifetime, MaxAuthorizations} \subseteq Nat

VARIABLES
  authorizations,  \* authorization_events; empty before version 4
  activation,      \* the bootstrap under way at each host
  identities,      \* the identity last verified for each credential, until it is used
  receipt          \* what the last step answered, if it did

authorizationVars == <<authorizations, activation, identities, receipt>>

NoActivation == [step |-> "none"]
NoIdentity == [credential |-> "none"]
NoReceipt == [status |-> "NONE"]

Credentials ==
  {Anchor.manifest.enrolled.id}
    \cup {p.enrolled.id : p \in {x \in Payloads : x.kind = "CREDENTIAL_ENROLLED"}}

(***************************************************************************)
(* What a ledger says                                                      *)
(***************************************************************************)
Kind(image, kind) == {i \in DOMAIN image : image[i].payload.kind = kind}

EnrolledAt(image, c) ==
  {i \in Kind(image, "CREDENTIAL_ENROLLED") : image[i].payload.enrolled.id = c}
DisabledAt(image, c) ==
  {i \in Kind(image, "CREDENTIAL_DISABLED") : image[i].payload.target = c}
GrantedAt(image, g) ==
  {i \in Kind(image, "PERMISSION_GRANTED") : image[i].payload.granted.id = g}
RevokedAt(image, g) ==
  {i \in Kind(image, "PERMISSION_REVOKED") : image[i].payload.target = g}

CredentialOf(image, c) == image[Max(EnrolledAt(image, c))].payload.enrolled
PermissionOf(image, g) == image[Max(GrantedAt(image, g))].payload.granted

IsEnabled(image, c) ==
  \E i \in EnrolledAt(image, c) : \A j \in DisabledAt(image, c) : j < i
IsStanding(image, g) ==
  \E i \in GrantedAt(image, g) : \A j \in RevokedAt(image, g) : j < i

Active(image, c, at) == IsEnabled(image, c) /\ at < CredentialOf(image, c).until

Administers(image, g, principal, at) ==
  /\ IsStanding(image, g)
  /\ PermissionOf(image, g).principal = principal /\ PermissionOf(image, g).manage
  /\ at < PermissionOf(image, g).until

\* Every grant id of a ledger
Grants(image) ==
  {image[i].payload.granted.id : i \in Kind(image, "PERMISSION_GRANTED")}

Administration(image, principal, at) ==
  {g \in Grants(image) : Administers(image, g, principal, at)}

(***************************************************************************)
(* validate_authorization_ledger                                           *)
(***************************************************************************)
\* Mutant: a credential id may be enrolled again once it is disabled.
PayloadFits_Reenrolls(image, p, at) ==
  \/ /\ p.kind = "CREDENTIAL_ENROLLED"
     /\ ~IsEnabled(image, p.enrolled.id) /\ at < p.enrolled.until
  \/ /\ p.kind = "CREDENTIAL_DISABLED"
     /\ IsEnabled(image, p.target) /\ p.expected \in EnrolledAt(image, p.target)
  \/ p.kind = "PERMISSION_GRANTED"

PayloadFits(image, p, at) ==
  \/ /\ p.kind = "CREDENTIAL_ENROLLED"
     /\ EnrolledAt(image, p.enrolled.id) = {} /\ at < p.enrolled.until
  \/ /\ p.kind = "CREDENTIAL_DISABLED"
     /\ IsEnabled(image, p.target) /\ p.expected \in EnrolledAt(image, p.target)
  \/ /\ p.kind = "PERMISSION_GRANTED"
     /\ GrantedAt(image, p.granted.id) = {} /\ at < p.granted.until
     /\ \E i \in Kind(image, "CREDENTIAL_ENROLLED") :
          image[i].payload.enrolled.principal = p.granted.principal
  \/ /\ p.kind = "PERMISSION_REVOKED"
     /\ IsStanding(image, p.target) /\ p.expected \in GrantedAt(image, p.target)

\* The part of it that PolicyAuthorizer.authorize tests too
Identified(image, identity, at) ==
  /\ identity.revision = Len(image)
  /\ Active(image, identity.credential, at)
  /\ CredentialOf(image, identity.credential).principal = identity.principal
  /\ identity.verified <= at /\ at < identity.until
  /\ identity.until <= CredentialOf(image, identity.credential).until
  /\ identity.until <= identity.verified + IdentityLifetime

ValidSeed(image, i) ==
  LET m == Anchor.manifest IN
  /\ image[i].actor = NoIdentity
  /\ image[i].at = image[1].at
  /\ image[i].at < Anchor.until /\ image[i].at < m.until
  /\ image[i].at < m.enrolled.until /\ image[i].at < m.granted.until
  /\ image[i].payload =
       IF i = 1 THEN [kind |-> "CREDENTIAL_ENROLLED", enrolled |-> m.enrolled]
       ELSE [kind |-> "PERMISSION_GRANTED", granted |-> m.granted]

ValidAuthorization(image, i) ==
  LET e == image[i]
      before == SubSeq(image, 1, i - 1)
  IN /\ \A j \in DOMAIN before : before[j].id # e.id
     /\ i > 1 => image[i - 1].at <= e.at
     /\ IF i <= 2 THEN ValidSeed(image, i)
        ELSE /\ Identified(before, e.actor, e.at)
             /\ Administers(before, e.grant, e.actor.principal, e.at)
     /\ PayloadFits(before, e.payload, e.at)

\* read_administration
AuthorizationLoads(image) == \A i \in DOMAIN image : ValidAuthorization(image, i)

(***************************************************************************)
(* migrate_to_v4.  verify_activation runs before the lock; its lease is    *)
(* checked again when the lock is held and when all is written.            *)
(***************************************************************************)
Seed(i, payload, at) ==
  [id |-> i, at |-> at, actor |-> NoIdentity, grant |-> 0,
   payload |-> payload]

Seeded(m, at) ==
  <<Seed(1, [kind |-> "CREDENTIAL_ENROLLED", enrolled |-> m.enrolled], at),
    Seed(2, [kind |-> "PERMISSION_GRANTED", granted |-> m.granted], at)>>

\* calculate_provisioning_lease: every window of the lease is cut to the shortest.
LeaseEnd(d) ==
  LET m == d.manifest
  IN Min({clock + LeaseLifetime, d.until, m.until, m.enrolled.until, m.granted.until})

Activate(h, d) ==
  /\ activation[h] = NoActivation
  /\ clock < LeaseEnd(d)
  /\ activation' = [activation EXCEPT ![h] =
       [step |-> "ACTIVATED", proof |-> d, from |-> clock, until |-> LeaseEnd(d),
        last |-> clock]]
  /\ receipt' = NoReceipt
  /\ UNCHANGED <<authorizations, identities>>

\* _check_provisioning_commit, whose two readings of the clock are one here.
\* The monotonic deadline may have passed at any time, see RollbackBootstrap.
LeaseHolds(call) ==
  call.last <= clock /\ call.from <= clock /\ clock < call.until

Locked == {h \in Hosts : activation[h].step = "LOCKED"}

LockBootstrap(h) ==
  LET call == activation[h]
      seeded == Seeded(call.proof.manifest, clock)
  IN /\ call.step = "ACTIVATED" /\ Locked = {}
     /\ LeaseHolds(call)
     /\ call.proof.operator = Anchor.operator /\ call.proof.manifest = Anchor.manifest
     /\ authorizations = <<>> =>
          /\ call.proof.session = Anchor.session
          /\ AuthorizationLoads(seeded)
     /\ activation' = [activation EXCEPT ![h] =
          [step |-> "LOCKED", proof |-> call.proof, from |-> call.from, until |-> call.until,
           last |-> clock,
           image |-> IF authorizations = <<>> THEN seeded ELSE authorizations]]
     /\ receipt' = NoReceipt
     /\ UNCHANGED <<authorizations, identities>>

\* Mutant: the lease is not checked again when all is written.
CommitBootstrap_Unchecked(h) ==
  /\ activation[h].step = "LOCKED"
  /\ authorizations' = activation[h].image
  /\ activation' = [activation EXCEPT ![h] = NoActivation]
  /\ receipt' = [status |-> "BOOTSTRAPPED", at |-> activation[h].image[1].at]
  /\ UNCHANGED identities

CommitBootstrap(h) ==
  /\ activation[h].step = "LOCKED" /\ LeaseHolds(activation[h])
  /\ authorizations' = activation[h].image
  /\ activation' = [activation EXCEPT ![h] = NoActivation]
  /\ receipt' = [status |-> "BOOTSTRAPPED", at |-> activation[h].image[1].at]
  /\ UNCHANGED identities

\* COMMIT reports an error, or the answer is lost.
CommitBootstrapFails(h) ==
  /\ activation[h].step = "LOCKED" /\ LeaseHolds(activation[h])
  /\ authorizations' \in {authorizations, activation[h].image}
  /\ activation' = [activation EXCEPT ![h] = NoActivation]
  /\ receipt' = NoReceipt
  /\ UNCHANGED identities

\* A check fails, the deadline of the lease passes, or the process ends.
RollbackBootstrap(h) ==
  /\ activation[h] # NoActivation
  /\ activation' = [activation EXCEPT ![h] = NoActivation]
  /\ receipt' = NoReceipt
  /\ UNCHANGED <<authorizations, identities>>

(***************************************************************************)
(* append: the identity is verified against what the ledger says now, and  *)
(* used in one transaction later.                                          *)
(***************************************************************************)
\* MtlsConnection.verify, RegistryCredentialVerifier.verify
VerifyIdentity(c) ==
  /\ Active(authorizations, c, clock)
  /\ identities' = [identities EXCEPT ![c] =
       [credential |-> c, principal |-> CredentialOf(authorizations, c).principal,
        verified |-> clock, revision |-> Len(authorizations),
        until |-> Min({CredentialOf(authorizations, c).until, clock + IdentityLifetime})]]
  /\ receipt' = NoReceipt
  /\ UNCHANGED <<authorizations, activation>>

Prior(id) == {i \in DOMAIN authorizations : authorizations[i].id = id}

\* PolicyAuthorizer.authorize of MANAGE_HOST, before anything else
MayManage(identity) ==
  /\ identity # NoIdentity
  /\ Identified(authorizations, identity, clock)
  /\ Administration(authorizations, identity.principal, clock) # {}

Requested(c, id, payload) ==
  [id |-> id, at |-> clock, actor |-> identities[c], payload |-> payload,
   grant |-> Min(Administration(authorizations, identities[c].principal, clock))]

\* What append may write of a request that is not on record
Appendable(c, id, payload) ==
  LET image == Append(authorizations, Requested(c, id, payload)) IN
  /\ Locked = {} /\ Prior(id) = {} /\ Len(authorizations) < MaxAuthorizations
  /\ MayManage(identities[c])
  /\ ValidAuthorization(image, Len(image))

Used(c) == identities' = [identities EXCEPT ![c] = NoIdentity]

\* expected is the number of events the request was drafted from
AppendAuthorization(c, id, payload, expected) ==
  /\ expected = Len(authorizations) /\ Appendable(c, id, payload)
  /\ authorizations' = Append(authorizations, Requested(c, id, payload))
  /\ Used(c)
  /\ receipt' = [status |-> "APPENDED", by |-> c, id |-> id, at |-> Len(authorizations')]
  /\ UNCHANGED activation

AppendAuthorizationFails(c, id, payload, expected) ==
  /\ expected = Len(authorizations) /\ Appendable(c, id, payload)
  /\ authorizations' \in {authorizations, Append(authorizations, Requested(c, id, payload))}
  /\ Used(c)
  /\ receipt' = NoReceipt
  /\ UNCHANGED activation

\* Mutant: a repeat is recognised before its authorization is evaluated.
RecoverAuthorization_Unauthorized(c, id, payload, expected) ==
  /\ Locked = {} /\ identities[c] # NoIdentity
  /\ Identified(authorizations, identities[c], clock)
  /\ \E i \in Prior(id) :
       /\ authorizations[i].actor # NoIdentity
       /\ authorizations[i].actor.principal = identities[c].principal
       /\ authorizations[i].actor.credential = c
       /\ authorizations[i].payload = payload /\ expected = i - 1
       /\ receipt' = [status |-> "RECOVERED", by |-> c, id |-> id, at |-> i]
  /\ Used(c)
  /\ UNCHANGED <<authorizations, activation>>

\* An exact repeat, under a fresh identity of the same credential
RecoverAuthorization(c, id, payload, expected) ==
  /\ Locked = {} /\ identities[c] # NoIdentity
  /\ \E i \in Prior(id) :
       /\ authorizations[i].actor # NoIdentity
       /\ authorizations[i].actor.principal = identities[c].principal
       /\ authorizations[i].actor.credential = c
       /\ authorizations[i].payload = payload /\ expected = i - 1
       /\ receipt' = [status |-> "RECOVERED", by |-> c, id |-> id, at |-> i]
  /\ MayManage(identities[c]) /\ Used(c)
  /\ UNCHANGED <<authorizations, activation>>

AuthorizationInit ==
  /\ authorizations = <<>>
  /\ activation = [h \in Hosts |-> NoActivation]
  /\ identities = [c \in Credentials |-> NoIdentity]
  /\ receipt = NoReceipt

\* An id of the ledger, or one it does not have: ids are only ever compared,
\* so which one that is does not matter, and it is the number of the event.
EventIds == 1..(Len(authorizations) + 1)

AuthorizationStep ==
  \/ \E h \in Hosts :
       \/ \E d \in Descriptors : Activate(h, d)
       \/ LockBootstrap(h) \/ CommitBootstrap(h) \/ CommitBootstrapFails(h)
       \/ RollbackBootstrap(h)
  \/ \E c \in Credentials :
       \/ VerifyIdentity(c)
       \/ \E id \in EventIds, payload \in Payloads, expected \in 0..Len(authorizations) :
            \/ AppendAuthorization(c, id, payload, expected)
            \/ AppendAuthorizationFails(c, id, payload, expected)
            \/ RecoverAuthorization(c, id, payload, expected)

AuthorizationNext ==
  \/ SetClock /\ receipt' = NoReceipt /\ UNCHANGED <<authorizations, activation, identities>>
  \/ AuthorizationStep /\ UNCHANGED clock

(***************************************************************************)
(* A credential once disabled, or a permission once revoked, stays so: it  *)
(* is never enabled or granted again, and nothing that is recorded after   *)
(* it was done with it, also by an identity that was verified before.      *)
(***************************************************************************)
RevocationIsFinal ==
  \A i \in DOMAIN authorizations :
    LET p == authorizations[i].payload
        later == {authorizations[j] : j \in {j \in DOMAIN authorizations : j > i}}
    IN /\ p.kind = "CREDENTIAL_DISABLED" =>
            /\ ~IsEnabled(authorizations, p.target)
            /\ \A e \in later : e.actor.credential # p.target
       /\ p.kind = "PERMISSION_REVOKED" =>
            /\ ~IsStanding(authorizations, p.target)
            /\ \A e \in later : e.grant # p.target

(***************************************************************************)
(* A bootstrap is written, or confirmed, for the operator and the manifest *)
(* of the anchor, inside the lease and every window it was verified with,  *)
(* although all of them may end between the verification, the lock and the *)
(* last check.                                                             *)
(***************************************************************************)
WithinLease(call) ==
  LET m == call.proof.manifest IN
  /\ call.proof.operator = Anchor.operator /\ m = Anchor.manifest
  /\ call.from <= clock /\ clock < call.from + LeaseLifetime
  /\ clock < call.proof.until /\ clock < m.until
  /\ clock < m.enrolled.until /\ clock < m.granted.until

BootstrapsInTime ==
  \/ receipt'.status = "BOOTSTRAPPED"
  \/ authorizations = <<>> /\ authorizations' # <<>>
  => \E h \in Locked : activation'[h] = NoActivation /\ WithinLease(activation[h])

(***************************************************************************)
(* An event, or the repeat that adds none, is answered to the credential   *)
(* it was recorded with, while that is enabled and its own principal may   *)
(* administer the host: not to an administrator whose own event, lost and  *)
(* now retried, took that away, though another one may go on.              *)
(***************************************************************************)
AnswersAdministrators ==
  receipt'.status \in {"APPENDED", "RECOVERED"} =>
    LET asker == CredentialOf(authorizations, receipt'.by).principal
        event == authorizations'[receipt'.at]
    IN /\ event.id = receipt'.id
       /\ event.actor.credential = receipt'.by /\ event.actor.principal = asker
       /\ IsEnabled(authorizations, receipt'.by)
       /\ Administration(authorizations, asker, clock) # {}

(***************************************************************************)
(* The ledger is seeded once and only grows; what is answered is on        *)
(* record, to who may have it, and a repeat adds nothing.                  *)
(***************************************************************************)
AuthorizationAnswers ==
  [][/\ \A i \in DOMAIN authorizations : authorizations'[i] = authorizations[i]
     /\ \A i, j \in DOMAIN authorizations' :
          authorizations'[i].id = authorizations'[j].id => i = j
     /\ receipt'.status = "BOOTSTRAPPED" => receipt'.at = authorizations'[1].at
     /\ receipt'.status = "RECOVERED" => authorizations' = authorizations
     /\ BootstrapsInTime /\ AnswersAdministrators]_authorizationVars
=============================================================================

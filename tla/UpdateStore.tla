---------------------------- MODULE UpdateStore ----------------------------
(***************************************************************************)
(* The update store (update_durable_writer.py, update_storage_validation   *)
(* .py, update_validation.py, update_verification.py): a ledger of         *)
(* authorities and of operations that are registered, prepared and         *)
(* committed, each commit moving the head of the deployment by one.        *)
(*                                                                         *)
(* A call holds the write lock of the store from its load to its commit.   *)
(* It evaluates once before it writes, and once more just before COMMIT,   *)
(* each time against the ledger as it was when the lock was taken.         *)
(* Records stand for their digests; a signature is the key it was made     *)
(* with; `until' is the earliest end of the windows that are only ever     *)
(* tested together.  A preparation and a drain are their instants: the     *)
(* reports themselves are fixtures.  The writer never writes a             *)
(* publication.                                                            *)
(***************************************************************************)
EXTENDS HostClock, Sequences, FiniteSetsExt

CONSTANTS
  Intents,       \* UpdateIntent, with the key of its signature
  BaseHead,      \* base_head
  Authorities,   \* RecordedUpdateAuthority; barred: revoked or retired keys
  EvidenceLifetime,
  MaxUpdateEvents  \* 256 in the code

ASSUME UpdateConstants ==
  /\ Intents \subseteq
       [operation : STRING, publisher : STRING, key : STRING, sequence : Nat, expected : STRING,
        candidate : STRING, generation : Nat, until : Nat]
  /\ BaseHead \in [sequence : Nat, checkpoint : STRING, generation : Nat]
  /\ Authorities \subseteq
       [revision : Nat, barred : SUBSET STRING, until : Nat, evaluate : SUBSET STRING,
        recover : SUBSET STRING]
  /\ EvidenceLifetime \in Nat /\ MaxUpdateEvents \in Nat

VARIABLES
  events,        \* the ledger
  update,        \* the call that holds the lock
  reply          \* what the last step answered, if it did

updateVars == <<events, update, reply>>

NoUpdate == [action |-> "none"]
NoEvent == [kind |-> "none"]
NoReply == "NONE"

Observations == [finished : Times, drained : Times]
NoObservation == [finished |-> 0, drained |-> 0]

(***************************************************************************)
(* What a ledger says                                                      *)
(***************************************************************************)
OfKind(image, kind) == {i \in DOMAIN image : image[i].kind = kind}
Of(image, kind, operation) == {i \in OfKind(image, kind) : image[i].operation = operation}

Revision(image) == Max(OfKind(image, "AUTHORITY") \cup {0})
PreviousRevision(image) == Max((OfKind(image, "AUTHORITY") \ {Revision(image)}) \cup {0})
View(image) == image[Revision(image)].view

Registered(image, operation) == Of(image, "REGISTER", operation) # {}
Committed(image, operation) == Of(image, "COMMIT", operation) # {}
IntentOf(image, operation) == image[Max(Of(image, "REGISTER", operation))].intent
\* The instant of the latest preparation
PreparationOf(image, operation) == image[Max(Of(image, "PREPARE", operation))].finished

UpdateHead(image) ==
  LET commits == OfKind(image, "COMMIT") IN
  IF commits = {} THEN BaseHead
  ELSE LET last == IntentOf(image, image[Max(commits)].operation)
       IN [sequence |-> last.sequence + 1, checkpoint |-> last.candidate,
           generation |-> last.generation]

(***************************************************************************)
(* The conditions of the steps                                             *)
(***************************************************************************)
\* Mutant: a later authority may lift a revocation.
AuthorityFollows_Lifts(view, old) ==
  view.revision >= old.revision

\* _authority: a trust revision stands for one store; keys stay barred.
AuthorityFollows(view, old) ==
  /\ view.revision >= old.revision
  /\ view.revision = old.revision => view.barred = old.barred
  /\ old.barred \subseteq view.barred

\* _claims
Entitled(view, intent, at, recovery) ==
  /\ at < view.until /\ intent.publisher \in view.evaluate
  /\ recovery => intent.publisher \in view.recover

\* verify_update_intent_signature
Signed(view, intent, at) ==
  at < view.until /\ intent.key \notin view.barred /\ at < intent.until

\* Mutant: the sequence of the expected head is compared, not its checkpoint.
FitsHead_SequenceOnly(intent, head) ==
  intent.sequence = head.sequence

\* _head_matches
FitsHead(intent, head) ==
  /\ intent.sequence = head.sequence /\ intent.expected = head.checkpoint
  /\ intent.generation > head.generation /\ intent.candidate # head.checkpoint

Fresh(instant, at) == instant <= at /\ at < instant + EvidenceLifetime

MayPrepare(image, intent, seen, at) ==
  /\ Registered(image, intent.operation)
  /\ FitsHead(intent, UpdateHead(image)) /\ Fresh(seen.finished, at)
  /\ Of(image, "PREPARE", intent.operation) # {} =>
       seen.finished >= PreparationOf(image, intent.operation)

MayCommit(image, intent, seen, at) ==
  /\ MayPrepare(image, intent, seen, at)
  /\ Of(image, "PREPARE", intent.operation) # {}
  /\ Fresh(seen.drained, at) /\ seen.drained >= seen.finished

(* validate_update_storage_image: every event is evaluated anew, at its    *)
(* own time and from the events before it.                                 *)
ValidOperation(before, e) ==
  LET intent == IF e.kind = "REGISTER" THEN e.intent ELSE IntentOf(before, e.operation)
  IN /\ ~Committed(before, e.operation)
     /\ e.kind # "REGISTER" => Registered(before, e.operation)
     /\ Revision(before) # 0
     /\ Entitled(View(before), intent, e.at, FALSE)
     /\ Signed(View(before), intent, e.at)
     /\ \/ /\ e.kind = "REGISTER"
           /\ ~Registered(before, e.operation) /\ FitsHead(intent, UpdateHead(before))
        \/ e.kind = "PREPARE" /\ MayPrepare(before, intent, e, e.at)
        \/ /\ e.kind = "COMMIT"
           /\ e.authority = Revision(before) /\ MayCommit(before, intent, e, e.at)

ValidEvent(image, i) ==
  LET e == image[i]
      before == SubSeq(image, 1, i - 1)
  IN /\ i > 1 => image[i - 1].at <= e.at
     /\ IF e.kind = "AUTHORITY"
        THEN /\ e.at < e.view.until
             /\ Revision(before) # 0 => AuthorityFollows(e.view, View(before))
        ELSE ValidOperation(before, e)

UpdateLoads(image) ==
  Len(image) <= MaxUpdateEvents /\ \A i \in DOMAIN image : ValidEvent(image, i)

\* What a writer may leave behind: the code validates all of the new ledger,
\* of which it has just loaded all but the last event.
Writable(image) ==
  Len(image) <= MaxUpdateEvents /\ (image # <<>> => ValidEvent(image, Len(image)))

(***************************************************************************)
(* _evaluate: an authority update is asked against the revision it was     *)
(* drafted from; a repeat of it is told by its content, from either of the *)
(* last two revisions.                                                     *)
(***************************************************************************)
AlreadyInForce(image, view) == Revision(image) # 0 /\ View(image) = view

AuthorityAllowed(image, view, expected, at) ==
  /\ at < view.until
  /\ expected \in IF AlreadyInForce(image, view) THEN {Revision(image), PreviousRevision(image)}
                  ELSE {Revision(image)}

\* OPERATION_CONFLICT otherwise
Same(image, intent) ==
  Registered(image, intent.operation) => IntentOf(image, intent.operation) = intent

\* Of an operation that is not committed
StepAllowed(image, action, intent, seen, at) ==
  /\ action # "RECOVER" => Signed(View(image), intent, at)
  /\ \/ action = "RECOVER" /\ Registered(image, intent.operation)
     \/ /\ action = "REGISTER"
        /\ ~Registered(image, intent.operation) => FitsHead(intent, UpdateHead(image))
     \/ action = "PREPARE" /\ MayPrepare(image, intent, seen, at)
     \/ /\ action = "COMMIT" /\ MayCommit(image, intent, seen, at)
        /\ seen.finished = PreparationOf(image, intent.operation)

OperationAllowed(image, action, intent, seen, at) ==
  LET committed == Committed(image, intent.operation) IN
  /\ Revision(image) # 0
  /\ Entitled(View(image), intent, at, committed \/ action = "RECOVER")
  /\ Same(image, intent)
  /\ ~committed => StepAllowed(image, action, intent, seen, at)

Repeated(image, action, op, seen) ==
  \/ Committed(image, op) \/ action = "RECOVER"
  \/ action = "REGISTER" /\ Registered(image, op)
  \/ /\ action = "PREPARE" /\ Of(image, "PREPARE", op) # {}
     /\ PreparationOf(image, op) = seen.finished

\* What an allowed call writes; NoEvent for a repeat
EventFor(image, action, intent, seen, at) ==
  LET op == intent.operation IN
  IF Repeated(image, action, op, seen) THEN NoEvent
  ELSE IF action = "REGISTER"
  THEN [kind |-> "REGISTER", at |-> at, operation |-> op, intent |-> intent]
  ELSE IF action = "PREPARE"
  THEN [kind |-> "PREPARE", at |-> at, operation |-> op, finished |-> seen.finished]
  ELSE [kind |-> "COMMIT", at |-> at, operation |-> op, finished |-> seen.finished,
        drained |-> seen.drained, authority |-> Revision(image)]

With(image, event) == IF event = NoEvent THEN image ELSE Append(image, event)

(***************************************************************************)
(* _execute                                                                *)
(***************************************************************************)
LoadsNow == events # <<>> => clock >= events[Len(events)].at

Opened(call) == update' = call /\ reply' = NoReply /\ UNCHANGED events

BeginAuthority(view, expected) ==
  LET event == IF AlreadyInForce(events, view) THEN NoEvent
               ELSE [kind |-> "AUTHORITY", at |-> clock, view |-> view]
  IN /\ update = NoUpdate /\ LoadsNow
     /\ AuthorityAllowed(events, view, expected, clock) /\ Writable(With(events, event))
     /\ Opened([action |-> "AUTHORITY", expected |-> expected, event |-> event, last |-> clock])

BeginOperation(action, intent, seen) ==
  LET event == EventFor(events, action, intent, seen, clock)
  IN /\ update = NoUpdate /\ LoadsNow
     /\ OperationAllowed(events, action, intent, seen, clock) /\ Writable(With(events, event))
     /\ Opened([action |-> action, intent |-> intent, event |-> event, last |-> clock])

(* The check before COMMIT.  What is written must be what the providers     *)
(* supply once more; a call that writes nothing takes what they supply now. *)
Rechecked ==
  /\ clock >= update.last
  /\ IF update.action = "AUTHORITY"
     THEN {view \in Authorities :
             /\ AuthorityAllowed(events, view, update.expected, clock)
             /\ update.event # NoEvent => update.event.view = view} # {}
     ELSE {seen \in Observations :
             /\ OperationAllowed(events, update.action, update.intent, seen, clock)
             /\ update.event # NoEvent =>
                  update.event = EventFor(events, update.action, update.intent, seen, update.last)}
          # {}

Outcome ==
  IF update.event # NoEvent THEN "APPENDED"
  ELSE IF update.action # "AUTHORITY" /\ Committed(events, update.intent.operation)
  THEN "RECOVERED" ELSE "UNCHANGED"

\* NoReply: the answer is lost.
Reply(status) == update' = NoUpdate /\ reply' = status

CommitUpdate ==
  /\ update # NoUpdate /\ Rechecked
  /\ events' = With(events, update.event)
  /\ Reply(Outcome)

\* Mutant: a COMMIT that failed is answered as if the store had not been reached.
CommitUpdateFails_Refused ==
  /\ update # NoUpdate /\ Rechecked
  /\ events' \in {events, With(events, update.event)}
  /\ Reply("REFUSED")

\* COMMIT raises: an OperationalError, also one of the rollback, is answered
\* OUTCOME_UNKNOWN, anything else WRITE_FAILED; the rows may be durable in both
\* cases.  Or they are and what follows fails, or the answer is lost.
CommitUpdateFails ==
  /\ update # NoUpdate /\ Rechecked
  /\ events' \in {events, With(events, update.event)}
  /\ \E status \in {"OUTCOME_UNKNOWN", "WRITE_FAILED", NoReply} : Reply(status)

\* A check or SQLite fails before COMMIT, the connection or its credential is
\* not the one the call began with, or the process ends there.  REFUSED: one of
\* the reasons that have a name, STORE_UNAVAILABLE and INVALID_STORE included.
RollbackUpdate ==
  /\ update # NoUpdate
  /\ \E status \in {"REFUSED", "WRITE_FAILED", NoReply} : Reply(status)
  /\ UNCHANGED events

\* The file is replaced by an older copy of itself, between two calls: the
\* local checkpoint is part of the file and cannot tell.
RestoreStore(n) ==
  /\ update = NoUpdate
  /\ events' = SubSeq(events, 1, n)
  /\ reply' = NoReply
  /\ UNCHANGED update

UpdateInit ==
  /\ events = <<>>
  /\ update = NoUpdate
  /\ reply = NoReply

UpdateStep ==
  \/ \E view \in Authorities, expected \in 0..Len(events) : BeginAuthority(view, expected)
  \/ \E intent \in Intents :
       \/ \E action \in {"REGISTER", "RECOVER"} : BeginOperation(action, intent, NoObservation)
       \/ \E action \in {"PREPARE", "COMMIT"}, seen \in Observations :
            BeginOperation(action, intent, seen)
  \/ CommitUpdate \/ CommitUpdateFails \/ RollbackUpdate
  \/ \E n \in 0..(Len(events) - 1) : RestoreStore(n)

UpdateNext ==
  \/ SetClock /\ reply' = NoReply /\ UNCHANGED <<events, update>>
  \/ UpdateStep /\ UNCHANGED clock

(***************************************************************************)
(* A repeat makes nothing: a recovered receipt is that of exactly this     *)
(* intent, a success says truly whether its event is in the ledger, and no *)
(* operation commits twice, also if a first commit was reported failed.  A *)
(* refusal that names its reason wrote nothing; WRITE_FAILED does not say. *)
(***************************************************************************)
UpdateAnswers ==
  [][/\ reply' = "RECOVERED" =>
          \E i \in OfKind(events, "COMMIT") :
            IntentOf(events, events[i].operation) = update.intent
     /\ reply' = "APPENDED" => events' = Append(events, update.event)
     /\ reply' \in {"RECOVERED", "UNCHANGED", "REFUSED"} => events' = events
     /\ \A i, j \in OfKind(events', "COMMIT") :
          events'[i].operation = events'[j].operation => i = j]_updateVars

(***************************************************************************)
(* Of the operations that were registered on one head at most one commits: *)
(* the commits of a ledger are one chain, each expecting exactly what the  *)
(* one before it installed (_head_matches, again at every commit).         *)
(***************************************************************************)
CommitsFormAChain ==
  \A i, j \in OfKind(events, "COMMIT") : i < j =>
    LET first == IntentOf(events, events[i].operation)
        later == IntentOf(events, events[j].operation)
    IN /\ later.sequence > first.sequence /\ later.generation > first.generation
       /\ later.sequence = first.sequence + 1 => later.expected = first.candidate

(***************************************************************************)
(* A key that any authority ever revoked or retired signs no commit after  *)
(* that, whatever authorities were recorded since, and also if the         *)
(* operation was registered and prepared while the key was good.           *)
(***************************************************************************)
BarredKeysCommitNothing ==
  \A i \in OfKind(events, "AUTHORITY"), j \in OfKind(events, "COMMIT") :
    i < j => IntentOf(events, events[j].operation).key \notin events[i].view.barred
=============================================================================

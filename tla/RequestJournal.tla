--------------------------- MODULE RequestJournal ---------------------------
(***************************************************************************)
(* The durable request journal and the schema of the store it lives in     *)
(* (provenance/request_journal.py, provenance/sqlite_review_store.py).     *)
(*                                                                         *)
(* An operation is registered with the review head it relies on, claimed   *)
(* by a worker, prepared by replaying the frozen evidence, and committed   *)
(* into the outbox of ReviewLedger; every step is an event of one global   *)
(* journal.  A claim raises the operation's generation: the fence of an    *)
(* earlier claim is worthless from then on.  Workers may die anywhere, and *)
(* preparation is three transactions (check, resolve, record) between      *)
(* which reviews are appended, other workers take over, and the schema is  *)
(* migrated.                                                               *)
(*                                                                         *)
(* A transaction loads and revalidates the whole store first, and journal  *)
(* writes revalidate what they wrote before they commit; a failure rolls   *)
(* back.  So each transaction is one action, guarded by Loads (and Loads').*)
(***************************************************************************)
EXTENDS ReviewLedger

CONSTANTS
    Operations,     \* operation_id
    Principals,     \* principal_id of a caller
    Workers,        \* worker_id
    NoWorker,       \* the worker of an operation nobody claimed
    Processes,      \* threads of control that run `prepare`
    Configs,        \* engine configuration: frozen corpus, availability, transitions
    ConfigEvidence, \* configuration |-> its availability records
    Replayable,     \* configurations whose bytes pass admission, parsing and replay
    ObservedAt,     \* configuration |-> observed_at of the frozen body
    NoEvidence,     \* an intent without availability
    MaxGeneration   \* bound: claims of one operation

ASSUME JournalConstants ==
    /\ NoWorker \notin Workers
    /\ NoEvidence \notin Evidence
    /\ ConfigEvidence \in [Configs -> SUBSET Evidence]
    /\ Replayable \subseteq Configs
    /\ ObservedAt \in [Configs -> Times]
    /\ Configs \subseteq Payloads
    /\ MaxGeneration \in Nat

VARIABLES
    schema,     \* PRAGMA user_version: 1, 2 or 3
    boundary,   \* authorization_migration_boundary: what the move to 3 froze
    intents,    \* request_intents: operation |-> its immutable row
    prepared,   \* prepared_requests: operation |-> its immutable candidate
    events,     \* request_events: the journal
    local       \* process |-> its preparation under way

storeVars == <<schema, boundary, intents, prepared, events>>
journalVars == <<ledgerVars, storeVars, local>>

Keys == {Key(e) : e \in Evidence}

Intent ==
    [key : Keys, queryTime : Times, config : Configs,
     evidence : Evidence \cup {NoEvidence}, expected : Nat]

IntentRecord == [principal : Principals, release : ReleaseIds, intent : Intent]

EventKinds == {"REGISTERED", "CLAIMED", "PREPARED", "COMMITTED", "FAILED"}

Event == [op : Operations, kind : EventKinds, generation : Nat,
          worker : Workers \cup {NoWorker}]

Fence == [op : Operations, generation : Nat, worker : Workers]

Idle == [pc |-> "idle"]
Local == {Idle}
    \cup [pc : {"checked", "rejected"}, fence : Fence]
    \cup [pc : {"ready"}, fence : Fence, candidate : ReleaseRequest]

-----------------------------------------------------------------------------
(* What the journal says of an operation after its first n events.         *)

EventsOf(op, n) == {i \in 1..n : events[i].op = op}

LastOf(op, n) ==
    IF EventsOf(op, n) = {} THEN 0
    ELSE CHOOSE i \in EventsOf(op, n) : \A j \in EventsOf(op, n) : j <= i

Happened(op, kind, n) == \E i \in EventsOf(op, n) : events[i].kind = kind

StateAt(op, n) ==
    IF EventsOf(op, n) = {} THEN "NONE"
    ELSE IF Happened(op, "COMMITTED", n) THEN "COMMITTED"
    ELSE IF Happened(op, "FAILED", n) THEN "FAILED"
    ELSE IF Happened(op, "PREPARED", n) THEN "PREPARED"
    ELSE "REGISTERED"

State(op) == StateAt(op, Len(events))
Terminal == {"COMMITTED", "FAILED"}

Registered == DOMAIN intents
\* Fault: a failed operation gives its release id back.
OwnedReleases_LiveOnly ==
    {intents[op].release : op \in {o \in Registered : State(o) # "FAILED"}}

OwnedReleases == {intents[op].release : op \in Registered}
Released(id) == \E i \in DOMAIN outbox : outbox[i].request.id = id

CandidateMatches(op, candidate) ==
    LET intent == intents[op].intent IN
    /\ candidate.id = intents[op].release
    /\ intent.evidence # NoEvidence /\ candidate.evidence = intent.evidence
    /\ candidate.expectedReview = intent.expected
    /\ candidate.queryTime = intent.queryTime

-----------------------------------------------------------------------------
(* Loading.  Ledger-only operations skip the outbox, so that a fault there *)
(* does not prevent a revocation.                                          *)

ValidEvent(i) ==
    LET e == events[i]
        h == LastOf(e.op, i - 1)
        s == StateAt(e.op, i - 1)
    IN  /\ e.op \in Registered
        /\ s \notin Terminal
        /\ e.kind = "REGISTERED" => h = 0 /\ e.generation = 0 /\ e.worker = NoWorker
        /\ e.kind # "REGISTERED" => h # 0 /\ e.worker # NoWorker
        /\ e.kind = "CLAIMED" => e.generation = events[h].generation + 1
        /\ e.kind \in {"PREPARED", "COMMITTED", "FAILED"} =>
              e.generation > 0
              /\ e.generation = events[h].generation /\ e.worker = events[h].worker
        /\ e.kind = "PREPARED" => s = "REGISTERED" /\ e.op \in DOMAIN prepared
        /\ e.kind = "COMMITTED" => s = "PREPARED"

ValidJournal(withOutbox) ==
    /\ \A i \in DOMAIN events : ValidEvent(i)
    /\ Registered = {events[i].op : i \in DOMAIN events}
    /\ DOMAIN prepared = {op \in Registered : Happened(op, "PREPARED", Len(events))}
    /\ \A op \in DOMAIN prepared : CandidateMatches(op, prepared[op])
    /\ withOutbox => \A op \in Registered :
          /\ Released(intents[op].release) <=> State(op) = "COMMITTED"
          /\ State(op) = "COMMITTED" =>
                \E i \in DOMAIN outbox : outbox[i].request = prepared[op]

Loads(withOutbox) ==
    /\ ValidLedger
    /\ withOutbox => ValidOutbox
    /\ schema >= 2 => ValidJournal(withOutbox)
    /\ schema = 3 => boundary = <<Len(events), Len(outbox)>>

\* A journal write transaction, up to and including its final revalidation.
JournalWrite == schema = 2 /\ Loads(TRUE) /\ Loads(TRUE)'

-----------------------------------------------------------------------------
(* The store: ledger operations, and the migrations.                       *)

ReviewWrite(rq, a, x) ==
    /\ AppendReview(rq, a, x) \/ AppendRetry(rq, a, x)
    /\ Loads(FALSE)
    /\ UNCHANGED <<storeVars, local>>

\* Fault: a direct release may use a release id an operation reserved.
CommitDirectly_Unreserved(rq) ==
    /\ schema < 3
    /\ CommitRelease(rq) \/ CommitRetry(rq)
    /\ Loads(TRUE)
    /\ UNCHANGED <<storeVars, local>>

\* A release committed without the journal must not take a journal's release id.
CommitDirectly(rq) ==
    /\ schema < 3
    /\ schema = 2 => rq.id \notin OwnedReleases
    /\ CommitRelease(rq) \/ CommitRetry(rq)
    /\ Loads(TRUE)
    /\ UNCHANGED <<storeVars, local>>

\* Fault: the migration raises the version without looking at it.
MigrateToV2_Blind ==
    /\ schema' = schema + 1
    /\ UNCHANGED <<ledgerVars, boundary, intents, prepared, events, local>>

MigrateToV2 ==
    /\ schema = 1
    /\ Loads(TRUE)
    /\ schema' = 2
    /\ UNCHANGED <<ledgerVars, boundary, intents, prepared, events, local>>
    /\ Loads(TRUE)'

MigrateToV3 ==
    /\ schema = 2
    /\ Loads(TRUE)
    /\ schema' = 3
    /\ boundary' = <<Len(events), Len(outbox)>>
    /\ UNCHANGED <<ledgerVars, intents, prepared, events, local>>
    /\ Loads(TRUE)'

-----------------------------------------------------------------------------
(* The journal manager.                                                    *)

Record(op, kind, generation, worker) ==
    events' = Append(events, [op |-> op, kind |-> kind, generation |-> generation,
                              worker |-> worker])

\* An event other than a claim repeats the generation and worker of the head.
RecordNext(op, kind) ==
    LET h == events[LastOf(op, Len(events))] IN Record(op, kind, h.generation, h.worker)

\* The release id is a fresh uuid; a repeat would break a constraint of the table.
Register(op, p, intent, id) ==
    /\ op \notin Registered
    /\ id \notin OwnedReleases /\ ~Released(id)
    /\ intent.evidence # NoEvidence => Key(intent.evidence) = intent.key
    /\ intent.expected = HeadOf(intent.key)
    /\ intent.expected # 0 => reviews[intent.expected].request.evidence = intent.evidence
    /\ intents' = [o \in Registered \cup {op} |->
                      IF o = op THEN [principal |-> p, release |-> id, intent |-> intent]
                      ELSE intents[o]]
    /\ Record(op, "REGISTERED", 0, NoWorker)
    /\ UNCHANGED <<ledgerVars, schema, boundary, prepared, local>>
    /\ JournalWrite

Claim(op, p, w, n) ==
    /\ op \in Registered /\ intents[op].principal = p
    /\ n = LastOf(op, Len(events))
    /\ State(op) \notin Terminal
    /\ events[n].generation < MaxGeneration
    /\ Record(op, "CLAIMED", events[n].generation + 1, w)
    /\ UNCHANGED <<ledgerVars, schema, boundary, intents, prepared, local>>
    /\ JournalWrite

\* The caller holds the fence of the operation's latest claim.
Fenced(f) ==
    /\ f.op \in Registered
    /\ LET h == events[LastOf(f.op, Len(events))]
       IN  f.generation = h.generation /\ f.worker = h.worker

FailUnder(f) ==
    /\ Fenced(f)
    /\ State(f.op) \notin Terminal
    /\ RecordNext(f.op, "FAILED")
    /\ UNCHANGED <<ledgerVars, schema, boundary, intents, prepared>>
    /\ JournalWrite

Fail(f) == FailUnder(f) /\ UNCHANGED local

\* The view that `recover`, or a repeated `commit`, returns of a committed operation.
Report(op) ==
    /\ Loads(TRUE)
    /\ State(op) = "COMMITTED"
    /\ \E i \in DOMAIN outbox :
        /\ outbox[i].request.id = intents[op].release
        /\ Answer(ReleaseReply(outbox[i].request, i))
    /\ UNCHANGED <<reviews, outbox, storeVars, local>>

Recover(op, p) ==
    /\ schema >= 2
    /\ op \in Registered /\ intents[op].principal = p
    /\ Report(op)

CommitAgain(f) == schema = 2 /\ Fenced(f) /\ Report(f.op)

Commit(f) ==
    /\ Fenced(f)
    /\ State(f.op) = "PREPARED"
    /\ CommitRelease(prepared[f.op])
    /\ RecordNext(f.op, "COMMITTED")
    /\ UNCHANGED <<schema, boundary, intents, prepared, local>>
    /\ JournalWrite

-----------------------------------------------------------------------------
(* Preparation by process q, one action per transaction.                   *)

BeginPrepare(q, f) ==
    /\ local[q] = Idle
    /\ schema = 2
    /\ Loads(TRUE)
    /\ Fenced(f)
    /\ State(f.op) = "REGISTERED"
    /\ local' = [local EXCEPT ![q] = [pc |-> "checked", fence |-> f]]
    /\ UNCHANGED <<ledgerVars, storeVars>>

\* Fault: a review made before the body was even retrieved is accepted.
EngineAccepts_EarlyReview(config, k, t, h) ==
    /\ h # 0
    /\ LET r == reviews[h].request IN
        /\ {e \in ConfigEvidence[config] : Key(e) = k} = {r.evidence}
        /\ r.verdict = "approved"
        /\ CaptureAt[r.evidence] <= t
    /\ config \in Replayable

\* The engine admits and replays evidence of key k under head h.
EngineAccepts(config, k, t, h) ==
    /\ h # 0
    /\ LET r == reviews[h].request IN
        /\ {e \in ConfigEvidence[config] : Key(e) = k} = {r.evidence}
        /\ r.verdict = "approved"
        /\ CaptureAt[r.evidence] <= t
        /\ ObservedAt[config] <= r.reviewedAt
    /\ config \in Replayable

Candidate(row, h) ==
    [id |-> row.release, evidence |-> reviews[h].request.evidence, expectedReview |-> h,
     queryTime |-> row.intent.queryTime, payload |-> row.intent.config]

\* The engine reads the current head: a candidate, a reasoned rejection, or an
\* approval that is not the one the intent is bound to, which ends the attempt.
Resolve(q) ==
    /\ local[q].pc = "checked"
    /\ Loads(FALSE)
    /\ LET f == local[q].fence
           row == intents[f.op]
           h == HeadOf(row.intent.key)
           candidate == Candidate(row, h)
       IN  local' = [local EXCEPT ![q] =
              IF ~EngineAccepts(row.intent.config, row.intent.key, row.intent.queryTime, h)
              THEN [pc |-> "rejected", fence |-> f]
              ELSE IF CandidateMatches(f.op, candidate)
              THEN [pc |-> "ready", fence |-> f, candidate |-> candidate]
              ELSE Idle]
    /\ UNCHANGED <<ledgerVars, storeVars>>

\* Fault: the fence is checked before the replay only.
RecordPrepared_Unfenced(q) ==
    /\ local[q].pc = "ready"
    /\ LET op == local[q].fence.op IN
        /\ State(op) = "REGISTERED"
        /\ prepared' = [o \in DOMAIN prepared \cup {op} |->
                           IF o = op THEN local[q].candidate ELSE prepared[o]]
        /\ RecordNext(op, "PREPARED")
    /\ local' = [local EXCEPT ![q] = Idle]
    /\ UNCHANGED <<ledgerVars, schema, boundary, intents>>
    /\ JournalWrite

RecordPrepared(q) ==
    /\ local[q].pc = "ready"
    /\ LET f == local[q].fence IN
        /\ Fenced(f)
        /\ State(f.op) = "REGISTERED"
        /\ prepared' = [o \in DOMAIN prepared \cup {f.op} |->
                           IF o = f.op THEN local[q].candidate ELSE prepared[o]]
        /\ RecordNext(f.op, "PREPARED")
    /\ local' = [local EXCEPT ![q] = Idle]
    /\ UNCHANGED <<ledgerVars, schema, boundary, intents>>
    /\ JournalWrite

RecordRejection(q) ==
    /\ local[q].pc = "rejected"
    /\ FailUnder(local[q].fence)
    /\ local' = [local EXCEPT ![q] = Idle]

\* A preparation ends without a write: the store was unavailable, the fence is
\* stale, the operation moved on, or the process died.
Abandon(q) ==
    /\ local[q] # Idle
    /\ local' = [local EXCEPT ![q] = Idle]
    /\ UNCHANGED <<ledgerVars, storeVars>>

-----------------------------------------------------------------------------

JournalInit ==
    /\ LedgerInit
    /\ schema = 1 /\ boundary = <<0, 0>>
    /\ intents = <<>> /\ prepared = <<>> /\ events = <<>>
    /\ local = [q \in Processes |-> Idle]

\* The fences handed out so far, to whoever kept them.
Fences ==
    {[op |-> events[i].op, generation |-> events[i].generation, worker |-> events[i].worker] :
        i \in {j \in DOMAIN events : events[j].kind = "CLAIMED"}}

StoreStep ==
    \/ \E rq \in ReviewRequests, a \in Reviewers, x \in 0..Len(reviews) : ReviewWrite(rq, a, x)
    \/ \E rq \in ReleaseRequestsUpTo(Len(reviews)) : CommitDirectly(rq)
    \/ MigrateToV2
    \/ MigrateToV3

IntentsUpTo(n) ==
    [key : Keys, queryTime : Times, config : Configs,
     evidence : Evidence \cup {NoEvidence}, expected : 0..n]

RegisterStep ==
    \E op \in Operations, p \in Principals, id \in ReleaseIds,
       intent \in IntentsUpTo(Len(reviews)) : Register(op, p, intent, id)

WorkerStep ==
    \/ \E op \in Operations, p \in Principals :
        \/ Recover(op, p)
        \/ \E w \in Workers, n \in 1..Len(events) : Claim(op, p, w, n)
    \/ \E f \in Fences : Fail(f) \/ Commit(f) \/ CommitAgain(f)

PrepareStep(q) ==
    \/ \E f \in Fences : BeginPrepare(q, f)
    \/ Resolve(q)
    \/ RecordPrepared(q)
    \/ RecordRejection(q)
    \/ Abandon(q)

JournalNext ==
    StoreStep \/ RegisterStep \/ WorkerStep \/ \E q \in Processes : PrepareStep(q)

JournalSpec == JournalInit /\ [][JournalNext]_journalVars

-----------------------------------------------------------------------------
(* Properties.                                                             *)

LocalOK ==
    /\ local \in [Processes -> Local]
    /\ \A q \in Processes : local[q] # Idle => local[q].fence.op \in Registered

\* The types of the journal's variables; what is prepared, or being prepared,
\* belongs to a registered operation.
JournalTypeOK ==
    /\ LedgerTypeOK
    /\ schema \in 1..3 /\ boundary \in Nat \X Nat
    /\ intents \in [Registered -> IntentRecord] /\ Registered \subseteq Operations
    /\ prepared \in [DOMAIN prepared -> ReleaseRequest] /\ DOMAIN prepared \subseteq Registered
    /\ events \in Seq(Event)
    /\ LocalOK

\* No interleaving of reviews, direct releases, workers and migrations leaves a
\* store that the next transaction would refuse to load; in particular a release
\* id reserved by an operation is in the outbox exactly when it is COMMITTED.
JournalLoads == Loads(TRUE)

\* A committed operation was released under the very review its caller saw at
\* registration, with no review of that document version in between.
ReleasedUnderRegisteredHead ==
    \A op \in Registered : State(op) = "COMMITTED" =>
        \E i \in DOMAIN outbox :
            /\ outbox[i].request.id = intents[op].release
            /\ outbox[i].request.evidence = intents[op].intent.evidence
            /\ outbox[i].reviewSequence = intents[op].intent.expected
            /\ \A j \in (intents[op].intent.expected + 1)..outbox[i].revision :
                  Key(reviews[j].request.evidence) # intents[op].intent.key

\* A candidate that was recorded passed the engine under the review it names,
\* whatever was reviewed between the replay and the recording.
PreparedIsAdmissible ==
    \A op \in DOMAIN prepared :
        LET intent == intents[op].intent
            review == reviews[prepared[op].expectedReview]
        IN  /\ prepared[op].expectedReview \in DOMAIN reviews
            /\ review.request.verdict = "approved"
            /\ review.request.evidence = prepared[op].evidence
            /\ ConfigEvidence[intent.config] \cap {e \in Evidence : Key(e) = intent.key}
                  = {prepared[op].evidence}
            /\ ObservedAt[intent.config] <= review.request.reviewedAt
            /\ CaptureAt[prepared[op].evidence] <= prepared[op].queryTime
            /\ prepared[op].payload \in Replayable

\* Whatever a process does after its operation was taken over by another claim,
\* the preparation it started before writes nothing.
StaleFenceWritesNothing ==
    [][\A q \in Processes :
         local'[q] # local[q] /\ events' # events => Fenced(local[q].fence)]_journalVars

\* From schema 3 on the journal and the outbox are frozen, including for the
\* preparations that were under way when the store was migrated.
FrozenAtV3 == [][schema = 3 => UNCHANGED <<outbox, storeVars>>]_journalVars

\* A preparation that was overtaken, by another claim or by a migration, writes
\* nothing.
OvertakenWritesNothing == StaleFenceWritesNothing /\ FrozenAtV3

\* The journal is a user of the ledger: what ReviewLedger guarantees, it keeps.
ImplementsLedger == LedgerSpec

Gate == INSTANCE ReleaseGate WITH
    revision <- Len(reviews),
    standing <- [k \in Keys |->
        IF HeadOf(k) # 0 /\ reviews[HeadOf(k)].request.verdict = "approved"
        THEN HeadOf(k) ELSE 0],
    released <- {[id |-> outbox[i].request.id, key |-> Key(outbox[i].request.evidence),
                  approval |-> outbox[i].reviewSequence] : i \in DOMAIN outbox},
    closed <- {intents[op].release : op \in {o \in Registered : State(o) = "FAILED"}}

\* Ledger, journal and workers together are a release gate: each release id is
\* decided once, and released only under the approval standing at that moment.
ImplementsReleaseGate == Gate!Spec
=============================================================================

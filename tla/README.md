# TLA+ models of the TNC durable workflow

TNC keeps historical web evidence, lets named reviewers approve or revoke it,
replays approved evidence into a release, and keeps a record of all of it that
can be verified later.  Around that core stand a client side (high-water mark
and request journal), independent witnesses and authorities with SQLite stores
of their own, and Windows code that admits a peer to a named pipe and keeps that
admission alive.

This directory holds specifications of the parts that keep state, the TLC
configurations that check them, and proofs that TLAPS checks.

    tlc -workers 2 -config ReviewLedger.cfg    MCReviewLedger
    tlc -workers 2 -config JournalTakeover.cfg MCRequestJournal
    tlc -workers 2 -config ClientDelivery.cfg  MCClientDelivery
    tlc -workers 2 -config GuardedStores.cfg   MCGuardedStores
    tlc -workers 2 -config PeerGate.cfg        MCPeerGate
    tlc -workers 2 -config CustodyHost.cfg     MCCustodyHost
    tlc -workers 2 -config CheckpointAuthority.cfg MCCheckpointAuthority
    tlc -workers 2 -config PipeEndpoint.cfg    MCPipeEndpoint
    tlc -workers 2 -config ClaimReplay.cfg     MCClaimReplay
    tlapm RequestJournalProofs.tla
    tlapm ClientDeliveryProofs.tla
    tlapm PeerGateProofs.tla
    tlapm CustodyHostProofs.tla
    tlapm PipeEndpointProofs.tla
    tlapm GuardedStoresProofs.tla
    tlapm CheckpointAuthorityProofs.tla
    tlapm ClaimReplayProofs.tla

`PROJECT.json` maps every definition to the lines it translates, lists the runs
with the seeded faults each property detects, the hazards, and the theorems.

## 1. Inventory

Paths are under `src/src/tnc/`.

### 1.1 The coordinated store

| Component | State | Operations | What makes it correct |
|---|---|---|---|
| Review ledger and release outbox, `provenance/review_store.py` | append-only reviews; append-only releases | `append`, `resolve`, `history`, `commit_release` | one chain of reviews per document version; a release only under the approval that stands; an exact retry is acknowledged and changes nothing; the history always reloads |
| SQLite coordinated store, `provenance/sqlite_review_store.py`, `sqlite_schema.sql`, `sqlite_migration_v2.sql` to `_v4.sql` | the same as rows; `user_version`; the migration boundary | load with full revalidation, the ledger's operations in one `BEGIN IMMEDIATE`, migrations 1→2→3→4 | same behaviour as the in-memory ledger; migrations freeze what they say they freeze |
| Request journal, `provenance/request_journal.py` | intents, prepared candidates, events (tables of the same database) | `register`, `recover`, `claim`, `prepare`, `commit`, `fail` | an operation is decided once; only the latest claim writes; COMMITTED if and only if its release is in the outbox |
| Historical replay and admission, `provenance/historical_replay.py`, `admission.py` | none (reads the store) | `prepare`, `execute` | a candidate only under the current approval of exactly the frozen evidence |
| Authorization ledger (schema 4), `provenance/authorization_writer.py`, `authorization_validator.py`, `authorization_storage.py` | registry and ledger rows | bootstrap under a provisioning lease, append under administrative authority | no event without a right that holds when it commits; retries recognised |
| Provisioning and administrative sessions, `provenance/provisioning_session.py`, `administrative_session.py` | a lease with a deadline, invalidation | open, check, invalidate | a lease that ended authorises nothing |

Reviewers, hosts and workers call the store from threads and processes.  They
are ordered only by the database lock: anything they read before they call is
stale when they call.  `prepare` is the one operation that spans several
transactions (check the fence; replay, which reads the head; record).

### 1.2 The client side

| Component | State | Operations | What makes it correct |
|---|---|---|---|
| High-water mark, `provenance/client_high_water_logic.py`, `client_high_water_store.py` | last accepted revision and receipts, at most 64 | create, apply, load | advances by exactly one linked revision; an equal revision is a repeat or a fork, never both |
| Client journal, `provenance/client_request_journal_logic.py`, `client_request_journal_store.py` | per operation AWAITING, RETAINED, COMMITTED | register, retain, recover | one operation, one retained response; never closed without the receipt of the mark |
| Delivery, `provenance/delivery_journal_integration.py` | none of its own | receive and retain, recover, apply | a crash between two stores leaves a state from which recovery completes without applying anything twice |

Two SQLite files and one unreliable exchange: the hard part is the order of the
commits and what a lost answer leaves behind.

### 1.3 Witnesses and authorities

| Component | State | Operations | What makes it correct |
|---|---|---|---|
| External witness, `provenance/external_witness_*.py` | an image of witnessed heads, one receipt per advance; a policy provider | `submit`, compare | an advance happens once; evaluated before the write, before the commit and after it; OUTCOME_UNKNOWN never hides a second advance; a local store that was set back is exposed |
| Update store, `provenance/update_durable_*.py`, `update_storage_*.py`, `update_validation.py`, `update_verification.py` | a ledger of authorities, intents, preparations, commits | `register`, `prepare`, `commit`, `recover`, `record_authority` | the commits form one chain; a key that was barred signs nothing more |
| Reconciliation authority, `provenance/reconciliation_*.py` | acceptances of extensions of the update store, policy | `submit`, retry, replace policy | what was accepted is never contradicted; a repeat returns the original acceptance under the rights of today |
| Protected trust distribution, `provenance/protected_trust_distribution*.py` | bundle, policy, bounded history | `apply`, snapshot | no rollback, no fork; an answer after the commit says what is durable |
| Key custody, `provenance/key_custody_*.py` | handoffs, the broker's tokens, in memory | mint, sign, issue, recover | an attempt is signed for once, whatever its outcome; clients are told one outcome |
| Observation path, `provenance/observation_*.py`, `mtls.py` | one connection; frames, candidates, the call under way | read, bind, observe, prepare, sign, deliver | what leaves is inside every lease it went through |

Every one of these stores asks twice or three times for the same thing, since
policies, leases and the clock may change while it writes.  Which of the answers
may be a plain refusal is what is easy to get wrong.

### 1.4 The Windows endpoint

| Component | State | Operations | What makes it correct |
|---|---|---|---|
| Pipe operation, `provenance/windows_pipe_operation_logic.py`, driven by `windows_pipe_native.py` | phase of one overlapped operation, buffers | submit, poll, cancel, expire, dispose | buffers live until the kernel has confirmed; a late result is suppressed |
| Process lease, `provenance/windows_pipe_process_lease.py` | registry of at most 16 leases | acquire, use, release, close | each handle closed once; containment is final |
| Peer continuity and gate, `provenance/windows_peer_admission_continuity.py`, `windows_peer_admission_gate.py` | policy revision, adopted peer, at most one use token | admit, adopt, mint, consume, invalidate, replace policy | no token outlives what it attests |

Endpoint and lease belong to one thread.  The continuity prepared from them is
used by any thread, under a lock that is dropped between the looks an evaluation
takes.

### 1.5 Claims, and pure code

The transitions of a document version's claims (`spans/state.py`) are a list that
hosts append to; `authorize_transition` (`spans/policy.py`) decides what may be
appended, reading that list, and keeps nothing itself.  The replay engine takes
a copy of it when it is built and replays the copy at query times.  Correct is
that no replay chooses between ambiguous states, and none shows what came later.

The rest of `spans/` (diff, extraction), `ingestion/` (HTTP and HTML), classification and the trusted boundary, deployment validation,
signed records, wire framing and the command lines keep no state across calls.

### 1.6 Interactions

                 reviewers                hosts / workers
                     |                          |
                 append, revoke      register, claim, prepare, commit, fail
                     v                          v
              +-------------------- coordinated store -------------------+
              | ReviewLedger: reviews ----- head ---->  replay engine    |
              |               outbox  <---- commit ---- request journal  |
              |               schema 1 -> 2 -> 3 (freeze) -> 4 (admin)   |
              +----------------------------------------------------------+
                     | releases, observations
                     v
       client journal <-> high-water mark       update store -> reconciliation
             (two files, one delivery)          authority -> observation path
                     ^                                         |  -> provider
                     +------ signed observations --------------+   <- broker

       trust distribution -> external witness      (by hand of the host)
       pipe endpoint -> process lease -> continuity -> gate

`PROJECT.json` lists all components with a status, and under "hazards" each
place where this code is hard to test.

## 2. Plan

In order; each line is a module, its properties and, where it is worth it, its
theorems.  No module that is proved about declares a RECURSIVE operator.

Done:

1. `ReviewLedger`: the ledger.
2. `ReleaseGate`: what ledger and journal promise together, without records.
3. `RequestJournal` extends `ReviewLedger`: journal, engine, migrations; the
   proofs of both in `RequestJournalProofs`.
4. `ClientHighWater` and `ClientDelivery`, which adds the client journal and the
   delivery steps; abstract specification `AcceptedChain`, proofs in
   `ClientDeliveryProofs`.
5. `ProcessLease`, `PeerContinuity`, `PeerGate`, each extending the one before,
   proofs in `PeerGateProofs`; `PipeLedger` and `PipeEndpoint`, proofs in
   `PipeEndpointProofs`.
6. `ExternalWitness`, `TrustDistribution`, `UpdateStore`, `AuthorizationLedger`,
   run together by `GuardedStores`, proofs in `GuardedStoresProofs`;
   `CheckpointAuthority` on `UpdateStore`, proofs in `CheckpointAuthorityProofs`.
7. `KeyCustody`, the broker (`CustodyBroker`) and the path of an observation
   (`ObservationPath`) on it, put together by `CustodyHost`; proofs in
   `CustodyHostProofs`.
8. `ClaimReplay`: the policy of claim states and the replay of their history,
   proofs in `ClaimReplayProofs`.

Left: the parts that section 6 lists, most of them pure functions, and the two
liveness properties, which no prover here can take on.

## 3. The modules

### ReviewLedger

`reviews` is `_records` (the table `reviews`), `outbox` is `_release_state` (the
table `outbox`), and `reply` is what the last call handed back.

| Action | Code |
|---|---|
| `AppendReview` | `append` for a new review id: allowlist, clock, transition, version identity, reload |
| `AppendRetry` | `append` for a known review id with equal content and equal expected head |
| `CommitRelease` | `commit_release` for a new release id |
| `CommitRetry` | the same for a known id, with an equal request |

One action per call is what the code does: each call holds the `RLock`, or one
`BEGIN IMMEDIATE` transaction, from its first read to its last write.  Callers
are not modelled as processes.  Any request that could be formed from any past
read may arrive at any time; that includes every race of reviewers and every
retry.  `Answer` lets the reply be lost after the commit.  A refused call
changes nothing and is no step.

`ValidLedger` and `ValidOutbox` are what the loader recomputes on each call.
They are guards of the operations, so a store that fails them is stuck, which
makes `StoreLoads` a real question: `append` checks a different set of
conditions, in a different order, from the loader.

Abstractions.  Hashes: an entry hash depends on all entries before it, so a
reference by hash is a reference by position (`expectedReview`, `expected`), and
0 is `None`.  Corruption of rows by a third party is outside the model.
Evidence is a constant set with the fields that are compared: document, version,
(body hash, URL), and capture time.  A release request carries an opaque
payload.  Times are a finite set of instants, and the clock may return any of
them, so it may run backwards.

### RequestJournal

Extends `ReviewLedger` with the schema version, the migration boundary, the
three journal tables and the local state of every process inside `prepare`.

| Action | Code |
|---|---|
| `ReviewWrite` | `SQLiteCoordinatedStore.append` |
| `CommitDirectly` | `SQLiteCoordinatedStore.commit_release`, also as called by `HistoricalReplayEngine.execute` |
| `MigrateToV2`, `MigrateToV3` | `migrate_to_v2`, `migrate_to_v3` |
| `Register`, `Claim`, `Fail`, `Recover` | the methods of the same name |
| `Commit`, `CommitAgain` | `commit` of a PREPARED and of a COMMITTED operation |
| `BeginPrepare`, `Resolve`, `RecordPrepared`, `RecordRejection`, `Abandon` | `prepare`: its first transaction, the engine's read of the head, and the two ways it ends in a write, or without one |

A worker or process that dies is one that takes no further step; its fence stays
in `Fences`, so it may also come back at any later time.  `Abandon` is the
process that dies and forgets, and each refusal of the last transaction.
`FailUnder` is shared by `fail` and by the rejection path of `prepare`, which in
the code calls `fail`.

`Loads` is what `_load` recomputes, and `JournalWrite` repeats it over the result,
since a journal write revalidates before it commits.

Abstractions.  Reason codes of a failure are left out; nothing reads them except
the report.  The fences handed out are read off the CLAIMED events: a fence is
exactly what `claim` returned, kept by its holder for ever.  The engine is
`EngineAccepts`, which keeps the conditions that relate the frozen configuration
to the review (same evidence, only candidate for that key, approved, captured
before the query, observed before the review) and leaves the byte-level checks
(hashes, parsing, span replay) to the constant `Replayable`; `ClaimReplay` has the
replay itself.

### ReleaseGate

Four variables without records or workers: how many reviews there are, which
approval stands for each document version, what was released, and which release
ids were given up.  `RequestJournal!Gate` maps the journal onto it.  A step of
the journal is one step of the gate or none.

### ClientHighWater

`highWater` is the row `client_state` with its receipts, `clock` the host's wall
clock, which the code reads with `int(time.time())`.

| Definition | Code |
|---|---|
| `HighWaterInit` | `create_for_testing` |
| `Apply`, `ApplyRetry` | `apply` of a new operation, and of one that has its receipt |
| `Accepts`, `ReceiptFor` | `_candidate`: unchanged, advance by one linked revision, or blocked |
| `ValidState`, `HighWaterLoads` | `_validate`: every receipt recomputed from the prefix before it, and `_load` |
| `Valid` | what `verify_observation` says of the interval |

A response is a signed observation that verifies: `Responses` is a constant, any
subset of request, envelope and interval.  It may name a fork or skip a
revision; the store has to notice.  Stale, forked and unlinked responses change
nothing and are no step.  An envelope stands for its digest.

### ClientDelivery

Extends `ClientHighWater` with the journal (`journal`, one entry per operation in
one of its three phases) and with `local`, the step each process is in.

| Action | Code |
|---|---|
| `Register` | `register_intent` of a new operation |
| `BeginReceive`, `Retain` | `receive_and_retain`: the check without a lock, then the locked one with whatever came in |
| `BeginRecover`, `Acknowledge`, `Propose` | `recover`: lock and read of the high-water store, then COMMITTED or READY_TO_APPLY |
| `ApplyRetained` | the second half of `apply_retained` |
| `Abandon` | a refusal, a rollback, a lost answer or a process exit at any of these points |
| `Tick` | the host's clock |

The journal is locked while a process is `recovering`, the high-water store is
not; that is the race the documentation calls expected.  `recover` alone and
`apply_retained` begin alike: a process that has proposed may apply or abandon.
Exact repeats of `register_intent`, `retain_response` and `recover` change
nothing and are no steps.  A transaction reads the clock twice; only `recover`
keeps the first reading (`reconciled_at`), so only there it is kept in `local`.

### AcceptedChain

Three variables: the mark, the pairs of operation and envelope accepted, and the
operations closed.  `ClientDelivery!Chain` maps both stores onto it.

### ProcessLease, PeerContinuity, PeerGate

| Definition | Code |
|---|---|
| `ProcessLease` | `acquire`, `finish`, `abort` and the cleanup of `windows_pipe_process_lease.py`; native calls succeed or fail freely |
| `PeerContinuity` | `prepare_peer_admission_continuity` and the methods `mint`, `consume`, `_adopt`, `close`, `_invalidate` |
| `PeerGate` | `evaluate_peer_admission`: `Rungs` for phases 1 to 5, one action per look in phases 6 and 7, the hand-over and its failure |

`alive` is the client process, `policy` what either provider shows; both change
between any two steps.  A failed close is containment: the handle stays, the
endpoint is condemned, and every later use raises.  A token keeps the number
under which it was minted, so that the order of use is seen.  An authority is refused
every kind of use by the code, so what it would mint is not modelled.

### PipeLedger, PipeEndpoint

`PipeLedger` is the transition function of `windows_pipe_operation_logic.py`;
`PipeEndpoint` the methods of the owned endpoint against `kernel`, which knows
of each operation whether it is pending and how it ended.  The kernel may
complete an operation between any two native calls of the worker, and between a
call that fails and the next.  `call` says in which loop the owner thread is.

### ClaimReplay

`history` is the list of transitions in the order in which they were recorded,
`outcome` what the last query was answered.

| Definition | Code |
|---|---|
| `Allowed`, `Authorized`, `Transition` | `ALLOWED_TRANSITIONS`, `evaluate_transition`, `authorize_transition` |
| `ClaimStateAt`, `CurrentClaimState` | `claim_state_at`, `current_claim_state`; `Latest` is `max`, which keeps the first of several that occurred last |
| `Record` | a host that appends what the policy returned it; the list it had read may since have grown |
| `Precedes`, `Linked` | the order of the replay and, in it, the check of a transition against the last one of its claim |
| `Selectable`, `TemporallySound`, `Snapshot` | `_select_transitions`, `validate_replay_temporal_integrity`, `build_snapshot` |
| `Execute` | `HistoricalReplayEngine._run` from the spans on, of an engine built when the list had `n` entries |

No variable holds what a host has read or an engine copied: since the list only
grows, both are prefixes of it, and the step chooses which.  The admission of the
version and the release under its review are in `RequestJournal`.  Lists are never
sorted: an order is a relation on positions, and what the code reads off a sorted
list is the last of a set of positions (`Latest`, `LastOf`).

### The guarded stores

`ExternalWitness`, `TrustDistribution`, `UpdateStore` and `AuthorizationLedger`
have one form: a call locks the store and evaluates (`...Begins`), evaluates
once more before it commits, commits or fails, and, in the first two, evaluates
again before it answers.  Between these steps the policy of the provider may be
replaced and the clock set.  A commit that fails may have become durable; a
process may stop at each point.

What a failure says differs.  Witness and distribution answer `OUTCOME_UNKNOWN`
whatever was raised once COMMIT was tried.  The update store answers it for a
`sqlite3.OperationalError` only: every other error of COMMIT gets `WRITE_FAILED`
(`update_durable_writer.py:204-208`), as a failure that was rolled back does, so that
answer promises nothing, although `docs/update_durable_writer.md:71-73` counts
COMMIT errors among the uncertain results.  The model has both
(`CommitUpdateFails`, `RollbackUpdate`), and shows that the retry finds out all the
same and writes nothing twice (`UpdateAnswers`, `CommitsFormAChain`).  A failure of
the administrative ledger promises nothing (`sqlite_review_store.py:274`) and is
`NoReceipt` in the model.

| Module | One image | Answer that may not lie |
|---|---|---|
| `ExternalWitness` | `witness`, the receipts | a refusal: nothing was written |
| `TrustDistribution` | `store`, history and head | the head answered is on record |
| `UpdateStore` | `events` | a success; a refusal that names its reason: nothing was written |
| `AuthorizationLedger` | `authorizations` | the event or seed on record, and who asked for it |

`ExternalWitness` has a client: `local` is a store that advances, forks and is
set back, `adopted` the last acceptance it took over.  `AuthorizationLedger` has
two hosts that bootstrap, and identities that were verified before the lock.
`GuardedStores` is a sum, no product: no code calls two of these stores, they
share the clock and nothing else, and steps of different stores commute.  One
conjunction does relate two of them: `FrontierIsWitnessable`.

`CheckpointAuthority` extends `UpdateStore`: a request is drafted from what its
client read of update store and authority, and either may have moved before it
is submitted.  Its steps come between calls of the update store, with which they
commute, as each of the two holds its own lock.

### KeyCustody, CustodyBroker, ObservationPath, CustodyHost

`KeyCustody` is the provider: `mint` and `sign`, which is two steps, since clocks
go on while the key is in use.  `CustodyBroker` is the serving loop of
`key_custody_ipc.py`: one exchange at a time, a step for each time it asks the
host's callback for permission.  `ObservationPath` is the chain of gates from a
frame to a delivered answer; each gate that validates is one step, and between
two gates the host may say something else.  A provider has one user, the broker
or the bridge (`user`).  The adapter's own key is stood for by the provider's.

Clocks run in half seconds there, because the payload is dated in whole seconds
and rounded inwards: with a coarser clock the rounding would be invisible.

## 4. What is checked

| Run | Instance | Properties |
|---|---|---|
| `ledger` | 3 review ids, 2 release ids, 2 instants, three evidence records: two captures of one version and one that gives the version id to another document | `StoreLoads`, `LinearReviewChain`, `ReleasedUnderStandingApproval`, `ReplyMatchesStore`, `NoReleaseAfterRevocation` |
| `takeover` | 1 operation, 2 claims, 2 processes, 2 reviews, 1 release id, 2 instants, a body observed at the second of them, both migrations | `JournalTypeOK`, `JournalLoads`, `PreparedIsAdmissible`, `ReleasedUnderRegisteredHead`, `OvertakenWritesNothing`, `ImplementsReleaseGate` |
| `delivery` | 3 operations, 1 process, 1 request, 4 envelopes (an anchor, a fork after it, and a successor of one branch), 3 instants, room for 2 receipts | `StoresLoad`, `ImplementsChain` |
| `recovery` | 2 operations, 2 processes, 2 envelopes, a clock that is never set back | `EvidenceIsHistory`, `AppliedWasRetained`, `AppliedIsAcknowledged` |
| `clock_set_back` | 2 operations, 2 processes, the envelopes and instants of `delivery`, a clock that may be set back | `ReceiptsCanBeAcknowledged`, violated |
| `claims` | 2 claims, 3 transitions, 3 of the 6 states, 3 instants, 3 ids, evidence of this version and of another | `ReplayFollowsPolicy`, `ReleasedStands` |
| `backdated` | the same with 1 claim | `EarlierStateStands`, violated |
| `peer_gate` | 1 endpoint, 2 evaluations, 2 policy revisions, 2 tokens, 3 instants | `HandlesStayOwned`, `OneLiveToken`, `AuthorityOwnsContinuity`, `RefusalLeavesNothing`, `GrantsAreCurrent` |
| `pipe` | a connection and one read, ledgers of 7 events, drains of 2 turns, 5 instants | `KernelMemoryHeld`, `LedgerIsTrue`, `NoLateResult`, `CallsEnd` |
| `guarded_stores` | witness: 4 heads with a fork, 2 principals; distribution: 4 bundles with a fork and a new epoch, 3 policies and pins; updates: 3 intents on 2 heads and one that reuses an id, 3 authorities, 7 events; administration: 2 hosts, 4 payloads, 5 events; 3 instants | `EveryStoreLoads`, `AnswersAreTrue`, `RollbackExposed`, `FrontierIsWitnessable`, `CommitsFormAChain`, `BarredKeysCommitNothing`, `RevocationIsFinal` |
| `checkpoint_authority` | 2 request ids, 2 policies, 2 acceptances, an update store of 2 events that can be set back | `RefusedForTimeOnly`, `AcceptedOnlyGrows`, `RepeatsMakeNothing` |
| `custody` | broker: 2 clients, one attempt, 2 tokens, 2 sets of permissions; bridge: 1 frame, 4 states of the host; 2 ticks, 4 half seconds | `OneDispatchPerAttempt`, `OneOutcomePerToken`, `ReleasedWithinEveryLease` |

The properties in words:

* `StoreLoads`, `JournalLoads`: no legal sequence of calls leaves a store that the
  next call refuses.  This matters because refusal is total: a ledger that does
  not load cannot record a revocation either (a fault in the outbox alone does
  not prevent one: `Loads(FALSE)`).
* `LinearReviewChain`: racing reviewers never fork a version's history.
* `ReleasedUnderStandingApproval`, `NoReleaseAfterRevocation`: a release names an
  approval that no later review had displaced; history is never rewritten.
* `ReplyMatchesStore`: an answer, also to a retry, names the record with exactly
  the content asked.
* `ReleasedUnderRegisteredHead`: an operation commits under the review its
  caller saw when it registered, or not at all.
* `OvertakenWritesNothing`: a preparation that was overtaken by another claim
  writes nothing, and after the migration neither outbox nor journal moves, also
  for preparations begun before.
* `PreparedIsAdmissible`: what was recorded satisfied the engine under the review
  it names.
* `ImplementsReleaseGate`, `ImplementsChain`: refinement.
* `StoresLoad`: what the two client stores write, each loads again.
* `EvidenceIsHistory`: the journal closes an operation only on receipts the
  high-water store holds, and goes on holding unchanged.
* `AppliedWasRetained`: the response behind a receipt is on disk in the journal,
  so a crash after the application loses nothing.
* `AppliedIsAcknowledged`: what was applied is acknowledged in the end, also when
  the response has expired and the mark has moved on.

* `HandlesStayOwned`: every process handle has an owner that can still be
  reached, or a condemned endpoint that says so.
* `OneLiveToken`, `AuthorityOwnsContinuity`, `RefusalLeavesNothing`,
  `GrantsAreCurrent`: the locks of the continuity do what its documentation says
  of them when two evaluations race, although the code expects one.
* `ReplayFollowsPolicy`: the engine never asks the policy, and hosts may overtake
  each other; what is replayed are nevertheless courses the policy allows.
* `ReleasedStands`: no later transition changes what was released of a time before
  it occurred.
* `KernelMemoryHeld`: no buffer is given up while the kernel may write to it.
* `LedgerIsTrue`, `NoLateResult`: the ledger says what happened, and a result
  that came too late is suppressed however it was noticed.
* `CallsEnd`: waits end.
* `EveryStoreLoads`: each load validates the whole history; none is ever refused.
* `AnswersAreTrue`: a success is on record, by store `WitnessAnswers`,
  `DistributionAnswers`, `UpdateAnswers`, `AuthorizationAnswers`.  The first two add
  that what was refused was not written, the third that of a refusal that names
  its reason.  The last adds who is answered: the credential of the event, while
  its own principal may administer (`AnswersAdministrators`), and a bootstrap only
  inside its lease and all windows it was verified with (`BootstrapsInTime`).
* `RollbackExposed`: a local store set back behind what the witness had accepted
  is told so, whatever it accepted since.
* `FrontierIsWitnessable`: what the distribution ingests the witness can follow.
* `CommitsFormAChain`, `BarredKeysCommitNothing`, `RevocationIsFinal`: one update
  per head; a barred key and a revoked right end for good, also for calls that
  were begun before.
* `RefusedForTimeOnly`: the authority reads its own history again, after every
  change of policy, unless the clock stands before the last acceptance.
* `AcceptedOnlyGrows`, `RepeatsMakeNothing`: the authority never contradicts
  itself, nor accepts a request twice.
* `OneDispatchPerAttempt`, `OneOutcomePerToken`: one signature per attempt, and one
  story about it.
* `ReleasedWithinEveryLease`: a signed observation leaves inside the windows and
  the deadline of every stage before, and there is one per frame.

Bounds, and why they suffice.

* Three reviews are enough for approve, replace, revoke; every comparison in the
  code is between a record and the head before it.  Identifiers are used once,
  so the number of ids bounds the histories, and no other bound on length is
  needed.
* `MaxGeneration` bounds the claims of an operation.  Two make one fence stale;
  more make more stale fences that differ in nothing the code compares.
* Two instants produce every order of two timestamps; three timestamps meet only
  in a chain of comparisons by pairs.
* Reviewers, principals and workers are compared for equality only; the
  generation already separates two claims, which is why one worker suffices.  A
  single allowed reviewer is enough since the allowlist is one membership test.
* Four envelopes give a repeat, an advance, a fork, a gap and a second advance;
  three instants put the retention, the application and the expiry in any order.
  One request for both operations is the hard case, since the same response then
  fits either.
* Each policy, lease and clock needs two values and a change in between to be
  stale; three instants put an end of a window before, between or after two steps.
* Windows begin at 0 in `AuthorizationLedger`, so that only their ends are
  missed; a beginning that lies ahead is refused by the same comparison.
* Seven update events hold an authority and two operations from registration to
  commit, or two authorities and the same without one step.
* `checkpoint_authority` needs histories of the update store that differ in their
  first event; longer ones differ in nothing the authority compares.  A draft is
  restricted to extensions of what is on record when it is drafted; others
  are refused at once.
* Three transitions are a start, a step and one that overtakes or precedes it.
  Three states form the only order the policy has; that a qualified claim may be
  confirmed anew adds no case to the replay.
* The client runs are split: `delivery` has the forks, gaps and exhausted receipts,
  `recovery` the two processes.  That neither needs the other's instance for its
  invariants is what the theorems of section 5 say, for all of them.
* One endpoint: endpoints share the registry only, whose bound `peer_gate`
  therefore meets with one lease.  Any number of endpoints is what
  `HandlesAreOwned` proves.
* Evidence that passes the first five phases of the gate and evidence that stops
  in them; the ladder itself is a function of constants.
* One frame in `custody`: the connection serves one at a time, and what two
  frames share, the provider and the host, is shared by steps of one.
* Symmetry is used over ids that the code only compares and over hosts that run the
  same code, and never in a run that checks liveness.
* Deadlock checking stays on where the system can always go on: a store can
  acknowledge a retry or resolve, and the wall clock can move.  It is off in
  `recovery`, `peer_gate` and `pipe`, where time grows to its last instant and
  whatever was contained or closed is at its end.

Fairness.  The stores offer no scheduling of their own and callers may stop for
ever, so the safety runs assume none.  `AppliedIsAcknowledged` needs a host that
does what the documentation asks of it ("invoke journal recovery again",
`src/docs/client_request_journal_store.md:112`):

* each step under way ends (`WF` on `Ends`), since a transaction is straight-line
  code and a receive has a deadline; it may end by failing;
* `recover` is called again and again, and of the calls that find the receipt not
  all are cut short (`SF` on `BeginRecover` and `Acknowledge`; strong, because
  another process can hold the lock now and then).

Nothing is assumed of responses, registrations, applications or the speed of the
clock.

`CallsEnd` assumes that a thread inside a call takes its next step (`WF_vars(InCall)`):
the loops of `wait_until` and `cancel_and_drain` make native calls that return at
once or within the time they were given.  Nothing is assumed of kernel or clock.

Two findings.  `clock_set_back`: the code assumes that the high-water store dates a
receipt after the journal retained the response, and compares the two
(`client_request_journal_logic.py:182`), but the two stores read the host's clock
separately and the high-water store knows nothing of the retention.  If the clock
is set back in between, the application succeeds and no recovery ever
acknowledges it, which the documentation promises without a condition on the
clock.  This is why `recovery` takes a steady clock (`Steady`); all other runs
let the clock jump.

`backdated`: the policy asks which state a transition starts from, and not when it
occurred.  It authorizes one from the latest state that occurred before that
state was reached, and recording it changes what the history says of the instants
in between, of which `spans/state.py:20` says that "earlier state is never
rewritten".  `ReleasedStands` has the exception this forces.  The engine is safe
either way: it refuses the inventory at every query from that instant on.

Each property is paired with a fault (the operators marked `Fault:` or
`Mutant:` in the modules) that TLC shows to violate it: a dropped comparison, a check moved
before the replay, a migration without its check, a retry recognised by id
alone, and so on.

## 5. What is proved

The proofs hold for any sets of reviewers, ids, evidence, operations, workers
and processes, for any number of claims, and any finite or infinite set of
instants.  Those of the store rest on `LedgerConstants` and `JournalConstants` only.
TLC evaluates every assumption in the runs.

`RequestJournalProofs`, the ledger.  The inductive invariant is
`LedgerInv == LedgerTypeOK /\ StoreLoads`.  What the loader recomputes is nearly
all one can say of a history, so the other invariants follow from it without a
second induction.

* `HeadAtIsLast` and `HeadAtStable` carry the rest: the head after n records
  depends on the first n records only, so appending disturbs no earlier check
  (`ValidReviewStable`, `ValidReleaseStable`).
* `LedgerAlwaysLoads` has one step per operation.  The interesting case is
  `AppendReview`, whose last two guards the new record must still satisfy when
  the loader sees it in its place in the sequence.
* `ReviewsFormChains`: two reviews that supersede the same one would each have had
  it as head, and the later of the two has the earlier one as a candidate.
* `ReleasesAreApproved` follows from the head stored with each release.
* `RepliesMatch` and `RevocationStopsReleases` are stated over steps.

`RequestJournalProofs`, the journal.

* `JournalImplementsLedger`, which is proved and needs no run: every step of the
  journal is a ledger step or leaves the ledger alone, so `LedgerInv` holds of the whole store
  (`JournalKeepsLedgerInv`), and with it every theorem above.
* `StoreAlwaysLoads`: the journal's own writers revalidate; the proof is about the
  others.  A review leaves the journal's checks alone, a direct release must miss
  every reserved id, and the migrations keep or fix the boundary.
* `StaleWorkersWriteNothing`, `MigratedStoreIsFrozen`: one step per action.
* `CommitsAreUnderTheRegisteredHead` needs `RegistrationInv`: the evidence an
  operation registered belongs to the key it registered for.  The property alone
  is not inductive, because the link between key and evidence is checked at
  registration only.
* `PreparationsAreAdmissible` needs `AdmissionInv`, which says the same of the
  candidates that processes still hold.
* `JournalImplementsReleaseGate`: a review moves the standing approval of its key
  and of no other (`ReviewMovesStanding`), a commit and a direct release are
  releases under it (`ReleaseUnderStanding`), a failure gives an id up, all else
  stutters.  What keeps an id from being decided twice is that operations have ids
  of their own (`OwnReleases`), that direct releases miss them, and the loader's
  link between state and outbox.

`ClientDeliveryProofs` rests on `HighWaterConstants` and `DeliveryConstants`, for any
processes, operations, envelopes and instants, and with a clock that may jump.

* The four invariants are not inductive by themselves: `Acknowledge` writes what
  `BeginRecover` read, and `ApplyRetained` applies what `Propose` read.
  `DeliveryInv` adds what ties a step under way to the stores (`RecoveryInv`,
  `ApplicationInv`) and that the journal's lock has one holder (`OneRecovers`).
* `ReceiptsStay` and `PastStays` carry the steps: a receipt is judged by the prefix
  before it, so a longer history disturbs neither it nor any evidence.
* `ApplyWrites`, the one step on the high-water store, shows that the loader accepts
  what `apply` wrote; `EntryWritten` does the same for the two journal writes.
* `DeliveryImplementsChain`: `Apply` is an acceptance, `Acknowledge` an
  acknowledgement, all else stutters.

`CustodyHostProofs` rests on `CustodyConstants`, `BrokerConstants` and
`ClockConstants`, for any clients, requests, permissions, windows, host states
and clocks.

* `CustodyInv` follows a token.  Until its outcome is written nobody was told one
  (`ToldAsRecorded`, with results only of used tokens), which is what makes it
  harmless that `Reply` rewrites the outcome of a signature it withholds.
* A dispatched attempt is that of a used token other than the one about to be
  dispatched (`DispatchedByBroker`); tokens have attempts of their own.  Behind
  the bridge an attempt is the number of its handoff, and handoffs only grow.
* `SignedOncePerAttempt` and `ToldOneOutcome` follow without further induction.
* `ReleasedInsideLeases` rests on `ObservationConstants` too, and on an invariant of
  its own.  `PathInv` says that each gate keeps inside the window the gate before it
  left and repeats its deadline (`Within`, `FromFrame`), that a payload is dated
  inside all of them (`PayloadFits`), that frames and candidates are used once, and
  that a job's candidate was not released before.
* Each validation yields a binding inside the last (`Revalidates`); the arithmetic
  of seconds rounded inwards is done once, in `Seconds` and `PayloadInside`.  That the
  code finds a longest grant at all is `LongestGrant`, by the least size of a set of
  grants that had none.

`PeerGateProofs` rests on `LeaseAssumption` and `ContinuityAssumption`, for any
endpoints, evaluations, evidence, deadlines and policies, and a registry of any
size.  `GateInv` has two halves.

* `StoreInv` ties lease, endpoint and continuity: a lease is the only one of its
  endpoint, a continuity the only one of its lease, and the outstanding token the
  only one alive.  `LeaseChanges`, `EndpointChanges` and `ContinuityChanges` say once
  what a change must obey; each operation is an instance of one of them.
* `Settled` says what an evaluation may rely on at each phase, although it dropped
  the lock in between: the binding and the snapshot it saw, since they never
  change, but not that the continuity is still open.  That is known again only
  after `AdoptStep`.  `Respected` is what all others do to a continuity: nothing, once
  somebody adopted it.
* `HandlesAreOwned`, `TokensAreExclusive`, `AuthoritiesOwn` and `RefusalsAreComplete`
  follow; `GrantsStayCurrent` is read off the steps.

`PipeEndpointProofs` rests on `EndpointAssumption` and `LedgerAssumption`, for any operations, deadlines and
native failures.

* What is inductive is `Sound`: of each operation its record agrees with the kernel
  and with the ledger that a correct adapter would have written (`Reflects`), at
  every stage of the calls, and only the operation in the endpoint is under way.
* A native failure is containment, and one in which the kernel may still own the
  memory is the case that takes the work: the operation stays, its buffer stays, and
  the endpoint closes nothing.
* `KernelMemoryIsHeld` and `LedgersAreTrue` are conjuncts of it; `ResultsInTime` is
  read off the one step that answers.

`GuardedStoresProofs` rests on the assumptions of the four stores, for any
policies, requests, keys, authorities, identities and clocks.

* The four loaders are the invariant.  What each recomputes of a history is, as
  with the ledger, nearly all there is to say, and the hard half of each proof is
  one implication: what the evaluation lets pass, the loader accepts in its place
  (`LoadersNeverRefuse`).  Added are the types, and of each call under way what its
  evaluation saw, since the commit comes steps later, under the same lock.
* The loaders recompute by recursion (`HeadAfter`), which is unfolded one record at
  a time by `HeadStep`: the functions exist (`HeadsExist`) and agree on common
  prefixes (`HeadsAgree`).
* Whatever is to hold all along a history is proved by its least counterexample:
  `NatMin` gives the first index at which a set of numbers would be met, a formula
  with no operator as parameter.  `ChainGrows` (commits), `BarredGrows` (keys) and
  `DisabledAfterEnrolled` (credentials) are shown this way, and from them
  `CommitsAreOneChain`, `BarredForGood` and `RevokedForGood`.
* `StoresAnswerTruly` is read off the steps, but for the bootstrap.  Its commit
  checks the lease and not the windows the lease was cut to, steps after they were
  read: `AsVerified` carries them from `Activate` through `LockBootstrap`
  (`BootstrapsAreInTime`).  That nobody else can seed the ledger is
  `OnlyBootstrapsSeed`.
* `RestoreIsExposed` needs of the witness that sequences grow along its receipts and
  that the local store knows what it took over.

`CheckpointAuthorityProofs` rests on `AuthorityConstants` and `ClockConstants`, for any
requests, policies and instants.

* `AuthorityInv` says that the history is append-only in time and that every
  acceptance was made, by a policy the authority held, from the envelope before it
  (`HistoryStands`), and that requests have ids of their own.  Of the update store,
  which may be set back at any time, it needs only that events are dated.
* `HistoryStaysReadable`: what `simulate_authority` accepted, the loader finds
  accepted again.  `AcceptedImagesExtend` and `RepeatsAreRecovered` are read off the
  steps.

`ClaimReplayProofs` rests on `ReplayConstants`, for any claims, ids, instants,
evidence and number of transitions.

* `ReplayInv` says of each transition that the policy allows it from the state it
  says it starts from (`Authentic`), not that this was the state of the claim: the
  host may have read an old part of the list.  And what was released is the replay
  of a prefix of the list (`OutcomeHolds`), which stays one as the list grows.
* `ReplaysAreLawful`: where a replay succeeds, each transition starts where the last
  one of its claim ended (`ReplayedInCourse`), so the single moves make one course.
  Among transitions without ties the last is the same in every order
  (`ShownIsLast`), so the snapshot shows its end.  Conversely, what was recorded in
  order is linked, since the last one recorded is the last that occurred
  (`OrderlyIsReplayed`).
* `ReleasesStand`: transitions after the query time are visible to neither side
  (`SeenAlike`), and what is visible has no ties, so both orders agree.
* That a set of positions has a last one is an induction on the bound
  (`GreatestPosition`), with the order as a set of pairs, since a lemma whose
  parameter is an operator is of no use here.

The types of the ledger are checked as part of `JournalTypeOK`; those of the client
stores are proved (`DeliveryTypes`) and checked by no run.

Only model-checked are `AppliedIsAcknowledged` and `CallsEnd`: liveness under
fairness.  Every other property of a passing run is proved.

`ReceiptsCanBeAcknowledged` and `EarlierStateStands` are refuted, and so findings.

Out of the prover's reach are liveness, ENABLED, library theorems that take an
operator as a parameter, and RECURSIVE operators.

## 6. What is not modelled

* Corruption of the database by others, and the hash chains that detect it.
* Canonical serialisation, typed parsing, HTML and HTTP, signature algorithms,
  X.509, Win32 tokens and ACLs: each becomes a predicate where a model needs it.
* Failures of SQLite itself below the commit.  One before a commit rolls back;
  one at the commit is a failure whose outcome is not known to the caller; one
  after it is a lost answer.
* In the update store `PUBLISH`, which no writer writes, and
  `evaluate_update_recovery`, which is pure; `AuthenticatedUpdateEvaluator`, which
  advises and stores nothing.
* The successor of an envelope that has expired: the code offers none, so the
  authority accepts nothing more then (the model does the same and goes on
  answering repeats).
* In the pipe ledger `REVERT_FAILED` and the transfer counts; the offline check
  of a set of ledgers.
* `simulate_custody_attempt` and `receive_signed_response`; a restart of the
  broker, after which nothing of it survives.
* Win32 token inspection and host evidence: fixed sequences of calls that read the
  state of the operating system.  Caller configuration and deployment validate
  immutable documents.
* `ingestion/` and the rest of `spans/` (diff, extraction, `temporal.py`): pure
  functions over documents, which the replay engine does not use or which
  `Replayable` stands for.

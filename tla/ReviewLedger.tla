---------------------------- MODULE ReviewLedger ----------------------------
(***************************************************************************)
(* The review ledger and the release outbox of the coordinated store       *)
(* (provenance/review_store.py, and the same semantics under SQLite in     *)
(* provenance/sqlite_review_store.py).                                     *)
(*                                                                         *)
(* Reviewers append verdicts about one piece of archive evidence; a host   *)
(* commits a release, which must name the review that is at that moment    *)
(* the head of the document version and approves exactly that evidence.    *)
(* Every operation runs under one lock (RLock, BEGIN IMMEDIATE), so it is  *)
(* one action here.  Callers are unconstrained: any request, with any      *)
(* stale head, may arrive at any time, which is what a caller that read    *)
(* the store earlier, or retries after a lost answer, can send.            *)
(*                                                                         *)
(* Sequence numbers are positions, and 0 stands for Python's None.  An     *)
(* entry hash is determined by the prefix it closes, so the position names *)
(* it; the SHA-256 chains are not modelled further.                        *)
(***************************************************************************)
EXTENDS Integers, Sequences

CONSTANTS
    Reviewers,          \* identities a host may assert
    AllowedReviewers,   \* the host-configured allowlist
    ReviewIds,          \* review_id, chosen by the caller
    NoId,               \* an absent supersedes / revokes reference
    ReleaseIds,         \* release_id of a release request
    Payloads,           \* payload bytes
    Evidence,           \* ArchiveAvailabilityRecord
    DocumentOf,         \* evidence |-> document_id
    VersionOf,          \* evidence |-> version_id
    BodyOf,             \* evidence |-> (body_hash, original_url)
    CaptureAt,          \* evidence |-> capture_at
    Times               \* the instants of the clocks

ASSUME LedgerConstants ==
    /\ AllowedReviewers \subseteq Reviewers
    /\ NoId \notin ReviewIds
    /\ Times \subseteq Nat
    /\ CaptureAt \in [Evidence -> Times]

VARIABLES
    reviews,    \* _records: every review, in order of recording
    outbox,     \* _release_state: every release, in order of commit
    reply       \* what the last operation handed back, or NoReply if it was lost

ledgerVars == <<reviews, outbox, reply>>

Verdicts == {"approved", "rejected", "revoked"}

ReviewRequest ==
    [id : ReviewIds, evidence : Evidence, verdict : Verdicts, reviewedAt : Times,
     supersedes : ReviewIds \cup {NoId}, revokes : ReviewIds \cup {NoId}]

Review == [request : ReviewRequest, reviewer : Reviewers, recordedAt : Times, expected : Nat]

ReleaseRequest ==
    [id : ReleaseIds, evidence : Evidence, expectedReview : Nat,
     queryTime : Times, payload : Payloads]

Release == [request : ReleaseRequest, reviewSequence : Nat, revision : Nat]

ReviewCall == [request : ReviewRequest, reviewer : Reviewers, expected : Nat]
Call(rq, a, x) == [request |-> rq, reviewer |-> a, expected |-> x]

NoReply == [kind |-> "none"]
ReviewReply(call, n) == [kind |-> "review", call |-> call, sequence |-> n]
ReleaseReply(rq, n) == [kind |-> "release", request |-> rq, sequence |-> n]

-----------------------------------------------------------------------------
(* Heads: the ledger is one sequence shared by all document versions.      *)

Key(e) == <<DocumentOf[e], VersionOf[e]>>
Identity(e) == <<DocumentOf[e], BodyOf[e]>>

OfKey(k, n) == {i \in 1..n : Key(reviews[i].request.evidence) = k}

\* Fault: the first review of a document version is taken for its head.
HeadAt_First(k, n) ==
    IF OfKey(k, n) = {} THEN 0
    ELSE CHOOSE i \in OfKey(k, n) : \A j \in OfKey(k, n) : i <= j

\* The head of k among the first n records: the last of k, or 0.
HeadAt(k, n) ==
    IF OfKey(k, n) = {} THEN 0
    ELSE CHOOSE i \in OfKey(k, n) : \A j \in OfKey(k, n) : j <= i

HeadOf(k) == HeadAt(k, Len(reviews))

-----------------------------------------------------------------------------
(* Checks shared by the writers and by the loader.                         *)

\* Fault: the head the caller expects is not compared with the head there is.
CheckTransition_NoCompare(rq, h, now, x) ==
    /\ CaptureAt[rq.evidence] <= rq.reviewedAt
    /\ rq.reviewedAt <= now
    /\ h # 0 => reviews[h].request.reviewedAt <= rq.reviewedAt
    /\ IF rq.verdict = "revoked"
       THEN h # 0 /\ reviews[h].request.verdict = "approved"
       ELSE rq.revokes = NoId

\* rq, recorded at `now` by a caller that expects head x, may follow head h.
CheckTransition(rq, h, now, x) ==
    /\ x = h
    /\ rq.supersedes = IF h = 0 THEN NoId ELSE reviews[h].request.id
    /\ CaptureAt[rq.evidence] <= rq.reviewedAt
    /\ rq.reviewedAt <= now
    /\ h # 0 => reviews[h].request.reviewedAt <= rq.reviewedAt
    /\ IF rq.verdict = "revoked"
       THEN /\ h # 0
            /\ reviews[h].request.verdict = "approved"
            /\ rq.revokes = reviews[h].request.id
            /\ rq.evidence = reviews[h].request.evidence
       ELSE rq.revokes = NoId

\* A version id, once recorded, keeps its document, body and URL.
SameIdentity(e, f) == VersionOf[e] = VersionOf[f] => Identity(e) = Identity(f)

\* Fault: any approval of the same evidence will do.
CheckReleaseHead_AnyApproval(rq, h) ==
    /\ h # 0
    /\ reviews[h].request.verdict = "approved"
    /\ rq.evidence = reviews[h].request.evidence
    /\ CaptureAt[rq.evidence] <= rq.queryTime

\* rq may be released under review h.
CheckReleaseHead(rq, h) ==
    /\ h # 0
    /\ reviews[h].request.verdict = "approved"
    /\ rq.expectedReview = h
    /\ rq.evidence = reviews[h].request.evidence
    /\ CaptureAt[rq.evidence] <= rq.queryTime

\* What every load revalidates, record by record, before an operation proceeds.
ValidReview(i) ==
    LET r == reviews[i].request IN
    /\ \A j \in 1..(i - 1) :
          /\ reviews[j].request.id # r.id
          /\ reviews[j].recordedAt <= reviews[i].recordedAt
          /\ SameIdentity(reviews[j].request.evidence, r.evidence)
    /\ CheckTransition(r, HeadAt(Key(r.evidence), i - 1),
                       reviews[i].recordedAt, reviews[i].expected)

ValidRelease(i) ==
    LET r == outbox[i] IN
    /\ r.revision \in 1..Len(reviews)
    /\ \A j \in 1..(i - 1) :
          /\ outbox[j].request.id # r.request.id
          /\ outbox[j].revision <= r.revision
    /\ r.reviewSequence = HeadAt(Key(r.request.evidence), r.revision)
    /\ CheckReleaseHead(r.request, r.reviewSequence)

ValidLedger == \A i \in DOMAIN reviews : ValidReview(i)
ValidOutbox == \A i \in DOMAIN outbox : ValidRelease(i)

-----------------------------------------------------------------------------
(* Operations.  An answer may be lost after the commit: the caller cannot  *)
(* tell and will retry.                                                    *)

Answer(r) == reply' \in {r, NoReply}

\* Fault: a version id may be given to another document.
AppendReview_Rebinds(rq, a, x) ==
    /\ \A i \in DOMAIN reviews : reviews[i].request.id # rq.id
    /\ \E now \in Times :
        /\ reviews # <<>> => reviews[Len(reviews)].recordedAt <= now
        /\ CheckTransition(rq, HeadOf(Key(rq.evidence)), now, x)
        /\ reviews' = Append(reviews, [request |-> rq, reviewer |-> a,
                                       recordedAt |-> now, expected |-> x])
    /\ ValidLedger
    /\ Answer(ReviewReply(Call(rq, a, x), Len(reviews) + 1))
    /\ UNCHANGED outbox

AppendReview(rq, a, x) ==
    /\ \A i \in DOMAIN reviews : reviews[i].request.id # rq.id
    /\ a \in AllowedReviewers
    /\ \E now \in Times :
        /\ reviews # <<>> => reviews[Len(reviews)].recordedAt <= now
        /\ CheckTransition(rq, HeadOf(Key(rq.evidence)), now, x)
        /\ reviews' = Append(reviews, [request |-> rq, reviewer |-> a,
                                       recordedAt |-> now, expected |-> x])
    /\ \A i \in DOMAIN reviews : SameIdentity(reviews[i].request.evidence, rq.evidence)
    /\ ValidLedger
    /\ Answer(ReviewReply(Call(rq, a, x), Len(reviews) + 1))
    /\ UNCHANGED outbox

\* An exact retry acknowledges the recorded review and changes nothing else.
AppendRetry(rq, a, x) ==
    /\ a \in AllowedReviewers
    /\ \E i \in DOMAIN reviews :
        /\ reviews[i].request.id = rq.id
        /\ Call(reviews[i].request, reviews[i].reviewer, reviews[i].expected) = Call(rq, a, x)
        /\ Answer(ReviewReply(Call(rq, a, x), i))
    /\ ValidLedger
    /\ UNCHANGED <<reviews, outbox>>

\* Fault: the review the caller saw is checked instead of the current head.
CommitRelease_StaleHead(rq) ==
    /\ \A i \in DOMAIN outbox : outbox[i].request.id # rq.id
    /\ CheckReleaseHead(rq, rq.expectedReview)
    /\ ValidLedger /\ ValidOutbox
    /\ outbox' = Append(outbox, [request |-> rq, reviewSequence |-> rq.expectedReview,
                                 revision |-> Len(reviews)])
    /\ Answer(ReleaseReply(rq, Len(outbox) + 1))
    /\ UNCHANGED reviews

CommitRelease(rq) ==
    /\ \A i \in DOMAIN outbox : outbox[i].request.id # rq.id
    /\ CheckReleaseHead(rq, HeadOf(Key(rq.evidence)))
    /\ ValidLedger /\ ValidOutbox
    /\ outbox' = Append(outbox, [request |-> rq,
                                 reviewSequence |-> HeadOf(Key(rq.evidence)),
                                 revision |-> Len(reviews)])
    /\ Answer(ReleaseReply(rq, Len(outbox) + 1))
    /\ UNCHANGED reviews

\* Fault: any request with a known release id is taken for a retry.
CommitRetry_ById(rq) ==
    /\ \E i \in DOMAIN outbox :
        /\ outbox[i].request.id = rq.id
        /\ Answer(ReleaseReply(rq, i))
    /\ UNCHANGED <<reviews, outbox>>

\* An exact retry is acknowledged even after the approval was revoked.
CommitRetry(rq) ==
    /\ ValidLedger /\ ValidOutbox
    /\ \E i \in DOMAIN outbox :
        /\ outbox[i].request.id = rq.id
        /\ outbox[i].request = rq
        /\ Answer(ReleaseReply(rq, i))
    /\ UNCHANGED <<reviews, outbox>>

-----------------------------------------------------------------------------
(* Behaviours.  A caller may send any request: a review that names no      *)
(* review or the one it would supersede as revoked, with any head it may   *)
(* have seen; a release of any evidence under any recorded review.         *)

LedgerInit == reviews = <<>> /\ outbox = <<>> /\ reply = NoReply

ReviewRequests == {rq \in ReviewRequest : rq.revokes \in {rq.supersedes, NoId}}

ReleaseRequestsUpTo(n) ==
    [id : ReleaseIds, evidence : Evidence, expectedReview : 1..n,
     queryTime : Times, payload : Payloads]

ReviewStep ==
    \E rq \in ReviewRequests, a \in Reviewers, x \in 0..Len(reviews) :
        AppendReview(rq, a, x) \/ AppendRetry(rq, a, x)

ReleaseStep ==
    \E rq \in ReleaseRequestsUpTo(Len(reviews)) : CommitRelease(rq) \/ CommitRetry(rq)

LedgerNext == ReviewStep \/ ReleaseStep

LedgerSpec == LedgerInit /\ [][LedgerNext]_ledgerVars

-----------------------------------------------------------------------------
(* Properties.                                                             *)

\* The types of the three variables.
LedgerTypeOK ==
    /\ reviews \in Seq(Review)
    /\ outbox \in Seq(Release)
    /\ reply \in {NoReply}
         \cup [kind : {"review"}, call : ReviewCall, sequence : Nat]
         \cup [kind : {"release"}, request : ReleaseRequest, sequence : Nat]

\* The writers never record anything the loader refuses: a store that refuses
\* its own history blocks every operation, revocation included.
StoreLoads == ValidLedger /\ ValidOutbox

\* However reviewers race on one document version, its reviews form one chain:
\* no two supersede the same review, and only the first supersedes none.
LinearReviewChain ==
    \A i, j \in DOMAIN reviews :
        LET r == reviews[i].request
            q == reviews[j].request
        IN  i < j /\ Key(r.evidence) = Key(q.evidence)
            => r.supersedes # q.supersedes /\ q.supersedes # NoId

\* Every release names an approval of exactly its evidence that no later review
\* of that document version had displaced at the revision the release was made.
ReleasedUnderStandingApproval ==
    \A i \in DOMAIN outbox :
        LET r == outbox[i].request
            n == outbox[i].reviewSequence
        IN  /\ n \in 1..outbox[i].revision /\ outbox[i].revision <= Len(reviews)
            /\ reviews[n].request.verdict = "approved"
            /\ reviews[n].request.evidence = r.evidence
            /\ \A j \in (n + 1)..outbox[i].revision :
                  Key(reviews[j].request.evidence) # Key(r.evidence)

\* An answer, of a first call or of a retry, names the record that holds exactly
\* what was asked; also when that approval has been revoked since.
ReplyMatchesStore ==
    /\ reply.kind = "review" =>
          /\ reply.sequence \in DOMAIN reviews
          /\ LET r == reviews[reply.sequence]
             IN  Call(r.request, r.reviewer, r.expected) = reply.call
    /\ reply.kind = "release" =>
          /\ reply.sequence \in DOMAIN outbox
          /\ outbox[reply.sequence].request = reply.request

\* What was recorded stays, and no release is added once a revocation, or any
\* other review, has superseded the approval it names.
NoReleaseAfterRevocation ==
    [][/\ \A i \in DOMAIN reviews : i \in DOMAIN reviews' /\ reviews'[i] = reviews[i]
       /\ \A i \in DOMAIN outbox : i \in DOMAIN outbox' /\ outbox'[i] = outbox[i]
       /\ \A i \in DOMAIN outbox' \ DOMAIN outbox, j \in DOMAIN reviews :
             reviews[j].request.supersedes
               # reviews[outbox'[i].reviewSequence].request.id]_ledgerVars
=============================================================================

------------------------ MODULE RequestJournalProofs ------------------------
(***************************************************************************)
(* What the review ledger guarantees for any number of reviewers, reviews, *)
(* releases and document versions, and the request journal for any number  *)
(* of operations, workers, processes and claims: the theorems of           *)
(* ReviewLedger, which come first, and of RequestJournal.                  *)
(*                                                                         *)
(* The ledger's inductive invariant is LedgerTypeOK /\ StoreLoads: the     *)
(* checks the loader repeats on the whole history are strong enough to     *)
(* carry a step, because an appended record leaves the head at every       *)
(* earlier position as it was (HeadAtStable).                              *)
(*                                                                         *)
(* The journal's steps are steps of the ledger, so the ledger's theorems   *)
(* hold of the whole store; and none of its writers leaves a store that    *)
(* the next transaction refuses to load.  Seen without records and         *)
(* workers, the store is a release gate.                                   *)
(***************************************************************************)
EXTENDS RequestJournal, SequenceTheorems, WellFoundedInduction, TLAPS

LEMMA TimesAreNumbers == Times \subseteq Int
    BY LedgerConstants

-----------------------------------------------------------------------------
(* Heads.                                                                  *)

\* A non-empty set of positions up to n has a last one.
LEMMA LastExists ==
    ASSUME NEW n \in Nat, NEW S \in SUBSET (1..n), S # {}
    PROVE  \E m \in S : \A j \in S : j <= m
<1> DEFINE T == {j \in Nat : n - j \in S}
<1>1. T \subseteq Nat /\ T # {}
  <2>1. PICK i \in S : TRUE
      OBVIOUS
  <2>2. n - i \in T
      OBVIOUS
  <2> QED
      BY <2>2
<1>2. PICK t \in T : \A u \in T : ~(<<u, t>> \in OpToRel(<, Nat))
    BY <1>1, WFMin, NatLessThanWellFounded
<1>3. \A u \in T : t <= u
  <2> SUFFICES ASSUME NEW u \in T, u < t PROVE FALSE
      BY <1>1
  <2>1. <<u, t>> \in OpToRel(<, Nat)
      BY <1>1 DEF OpToRel
  <2> QED
      BY <1>2, <2>1
<1>4. \A j \in S : j <= n - t
  <2> TAKE j \in S
  <2>1. n - j \in T
      OBVIOUS
  <2>2. t <= n - j
      BY <1>3, <2>1
  <2>3. t \in Nat /\ j \in Nat
      BY <1>1
  <2> QED
      BY <2>2, <2>3
<1> QED
    BY <1>4

\* The head of k among the first n records is one of k's, and the last of them;
\* it is 0 only when there is none.
LEMMA HeadAtIsLast ==
    ASSUME NEW k, NEW n \in Nat
    PROVE  /\ HeadAt(k, n) \in 0..n
           /\ HeadAt(k, n) = 0 => OfKey(k, n) = {}
           /\ HeadAt(k, n) # 0 => HeadAt(k, n) \in OfKey(k, n)
           /\ \A j \in OfKey(k, n) : j <= HeadAt(k, n)
<1>1. OfKey(k, n) \in SUBSET (1..n)
    BY DEF OfKey
<1>2. CASE OfKey(k, n) = {}
    BY <1>2 DEF HeadAt
<1>3. CASE OfKey(k, n) # {}
  <2>1. \E m \in OfKey(k, n) : \A j \in OfKey(k, n) : j <= m
      BY <1>1, <1>3, LastExists
  <2>2. /\ HeadAt(k, n) \in OfKey(k, n)
        /\ \A j \in OfKey(k, n) : j <= HeadAt(k, n)
      BY <1>3, <2>1 DEF HeadAt
  <2> QED
      BY <1>1, <1>3, <2>2
<1> QED
    BY <1>2, <1>3

\* Nothing that is appended to the ledger moves the head of an earlier position.
LEMMA HeadAtStable ==
    ASSUME NEW k, NEW n \in Nat,
           \A i \in 1..n : reviews'[i] = reviews[i]
    PROVE  HeadAt(k, n)' = HeadAt(k, n)
<1>1. OfKey(k, n)' = OfKey(k, n)
    BY DEF OfKey
<1> QED
    BY <1>1 DEF HeadAt

\* The head of a document version now: the last of its records.
LEMMA HeadIsRecorded ==
    ASSUME reviews \in Seq(Review), NEW k
    PROVE  /\ HeadOf(k) \in 0..Len(reviews)
           /\ HeadOf(k) # 0 => /\ HeadOf(k) \in DOMAIN reviews
                               /\ Key(reviews[HeadOf(k)].request.evidence) = k
           /\ \A j \in DOMAIN reviews :
                 Key(reviews[j].request.evidence) = k => j <= HeadOf(k)
<1>1. Len(reviews) \in Nat /\ DOMAIN reviews = 1..Len(reviews)
    BY LenProperties
<1> QED
    BY <1>1, HeadAtIsLast DEF HeadOf, OfKey

-----------------------------------------------------------------------------
(* The calls behind a step, and what they write.                           *)

LEMMA ReviewRequestsAreRequests ==
    ASSUME reviews \in Seq(Review)
    PROVE  /\ ReviewRequests \subseteq ReviewRequest
           /\ 0..Len(reviews) \subseteq Nat
           /\ ReleaseRequestsUpTo(Len(reviews)) \subseteq ReleaseRequest
<1>1. Len(reviews) \in Nat
    BY LenProperties
<1> QED
    BY <1>1 DEF ReviewRequests, ReleaseRequestsUpTo, ReleaseRequest

\* An accepted review is appended after the others, which stay as they were.
LEMMA AppendReviewWrites ==
    ASSUME reviews \in Seq(Review), NEW rq \in ReviewRequest, NEW a \in Reviewers,
           NEW x \in Nat, AppendReview(rq, a, x)
    PROVE  \E now \in Times :
              LET record == [request |-> rq, reviewer |-> a, recordedAt |-> now,
                             expected |-> x]
              IN  /\ reviews # <<>> => reviews[Len(reviews)].recordedAt <= now
                  /\ CheckTransition(rq, HeadOf(Key(rq.evidence)), now, x)
                  /\ record \in Review
                  /\ reviews' \in Seq(Review)
                  /\ Len(reviews') = Len(reviews) + 1
                  /\ reviews'[Len(reviews) + 1] = record
                  /\ \A i \in 1..Len(reviews) : reviews'[i] = reviews[i]
<1>1. PICK now \in Times :
            /\ reviews # <<>> => reviews[Len(reviews)].recordedAt <= now
            /\ CheckTransition(rq, HeadOf(Key(rq.evidence)), now, x)
            /\ reviews' = Append(reviews, [request |-> rq, reviewer |-> a,
                                           recordedAt |-> now, expected |-> x])
    BY DEF AppendReview
<1>2. [request |-> rq, reviewer |-> a, recordedAt |-> now, expected |-> x] \in Review
    BY DEF Review
<1> QED
    BY <1>1, <1>2, AppendProperties

\* An accepted release is appended with the head it was checked against.
LEMMA CommitReleaseWrites ==
    ASSUME LedgerTypeOK, NEW rq \in ReleaseRequest, CommitRelease(rq)
    PROVE  LET h == HeadOf(Key(rq.evidence))
               record == [request |-> rq, reviewSequence |-> h, revision |-> Len(reviews)]
           IN  /\ h \in 1..Len(reviews)
               /\ record \in Release
               /\ outbox' \in Seq(Release)
               /\ Len(outbox') = Len(outbox) + 1
               /\ outbox'[Len(outbox) + 1] = record
               /\ \A i \in 1..Len(outbox) : outbox'[i] = outbox[i]
<1> DEFINE h == HeadOf(Key(rq.evidence))
           record == [request |-> rq, reviewSequence |-> h, revision |-> Len(reviews)]
<1>1. Len(reviews) \in Nat /\ outbox \in Seq(Release)
    BY LenProperties DEF LedgerTypeOK
<1>2. h \in 1..Len(reviews)
    BY <1>1, HeadIsRecorded DEF CommitRelease, CheckReleaseHead, LedgerTypeOK
<1>3. record \in Release
    BY <1>1, <1>2 DEF Release
<1>4. outbox' = Append(outbox, record)
    BY DEF CommitRelease
<1> HIDE DEF record, h
<1>5. /\ outbox' \in Seq(Release)
      /\ Len(outbox') = Len(outbox) + 1
      /\ outbox'[Len(outbox) + 1] = record
      /\ \A i \in 1..Len(outbox) : outbox'[i] = outbox[i]
    BY <1>1, <1>3, <1>4, AppendProperties
<1> QED
    BY <1>2, <1>3, <1>5 DEF record, h

-----------------------------------------------------------------------------
(* Types.                                                                  *)

LEMMA ReviewCallTypes ==
    ASSUME LedgerTypeOK, NEW rq \in ReviewRequest, NEW a \in Reviewers, NEW x \in Nat,
           AppendReview(rq, a, x) \/ AppendRetry(rq, a, x)
    PROVE  LedgerTypeOK'
<1> USE DEF LedgerTypeOK
<1>1. Len(reviews) \in Nat /\ DOMAIN reviews = 1..Len(reviews)
    BY LenProperties
<1>2. Call(rq, a, x) \in ReviewCall
    BY DEF Call, ReviewCall
<1>3. CASE AppendReview(rq, a, x)
  <2>1. reviews' \in Seq(Review)
      BY <1>3, AppendReviewWrites
  <2>2. reply' \in {NoReply, ReviewReply(Call(rq, a, x), Len(reviews) + 1)}
      BY <1>3 DEF AppendReview, Answer
  <2> QED
      BY <1>1, <1>2, <1>3, <2>1, <2>2 DEF AppendReview, ReviewReply
<1>4. CASE AppendRetry(rq, a, x)
  <2>1. PICK i \in DOMAIN reviews : reply' \in {NoReply, ReviewReply(Call(rq, a, x), i)}
      BY <1>4 DEF AppendRetry, Answer
  <2> QED
      BY <1>1, <1>2, <1>4, <2>1 DEF AppendRetry, ReviewReply
<1> QED
    BY <1>3, <1>4

LEMMA ReleaseCallTypes ==
    ASSUME LedgerTypeOK, NEW rq \in ReleaseRequest, CommitRelease(rq) \/ CommitRetry(rq)
    PROVE  LedgerTypeOK'
<1> USE DEF LedgerTypeOK
<1>1. Len(outbox) \in Nat /\ DOMAIN outbox = 1..Len(outbox)
    BY LenProperties
<1>2. CASE CommitRelease(rq)
  <2>1. outbox' \in Seq(Release)
      BY <1>2, CommitReleaseWrites
  <2>2. reply' \in {NoReply, ReleaseReply(rq, Len(outbox) + 1)}
      BY <1>2 DEF CommitRelease, Answer
  <2> QED
      BY <1>1, <1>2, <2>1, <2>2 DEF CommitRelease, ReleaseReply
<1>3. CASE CommitRetry(rq)
  <2>1. PICK i \in DOMAIN outbox : reply' \in {NoReply, ReleaseReply(rq, i)}
      BY <1>3 DEF CommitRetry, Answer
  <2> QED
      BY <1>1, <1>3, <2>1 DEF CommitRetry, ReleaseReply
<1> QED
    BY <1>2, <1>3

LEMMA LedgerInitTypes == ASSUME LedgerInit PROVE LedgerTypeOK
    BY EmptySeq DEF LedgerInit, LedgerTypeOK

LEMMA LedgerStepTypes ==
    ASSUME LedgerTypeOK, [LedgerNext]_ledgerVars
    PROVE  LedgerTypeOK'
<1>1. CASE ReviewStep
    BY <1>1, ReviewRequestsAreRequests, ReviewCallTypes DEF ReviewStep, LedgerTypeOK
<1>2. CASE ReleaseStep
    BY <1>2, ReviewRequestsAreRequests, ReleaseCallTypes DEF ReleaseStep, LedgerTypeOK
<1>3. CASE UNCHANGED ledgerVars
    BY <1>3 DEF ledgerVars, LedgerTypeOK
<1> QED
    BY <1>1, <1>2, <1>3 DEF LedgerNext

\* The ledger's variables keep their types, however many reviewers, reviews,
\* releases and document versions there are.
THEOREM LedgerTypes == LedgerSpec => []LedgerTypeOK
<1>1. LedgerInit => LedgerTypeOK
    BY LedgerInitTypes
<1>2. LedgerTypeOK /\ [LedgerNext]_ledgerVars => LedgerTypeOK'
    BY LedgerStepTypes
<1> QED
    BY <1>1, <1>2, PTL DEF LedgerSpec

-----------------------------------------------------------------------------
(* The store loads: what a step appends is valid, and it leaves the        *)
(* validity of every earlier record alone.                                 *)

\* A review, and a review accepted before it, as a later step sees them.
LEMMA ValidReviewStable ==
    ASSUME LedgerTypeOK, NEW i \in 1..Len(reviews), ValidReview(i),
           \A j \in 1..Len(reviews) : reviews'[j] = reviews[j]
    PROVE  ValidReview(i)'
<1>1. PICK r : r = reviews[i]
    OBVIOUS
<1>2. i \in Nat /\ i - 1 \in Nat /\ \A j \in 1..i : reviews'[j] = reviews[j]
    BY LenProperties DEF LedgerTypeOK
<1>3. HeadAt(Key(r.request.evidence), i - 1)' = HeadAt(Key(r.request.evidence), i - 1)
    BY <1>2, HeadAtStable
<1>4. PICK h : h = HeadAt(Key(r.request.evidence), i - 1)
    OBVIOUS
<1>5. h \in 0..(i - 1)
    BY <1>2, <1>4, HeadAtIsLast
<1>6. h # 0 => reviews'[h] = reviews[h]
    BY <1>2, <1>5
<1>7. reviews'[i] = r /\ \A j \in 1..(i - 1) : reviews'[j] = reviews[j]
    BY <1>1, <1>2
<1>8. CheckTransition(r.request, h, r.recordedAt, r.expected)
    BY <1>1, <1>4 DEF ValidReview
<1>9. CheckTransition(r.request, h, r.recordedAt, r.expected)'
    BY <1>6, <1>8 DEF CheckTransition
<1>10. CheckTransition(r.request, HeadAt(Key(r.request.evidence), i - 1), r.recordedAt, r.expected)'
    BY <1>3, <1>4, <1>9
<1>11. \A j \in 1..(i - 1) :
          /\ reviews[j].request.id # r.request.id
          /\ reviews[j].recordedAt <= r.recordedAt
          /\ SameIdentity(reviews[j].request.evidence, r.request.evidence)
    BY <1>1 DEF ValidReview
<1> QED
    BY <1>7, <1>10, <1>11 DEF ValidReview

LEMMA AppendKeepsLedger ==
    ASSUME LedgerTypeOK, NEW rq \in ReviewRequest, NEW a \in Reviewers, NEW x \in Nat,
           AppendReview(rq, a, x)
    PROVE  ValidLedger'
<1>1. PICK n \in Nat : n = Len(reviews) /\ DOMAIN reviews = 1..n
    BY LenProperties DEF LedgerTypeOK
<1>2. PICK now \in Times :
        LET record == [request |-> rq, reviewer |-> a, recordedAt |-> now, expected |-> x]
        IN  /\ reviews # <<>> => reviews[n].recordedAt <= now
            /\ CheckTransition(rq, HeadOf(Key(rq.evidence)), now, x)
            /\ reviews' \in Seq(Review)
            /\ Len(reviews') = n + 1
            /\ reviews'[n + 1] = record
            /\ \A i \in 1..n : reviews'[i] = reviews[i]
    BY <1>1, AppendReviewWrites DEF LedgerTypeOK
<1>3. DOMAIN reviews' = 1..(n + 1)
    BY <1>2, LenProperties
<1>4. ValidLedger
    BY DEF AppendReview
<1>5. \A i \in 1..n : ValidReview(i)'
    BY <1>1, <1>2, <1>4, ValidReviewStable DEF ValidLedger
<1>6. ValidReview(n + 1)'
  <2>1. HeadAt(Key(rq.evidence), n)' = HeadOf(Key(rq.evidence))
      BY <1>1, <1>2, HeadAtStable DEF HeadOf
  <2>2. PICK h : h = HeadOf(Key(rq.evidence))
      OBVIOUS
  <2>3. h # 0 => reviews'[h] = reviews[h]
      BY <1>1, <1>2, <2>2, HeadIsRecorded DEF LedgerTypeOK
  <2>4. CheckTransition(rq, h, now, x)'
      BY <1>2, <2>2, <2>3 DEF CheckTransition
  <2>5. \A j \in 1..n : reviews'[j].request.id # rq.id
      BY <1>1, <1>2 DEF AppendReview
  <2>6. \A j \in 1..n : SameIdentity(reviews'[j].request.evidence, rq.evidence)
      BY <1>1, <1>2 DEF AppendReview
  <2>7. \A j \in 1..n : reviews'[j].recordedAt <= now
    <3> TAKE j \in 1..n
    <3>1. n \in DOMAIN reviews /\ j \in DOMAIN reviews
        BY <1>1
    <3>2. reviews # <<>>
        BY <3>1
    <3>3. reviews[j] \in Review /\ reviews[n] \in Review
        BY <1>1, <3>1, ElementOfSeq DEF LedgerTypeOK
    <3>4. /\ reviews[j].recordedAt \in Times
          /\ reviews[n].recordedAt \in Times
        BY <3>3 DEF Review
    <3>5. reviews[n].recordedAt <= now
        BY <1>2, <3>2
    <3>6. CASE j = n
        BY <1>2, <3>5, <3>6
    <3>7. CASE j < n
      <4>1. reviews[j].recordedAt <= reviews[n].recordedAt
          BY <1>4, <3>1, <3>7 DEF ValidLedger, ValidReview
      <4> QED
          BY <1>2, <3>4, <3>5, <4>1, TimesAreNumbers
    <3> QED
        BY <1>1, <3>6, <3>7
  <2> QED
      BY <1>2, <2>1, <2>2, <2>4, <2>5, <2>6, <2>7 DEF ValidReview
<1> QED
    BY <1>3, <1>5, <1>6 DEF ValidLedger

LEMMA ValidReleaseStable ==
    ASSUME LedgerTypeOK, NEW i \in 1..Len(outbox), ValidRelease(i),
           reviews' \in Seq(Review), Len(reviews) <= Len(reviews'),
           \A j \in 1..Len(reviews) : reviews'[j] = reviews[j],
           \A j \in 1..Len(outbox) : outbox'[j] = outbox[j]
    PROVE  ValidRelease(i)'
<1>1. PICK r : r = outbox[i]
    OBVIOUS
<1>2. /\ Len(reviews) \in Nat /\ Len(reviews') \in Nat
      /\ i \in Nat /\ \A j \in 1..i : outbox'[j] = outbox[j]
    BY LenProperties DEF LedgerTypeOK
<1>3. r.revision \in 1..Len(reviews) /\ r.revision \in 1..Len(reviews')
    BY <1>1, <1>2 DEF ValidRelease
<1>4. HeadAt(Key(r.request.evidence), r.revision)' = HeadAt(Key(r.request.evidence), r.revision)
  <2>1. r.revision \in Nat /\ \A j \in 1..r.revision : reviews'[j] = reviews[j]
      BY <1>2, <1>3
  <2> QED
      BY <2>1, HeadAtStable
<1>5. HeadAt(Key(r.request.evidence), r.revision) \in 0..r.revision
    BY <1>2, <1>3, HeadAtIsLast
<1>6. r.reviewSequence # 0 => reviews'[r.reviewSequence] = reviews[r.reviewSequence]
    BY <1>1, <1>2, <1>3, <1>5 DEF ValidRelease
<1>7. outbox'[i] = r
    BY <1>1, <1>2
<1>8. CheckReleaseHead(r.request, r.reviewSequence)'
    BY <1>1, <1>6 DEF ValidRelease, CheckReleaseHead
<1>9. \A j \in 1..(i - 1) :
          outbox'[j].request.id # r.request.id /\ outbox'[j].revision <= r.revision
    BY <1>1, <1>2 DEF ValidRelease
<1>10. r.reviewSequence = HeadAt(Key(r.request.evidence), r.revision)
    BY <1>1 DEF ValidRelease
<1> QED
    BY <1>3, <1>4, <1>7, <1>8, <1>9, <1>10 DEF ValidRelease

LEMMA AppendKeepsOutbox ==
    ASSUME LedgerTypeOK, ValidOutbox, NEW rq \in ReviewRequest, NEW a \in Reviewers,
           NEW x \in Nat, AppendReview(rq, a, x)
    PROVE  ValidOutbox'
<1>1. /\ reviews' \in Seq(Review) /\ Len(reviews') = Len(reviews) + 1
      /\ \A i \in 1..Len(reviews) : reviews'[i] = reviews[i]
    BY AppendReviewWrites DEF LedgerTypeOK
<1>2. outbox' = outbox
    BY DEF AppendReview
<1>3. Len(reviews) \in Nat /\ DOMAIN outbox = 1..Len(outbox)
    BY LenProperties DEF LedgerTypeOK
<1> QED
    BY <1>1, <1>2, <1>3, ValidReleaseStable DEF ValidOutbox

LEMMA CommitKeepsStore ==
    ASSUME LedgerTypeOK, NEW rq \in ReleaseRequest, CommitRelease(rq)
    PROVE  ValidLedger' /\ ValidOutbox'
<1>1. PICK n \in Nat : n = Len(outbox) /\ DOMAIN outbox = 1..n
    BY LenProperties DEF LedgerTypeOK
<1>2. PICK h : h = HeadOf(Key(rq.evidence))
    OBVIOUS
<1>3. PICK v : v = Len(reviews)
    OBVIOUS
<1>4. /\ v \in Nat /\ h \in 1..v
      /\ outbox' \in Seq(Release)
      /\ Len(outbox') = n + 1
      /\ outbox'[n + 1] = [request |-> rq, reviewSequence |-> h, revision |-> v]
      /\ \A i \in 1..n : outbox'[i] = outbox[i]
    BY <1>1, <1>2, <1>3, CommitReleaseWrites, LenProperties DEF LedgerTypeOK
<1>5. /\ reviews' = reviews /\ ValidLedger /\ ValidOutbox
      /\ CheckReleaseHead(rq, h)
      /\ \A i \in 1..n : outbox[i].request.id # rq.id
    BY <1>1, <1>2 DEF CommitRelease
<1>6. ValidLedger'
  <2>1. \A i \in 1..Len(reviews) : ValidReview(i)'
      BY <1>5, ValidReviewStable, LenProperties DEF ValidLedger, LedgerTypeOK
  <2> QED
      BY <1>5, <2>1, LenProperties DEF ValidLedger, LedgerTypeOK
<1>7. \A i \in 1..n : ValidRelease(i)'
    BY <1>1, <1>3, <1>4, <1>5, ValidReleaseStable DEF ValidOutbox, LedgerTypeOK
<1>8. ValidRelease(n + 1)'
  <2>1. HeadAt(Key(rq.evidence), v)' = h
      BY <1>2, <1>3, <1>4, <1>5, HeadAtStable DEF HeadOf
  <2>2. CheckReleaseHead(rq, h)'
      BY <1>5 DEF CheckReleaseHead
  <2>3. \A j \in 1..n : outbox'[j].revision <= v /\ outbox'[j].request.id # rq.id
      BY <1>1, <1>3, <1>4, <1>5 DEF ValidOutbox, ValidRelease
  <2>4. v \in 1..Len(reviews')
      BY <1>3, <1>4, <1>5
  <2> QED
      BY <1>4, <2>1, <2>2, <2>3, <2>4 DEF ValidRelease
<1>9. DOMAIN outbox' = 1..(n + 1)
    BY <1>4, LenProperties
<1> QED
    BY <1>6, <1>7, <1>8, <1>9 DEF ValidOutbox

LEMMA LedgerUnchangedLoads ==
    ASSUME UNCHANGED <<reviews, outbox>>
    PROVE  /\ ValidLedger' <=> ValidLedger
           /\ ValidOutbox' <=> ValidOutbox
<1>1. \A k, n : HeadAt(k, n)' = HeadAt(k, n)
    BY DEF HeadAt, OfKey
<1>2. \A i : ValidReview(i)' <=> ValidReview(i)
  <2> TAKE i
  <2>1. \A rq, h, now, x : CheckTransition(rq, h, now, x)' <=> CheckTransition(rq, h, now, x)
      BY DEF CheckTransition
  <2> QED
      BY <1>1, <2>1 DEF ValidReview
<1>3. \A i : ValidRelease(i)' <=> ValidRelease(i)
  <2> TAKE i
  <2>1. \A rq, h : CheckReleaseHead(rq, h)' <=> CheckReleaseHead(rq, h)
      BY DEF CheckReleaseHead
  <2> QED
      BY <1>1, <2>1 DEF ValidRelease
<1> QED
    BY <1>2, <1>3 DEF ValidLedger, ValidOutbox

LEMMA LedgerStepLoads ==
    ASSUME LedgerTypeOK, StoreLoads, [LedgerNext]_ledgerVars
    PROVE  StoreLoads'
<1> USE DEF StoreLoads
<1>1. CASE ReviewStep
  <2>1. PICK rq \in ReviewRequest, a \in Reviewers, x \in Nat :
            AppendReview(rq, a, x) \/ AppendRetry(rq, a, x)
      BY <1>1, ReviewRequestsAreRequests DEF ReviewStep, LedgerTypeOK
  <2> QED
      BY <2>1, AppendKeepsLedger, AppendKeepsOutbox, LedgerUnchangedLoads DEF AppendRetry
<1>2. CASE ReleaseStep
  <2>1. PICK rq \in ReleaseRequest : CommitRelease(rq) \/ CommitRetry(rq)
      BY <1>2, ReviewRequestsAreRequests DEF ReleaseStep, LedgerTypeOK
  <2> QED
      BY <2>1, CommitKeepsStore, LedgerUnchangedLoads DEF CommitRetry
<1>3. CASE UNCHANGED ledgerVars
    BY <1>3, LedgerUnchangedLoads DEF ledgerVars
<1> QED
    BY <1>1, <1>2, <1>3 DEF LedgerNext

\* The inductive invariant: types, and a history that the loader accepts.
LedgerInv == LedgerTypeOK /\ StoreLoads

THEOREM LedgerInvariant == LedgerSpec => []LedgerInv
<1>1. LedgerInit => LedgerInv
    BY LedgerInitTypes DEF LedgerInit, LedgerInv, StoreLoads, ValidLedger, ValidOutbox
<1>2. LedgerInv /\ [LedgerNext]_ledgerVars => LedgerInv'
    BY LedgerStepTypes, LedgerStepLoads DEF LedgerInv
<1> QED
    BY <1>1, <1>2, PTL DEF LedgerSpec

\* The writers never record a history that the loader refuses, so no legal
\* sequence of calls ever blocks the store (`_load`, sqlite_review_store.py).
THEOREM LedgerAlwaysLoads == LedgerSpec => []StoreLoads
    BY LedgerInvariant, PTL DEF LedgerInv

-----------------------------------------------------------------------------
(* What a valid history says of reviews and releases.                      *)

\* In a valid history the review that another one supersedes is the last of
\* its document version before it.
LEMMA SupersedesHead ==
    ASSUME LedgerInv, NEW j \in DOMAIN reviews, NEW i \in 1..(j - 1),
           Key(reviews[i].request.evidence) = Key(reviews[j].request.evidence)
    PROVE  \E h \in i..(j - 1) :
              /\ Key(reviews[h].request.evidence) = Key(reviews[j].request.evidence)
              /\ reviews[j].request.supersedes = reviews[h].request.id
<1>1. /\ j \in Nat /\ j - 1 \in Nat /\ i \in Nat /\ i <= j - 1
      /\ DOMAIN reviews = 1..Len(reviews)
    BY LenProperties DEF LedgerInv, LedgerTypeOK
<1>2. PICK k : k = Key(reviews[j].request.evidence)
    OBVIOUS
<1>3. PICK h : h = HeadAt(k, j - 1)
    OBVIOUS
<1>4. i \in OfKey(k, j - 1)
    BY <1>1, <1>2 DEF OfKey
<1>5. h \in OfKey(k, j - 1) /\ i <= h /\ h # 0
    BY <1>1, <1>3, <1>4, HeadAtIsLast
<1>6. h \in i..(j - 1) /\ Key(reviews[h].request.evidence) = k
    BY <1>1, <1>5 DEF OfKey
<1>7. reviews[j].request.supersedes = reviews[h].request.id
    BY <1>2, <1>3, <1>5 DEF LedgerInv, StoreLoads, ValidLedger, ValidReview, CheckTransition
<1> QED
    BY <1>2, <1>6, <1>7

LEMMA InvImpliesLinearChain == ASSUME LedgerInv PROVE LinearReviewChain
<1> SUFFICES ASSUME NEW i \in DOMAIN reviews, NEW j \in DOMAIN reviews, i < j,
                    Key(reviews[i].request.evidence) = Key(reviews[j].request.evidence)
             PROVE  /\ reviews[i].request.supersedes # reviews[j].request.supersedes
                    /\ reviews[j].request.supersedes # NoId
    BY DEF LinearReviewChain
<1>1. DOMAIN reviews = 1..Len(reviews) /\ Len(reviews) \in Nat
    BY LenProperties DEF LedgerInv, LedgerTypeOK
<1>2. i \in Nat /\ j \in Nat /\ i \in 1..(j - 1)
    BY <1>1
<1>3. PICK h \in i..(j - 1) : reviews[j].request.supersedes = reviews[h].request.id
    BY <1>2, SupersedesHead
<1>4. h \in DOMAIN reviews /\ h \in Nat /\ i <= h
    BY <1>1, <1>2, <1>3
<1>5. reviews[h].request.id \in ReviewIds
  <2>1. reviews[h] \in Review
      BY <1>1, <1>4, ElementOfSeq DEF LedgerInv, LedgerTypeOK
  <2> QED
      BY <2>1 DEF Review, ReviewRequest
<1>6. reviews[j].request.supersedes # NoId
    BY <1>3, <1>5, LedgerConstants DEF LedgerConstants
<1>7. ASSUME reviews[i].request.supersedes = reviews[h].request.id PROVE FALSE
  <2>1. PICK g : g = HeadAt(Key(reviews[i].request.evidence), i - 1)
      OBVIOUS
  <2>2. g \in 0..(i - 1)
      BY <1>1, <1>2, <2>1, HeadAtIsLast
  <2>3. reviews[i].request.supersedes = IF g = 0 THEN NoId ELSE reviews[g].request.id
      BY <2>1 DEF LedgerInv, StoreLoads, ValidLedger, ValidReview, CheckTransition
  <2>4. g # 0
      BY <1>5, <1>7, <2>3, LedgerConstants DEF LedgerConstants
  <2>5. g \in 1..(h - 1)
      BY <1>2, <1>4, <2>2, <2>4
  <2>6. reviews[g].request.id # reviews[h].request.id
      BY <1>4, <2>5 DEF LedgerInv, StoreLoads, ValidLedger, ValidReview
  <2> QED
      BY <1>7, <2>3, <2>4, <2>6
<1> QED
    BY <1>3, <1>6, <1>7

\* For every document version, no two of its reviews supersede the same one:
\* racing reviewers cannot fork the chain.
THEOREM ReviewsFormChains == LedgerSpec => []LinearReviewChain
<1>1. LedgerInv => LinearReviewChain
    BY InvImpliesLinearChain
<1> QED
    BY <1>1, LedgerInvariant, PTL

LEMMA InvImpliesStanding == ASSUME LedgerInv PROVE ReleasedUnderStandingApproval
<1> SUFFICES ASSUME NEW i \in DOMAIN outbox, NEW r, NEW n, NEW v,
                    r = outbox[i].request, n = outbox[i].reviewSequence,
                    v = outbox[i].revision
             PROVE  /\ n \in 1..v /\ v <= Len(reviews)
                    /\ reviews[n].request.verdict = "approved"
                    /\ reviews[n].request.evidence = r.evidence
                    /\ \A j \in (n + 1)..v :
                          Key(reviews[j].request.evidence) # Key(r.evidence)
    BY DEF ReleasedUnderStandingApproval
<1>0. v \in 1..Len(reviews)
    BY DEF LedgerInv, StoreLoads, ValidOutbox, ValidRelease
<1>1. /\ n = HeadAt(Key(r.evidence), v)
      /\ n # 0 /\ reviews[n].request.verdict = "approved"
      /\ r.evidence = reviews[n].request.evidence
    BY DEF LedgerInv, StoreLoads, ValidOutbox, ValidRelease, CheckReleaseHead
<1>2. Len(reviews) \in Nat /\ v \in Nat /\ v <= Len(reviews)
    BY <1>0, LenProperties DEF LedgerInv, LedgerTypeOK
<1>3. n \in 0..v /\ \A j \in OfKey(Key(r.evidence), v) : j <= n
    BY <1>1, <1>2, HeadAtIsLast
<1>4. ASSUME NEW j \in (n + 1)..v PROVE Key(reviews[j].request.evidence) # Key(r.evidence)
  <2>1. j \in 1..v /\ ~(j <= n)
      BY <1>2, <1>3
  <2> QED
      BY <1>3, <2>1 DEF OfKey
<1>5. n \in 1..v /\ v <= Len(reviews)
  <2>1. n \in 0..v /\ n # 0
      BY <1>1, <1>3
  <2> QED
      BY <1>2, <2>1
<1> QED
    BY <1>1, <1>4, <1>5

\* Every release was made under an approval of exactly its evidence that was, at
\* that revision, the last word on its document version.
THEOREM ReleasesAreApproved == LedgerSpec => []ReleasedUnderStandingApproval
<1>1. LedgerInv => ReleasedUnderStandingApproval
    BY InvImpliesStanding
<1> QED
    BY <1>1, LedgerInvariant, PTL

-----------------------------------------------------------------------------
(* Answers, and what a step may never do.                                  *)

LEMMA ReviewCallReply ==
    ASSUME LedgerTypeOK, NEW rq \in ReviewRequest, NEW a \in Reviewers, NEW x \in Nat,
           AppendReview(rq, a, x) \/ AppendRetry(rq, a, x)
    PROVE  ReplyMatchesStore'
<1>1. CASE AppendReview(rq, a, x)
  <2>1. PICK n \in Nat : n = Len(reviews)
      BY LenProperties DEF LedgerTypeOK
  <2>2. PICK now \in Times :
            reviews'[n + 1] = [request |-> rq, reviewer |-> a, recordedAt |-> now,
                               expected |-> x]
    <3>1. PICK now \in Times :
            LET record == [request |-> rq, reviewer |-> a, recordedAt |-> now,
                           expected |-> x]
            IN  reviews'[Len(reviews) + 1] = record
        BY <1>1, AppendReviewWrites DEF LedgerTypeOK
    <3> QED
        BY <2>1, <3>1
  <2>3. reviews' \in Seq(Review) /\ Len(reviews') = n + 1
      BY <1>1, <2>1, AppendReviewWrites DEF LedgerTypeOK
  <2>4. n + 1 \in DOMAIN reviews'
      BY <2>3, LenProperties
  <2>5. reply' \in {NoReply, ReviewReply(Call(rq, a, x), n + 1)}
      BY <1>1, <2>1 DEF AppendReview, Answer
  <2>6. CASE reply' = NoReply
      BY <2>6 DEF ReplyMatchesStore, NoReply
  <2>7. CASE reply' = ReviewReply(Call(rq, a, x), n + 1)
    <3>1. /\ reply'.kind = "review" /\ reply'.sequence = n + 1
          /\ reply'.call = Call(rq, a, x)
        BY <2>7 DEF ReviewReply
    <3>2. Call(reviews'[n + 1].request, reviews'[n + 1].reviewer, reviews'[n + 1].expected)
            = Call(rq, a, x)
        BY <2>2
    <3> QED
        BY <2>4, <3>1, <3>2 DEF ReplyMatchesStore
  <2> QED
      BY <2>5, <2>6, <2>7
<1>2. CASE AppendRetry(rq, a, x)
  <2>1. PICK i \in DOMAIN reviews :
            /\ Call(reviews[i].request, reviews[i].reviewer, reviews[i].expected) = Call(rq, a, x)
            /\ reply' \in {NoReply, ReviewReply(Call(rq, a, x), i)}
      BY <1>2 DEF AppendRetry, Answer
  <2>2. reviews' = reviews
      BY <1>2 DEF AppendRetry
  <2> QED
      BY <2>1, <2>2 DEF ReplyMatchesStore, ReviewReply, NoReply
<1> QED
    BY <1>1, <1>2

LEMMA ReleaseCallReply ==
    ASSUME LedgerTypeOK, NEW rq \in ReleaseRequest, CommitRelease(rq) \/ CommitRetry(rq)
    PROVE  ReplyMatchesStore'
<1>1. CASE CommitRelease(rq)
  <2>1. PICK n \in Nat : n = Len(outbox)
      BY LenProperties DEF LedgerTypeOK
  <2>2. outbox'[n + 1].request = rq
    <3>1. outbox'[Len(outbox) + 1] = [request |-> rq,
                                      reviewSequence |-> HeadOf(Key(rq.evidence)),
                                      revision |-> Len(reviews)]
        BY <1>1, CommitReleaseWrites
    <3> QED
        BY <2>1, <3>1
  <2>3. outbox' \in Seq(Release) /\ Len(outbox') = n + 1
      BY <1>1, <2>1, CommitReleaseWrites
  <2>4. n + 1 \in DOMAIN outbox'
      BY <2>3, LenProperties
  <2>5. reply' \in {NoReply, ReleaseReply(rq, n + 1)}
      BY <1>1, <2>1 DEF CommitRelease, Answer
  <2>6. CASE reply' = NoReply
      BY <2>6 DEF ReplyMatchesStore, NoReply
  <2>7. CASE reply' = ReleaseReply(rq, n + 1)
    <3>1. reply'.kind = "release" /\ reply'.sequence = n + 1 /\ reply'.request = rq
        BY <2>7 DEF ReleaseReply
    <3> QED
        BY <2>2, <2>4, <3>1 DEF ReplyMatchesStore
  <2> QED
      BY <2>5, <2>6, <2>7
<1>2. CASE CommitRetry(rq)
  <2>1. PICK i \in DOMAIN outbox : /\ outbox[i].request = rq
                                   /\ reply' \in {NoReply, ReleaseReply(rq, i)}
      BY <1>2 DEF CommitRetry, Answer
  <2>2. outbox' = outbox
      BY <1>2 DEF CommitRetry
  <2> QED
      BY <2>1, <2>2 DEF ReplyMatchesStore, ReleaseReply, NoReply
<1> QED
    BY <1>1, <1>2

LEMMA LedgerStepReply ==
    ASSUME LedgerTypeOK, ReplyMatchesStore, [LedgerNext]_ledgerVars
    PROVE  ReplyMatchesStore'
<1>1. CASE ReviewStep
    BY <1>1, ReviewRequestsAreRequests, ReviewCallReply DEF ReviewStep, LedgerTypeOK
<1>2. CASE ReleaseStep
    BY <1>2, ReviewRequestsAreRequests, ReleaseCallReply DEF ReleaseStep, LedgerTypeOK
<1>3. CASE UNCHANGED ledgerVars
    BY <1>3 DEF ledgerVars, ReplyMatchesStore
<1> QED
    BY <1>1, <1>2, <1>3 DEF LedgerNext

\* An answer always names a record of exactly what was asked, whether it is the
\* first or that of a retry after a lost answer or a later revocation.
THEOREM RepliesMatch == LedgerSpec => []ReplyMatchesStore
<1>1. LedgerInit => ReplyMatchesStore
    BY DEF LedgerInit, ReplyMatchesStore, NoReply
<1>2. LedgerTypeOK /\ ReplyMatchesStore /\ [LedgerNext]_ledgerVars => ReplyMatchesStore'
    BY LedgerStepReply
<1> QED
    BY <1>1, <1>2, LedgerTypes, PTL DEF LedgerSpec

\* A review that supersedes the head of k comes after it, so there is none yet.
LEMMA HeadIsNotSuperseded ==
    ASSUME LedgerInv, NEW k, HeadOf(k) # 0, NEW j \in DOMAIN reviews
    PROVE  reviews[j].request.supersedes # reviews[HeadOf(k)].request.id
<1> SUFFICES ASSUME reviews[j].request.supersedes = reviews[HeadOf(k)].request.id
             PROVE  FALSE
    OBVIOUS
<1>1. PICK h : h = HeadOf(k)
    OBVIOUS
<1>2. DOMAIN reviews = 1..Len(reviews) /\ Len(reviews) \in Nat
    BY LenProperties DEF LedgerInv, LedgerTypeOK
<1>3. /\ h \in DOMAIN reviews /\ Key(reviews[h].request.evidence) = k
      /\ \A i \in DOMAIN reviews : Key(reviews[i].request.evidence) = k => i <= h
    BY <1>1, HeadIsRecorded DEF LedgerInv, LedgerTypeOK
<1>4. reviews[h].request.id \in ReviewIds
  <2>1. reviews[h] \in Review
      BY <1>3, ElementOfSeq DEF LedgerInv, LedgerTypeOK
  <2> QED
      BY <2>1 DEF Review, ReviewRequest
<1>5. PICK g : g = HeadAt(Key(reviews[j].request.evidence), j - 1)
    OBVIOUS
<1>6. j \in Nat /\ j - 1 \in Nat
    BY <1>2
<1>7. reviews[j].request.supersedes = IF g = 0 THEN NoId ELSE reviews[g].request.id
    BY <1>5 DEF LedgerInv, StoreLoads, ValidLedger, ValidReview, CheckTransition
<1>8. g # 0 /\ reviews[g].request.id = reviews[h].request.id
    BY <1>1, <1>4, <1>7, LedgerConstants DEF LedgerConstants
<1>9. g \in OfKey(Key(reviews[j].request.evidence), j - 1)
    BY <1>5, <1>6, <1>8, HeadAtIsLast
<1>10. /\ g \in 1..(j - 1) /\ g \in DOMAIN reviews
       /\ Key(reviews[g].request.evidence) = Key(reviews[j].request.evidence)
    BY <1>2, <1>6, <1>9 DEF OfKey
<1>11. g = h
  <2>1. g \in Nat /\ h \in Nat
      BY <1>2, <1>3, <1>10
  <2>2. ASSUME g < h PROVE FALSE
    <3>1. g \in 1..(h - 1)
        BY <1>10, <2>1, <2>2
    <3> QED
        BY <1>3, <1>8, <3>1 DEF LedgerInv, StoreLoads, ValidLedger, ValidReview
  <2>3. ASSUME h < g PROVE FALSE
    <3>1. h \in 1..(g - 1)
        BY <1>2, <1>3, <2>1, <2>3
    <3> QED
        BY <1>8, <1>10, <3>1 DEF LedgerInv, StoreLoads, ValidLedger, ValidReview
  <2> QED
      BY <2>1, <2>2, <2>3
<1>12. j <= h
    BY <1>3, <1>10, <1>11
<1>13. h <= j - 1
    BY <1>6, <1>10, <1>11
<1> QED
    BY <1>2, <1>3, <1>6, <1>12, <1>13

\* Recorded reviews and releases stay, and no release is added once a review has
\* superseded the approval it names.
THEOREM RevocationStopsReleases == LedgerSpec => NoReleaseAfterRevocation
<1> DEFINE Step ==
        /\ \A i \in DOMAIN reviews : i \in DOMAIN reviews' /\ reviews'[i] = reviews[i]
        /\ \A i \in DOMAIN outbox : i \in DOMAIN outbox' /\ outbox'[i] = outbox[i]
        /\ \A i \in DOMAIN outbox' \ DOMAIN outbox, j \in DOMAIN reviews :
              reviews[j].request.supersedes # reviews[outbox'[i].reviewSequence].request.id
<1>1. ASSUME LedgerInv, LedgerNext PROVE Step
  <2>1. PICK n \in Nat, v \in Nat : /\ n = Len(outbox) /\ DOMAIN outbox = 1..n
                                    /\ v = Len(reviews) /\ DOMAIN reviews = 1..v
      BY <1>1, LenProperties DEF LedgerInv, LedgerTypeOK
  <2>2. CASE ReviewStep
    <3>1. PICK rq \in ReviewRequest, a \in Reviewers, x \in Nat :
              AppendReview(rq, a, x) \/ AppendRetry(rq, a, x)
        BY <1>1, <2>2, ReviewRequestsAreRequests DEF ReviewStep, LedgerInv, LedgerTypeOK
    <3>2. CASE AppendReview(rq, a, x)
      <4>1. /\ reviews' \in Seq(Review) /\ Len(reviews') = v + 1
            /\ \A i \in 1..v : reviews'[i] = reviews[i]
          BY <1>1, <2>1, <3>2, AppendReviewWrites DEF LedgerInv, LedgerTypeOK
      <4>2. DOMAIN reviews' = 1..(v + 1)
          BY <4>1, LenProperties
      <4> QED
          BY <2>1, <3>2, <4>1, <4>2 DEF AppendReview
    <3> QED
        BY <3>1, <3>2 DEF AppendRetry
  <2>3. CASE ReleaseStep
    <3>1. PICK rq \in ReleaseRequest : CommitRelease(rq) \/ CommitRetry(rq)
        BY <1>1, <2>3, ReviewRequestsAreRequests DEF ReleaseStep, LedgerInv, LedgerTypeOK
    <3>2. CASE CommitRelease(rq)
      <4>1. PICK k, h : k = Key(rq.evidence) /\ h = HeadOf(k)
          OBVIOUS
      <4>2. /\ outbox' \in Seq(Release) /\ Len(outbox') = n + 1
            /\ outbox'[n + 1] = [request |-> rq, reviewSequence |-> h, revision |-> v]
            /\ h \in 1..v
            /\ \A i \in 1..n : outbox'[i] = outbox[i]
          BY <1>1, <2>1, <3>2, <4>1, CommitReleaseWrites DEF LedgerInv
      <4>3. DOMAIN outbox' = 1..(n + 1)
          BY <4>2, LenProperties
      <4>4. \A j \in DOMAIN reviews : reviews[j].request.supersedes # reviews[h].request.id
          BY <1>1, <4>1, <4>2, HeadIsNotSuperseded
      <4>5. reviews' = reviews
          BY <3>2 DEF CommitRelease
      <4>6. DOMAIN outbox' \ DOMAIN outbox = {n + 1}
          BY <2>1, <4>3
      <4>7. \A j \in DOMAIN reviews :
                reviews[j].request.supersedes # reviews[outbox'[n + 1].reviewSequence].request.id
          BY <4>2, <4>4
      <4>8. \A i \in DOMAIN outbox : i \in DOMAIN outbox' /\ outbox'[i] = outbox[i]
          BY <2>1, <4>2, <4>3
      <4> QED
          BY <4>5, <4>6, <4>7, <4>8
    <3> QED
        BY <3>1, <3>2 DEF CommitRetry
  <2> QED
      BY <1>1, <2>2, <2>3 DEF LedgerNext
<1>2. LedgerInv /\ [LedgerNext]_ledgerVars => [Step]_ledgerVars
    BY <1>1
<1> QED
    BY <1>2, LedgerInvariant, PTL DEF LedgerSpec, NoReleaseAfterRevocation

-----------------------------------------------------------------------------
(* Events.                                                                 *)

\* The last event of an operation, when it has one, is one of the journal's.
LEMMA LastOfIsLast ==
    ASSUME NEW op, NEW n \in Nat
    PROVE  /\ LastOf(op, n) \in 0..n
           /\ LastOf(op, n) = 0 => EventsOf(op, n) = {}
           /\ LastOf(op, n) # 0 => LastOf(op, n) \in EventsOf(op, n)
           /\ \A j \in EventsOf(op, n) : j <= LastOf(op, n)
<1>1. EventsOf(op, n) \in SUBSET (1..n)
    BY DEF EventsOf
<1>2. CASE EventsOf(op, n) = {}
    BY <1>2 DEF LastOf
<1>3. CASE EventsOf(op, n) # {}
  <2>1. \E m \in EventsOf(op, n) : \A j \in EventsOf(op, n) : j <= m
      BY <1>1, <1>3, LastExists
  <2>2. /\ LastOf(op, n) \in EventsOf(op, n)
        /\ \A j \in EventsOf(op, n) : j <= LastOf(op, n)
      BY <1>3, <2>1 DEF LastOf
  <2> QED
      BY <1>1, <1>3, <2>2
<1> QED
    BY <1>2, <1>3

\* A registered operation has a last event.
LEMMA RegisteredHasEvent ==
    ASSUME events \in Seq(Event), ValidJournal(TRUE), NEW op \in Registered
    PROVE  /\ LastOf(op, Len(events)) \in DOMAIN events
           /\ events[LastOf(op, Len(events))] \in Event
<1>1. Len(events) \in Nat /\ DOMAIN events = 1..Len(events)
    BY LenProperties
<1>2. EventsOf(op, Len(events)) # {}
  <2>1. PICK i \in DOMAIN events : events[i].op = op
      BY DEF ValidJournal
  <2> QED
      BY <1>1, <2>1 DEF EventsOf
<1>3. LastOf(op, Len(events)) \in DOMAIN events
    BY <1>1, <1>2, LastOfIsLast
<1> QED
    BY <1>3, ElementOfSeq

\* A fence that was handed out is one of a claim, and claims name a worker.
LEMMA FenceType ==
    ASSUME events \in Seq(Event), ValidJournal(TRUE), NEW f \in Fences
    PROVE  f \in Fence
<1>1. PICK i \in DOMAIN events :
        /\ events[i].kind = "CLAIMED"
        /\ f = [op |-> events[i].op, generation |-> events[i].generation,
                worker |-> events[i].worker]
    BY DEF Fences
<1>2. events[i] \in Event
    BY ElementOfSeq
<1>3. events[i].worker # NoWorker
    BY <1>1 DEF ValidJournal, ValidEvent
<1> QED
    BY <1>1, <1>2, <1>3 DEF Event, Fence

\* From schema 2 on, a store that loads has a valid journal.
LEMMA LoadsJournal ==
    ASSUME schema = 2, Loads(TRUE)
    PROVE  ValidJournal(TRUE)
<1>1. schema >= 2
    OBVIOUS
<1> QED
    BY <1>1 DEF Loads

LEMMA WriteLoads == ASSUME JournalWrite PROVE ValidJournal(TRUE)
    BY LoadsJournal DEF JournalWrite

\* What is appended to the journal has the type of an event.
LEMMA RecordTypes ==
    ASSUME events \in Seq(Event), NEW op \in Operations, NEW kind \in EventKinds,
           NEW generation \in Nat, NEW worker \in Workers \cup {NoWorker},
           Record(op, kind, generation, worker)
    PROVE  events' \in Seq(Event)
<1>1. [op |-> op, kind |-> kind, generation |-> generation, worker |-> worker] \in Event
    BY DEF Event
<1> QED
    BY <1>1, AppendProperties DEF Record

LEMMA RecordNextTypes ==
    ASSUME JournalTypeOK, ValidJournal(TRUE), NEW op \in Registered, NEW kind \in EventKinds,
           RecordNext(op, kind)
    PROVE  events' \in Seq(Event)
<1>1. PICK h : h = events[LastOf(op, Len(events))]
    OBVIOUS
<1>2. h \in Event
    BY <1>1, RegisteredHasEvent DEF JournalTypeOK
<1>3. /\ h.generation \in Nat /\ h.worker \in Workers \cup {NoWorker}
      /\ op \in Operations
    BY <1>2 DEF Event, JournalTypeOK
<1>4. Record(op, kind, h.generation, h.worker)
    BY <1>1 DEF RecordNext
<1> QED
    BY <1>3, <1>4, RecordTypes DEF JournalTypeOK

-----------------------------------------------------------------------------
(* Types.                                                                  *)

LEMMA LedgerTypesStable ==
    ASSUME LedgerTypeOK, UNCHANGED ledgerVars
    PROVE  LedgerTypeOK'
    BY DEF LedgerTypeOK, ledgerVars

LEMMA StoreStepTypes ==
    ASSUME JournalTypeOK, StoreStep
    PROVE  JournalTypeOK'
<1> USE DEF JournalTypeOK, LocalOK
<1>1. ASSUME NEW rq \in ReviewRequest, NEW a \in Reviewers, NEW x \in Nat,
             ReviewWrite(rq, a, x)
      PROVE  JournalTypeOK'
    BY <1>1, ReviewCallTypes DEF ReviewWrite, storeVars, Registered
<1>2. ASSUME NEW rq \in ReleaseRequest, CommitDirectly(rq)
      PROVE  JournalTypeOK'
    BY <1>2, ReleaseCallTypes DEF CommitDirectly, storeVars, Registered
<1>3. CASE MigrateToV2
    BY <1>3, LedgerTypesStable DEF MigrateToV2, Registered
<1>4. CASE MigrateToV3
  <2>1. Len(events) \in Nat /\ Len(outbox) \in Nat
      BY LenProperties DEF LedgerTypeOK
  <2> QED
      BY <1>4, <2>1, LedgerTypesStable DEF MigrateToV3, Registered
<1> QED
    BY <1>1, <1>2, <1>3, <1>4, ReviewRequestsAreRequests DEF StoreStep, LedgerTypeOK

LEMMA RegisterTypes ==
    ASSUME JournalTypeOK, NEW op \in Operations, NEW p \in Principals, NEW intent \in Intent,
           NEW id \in ReleaseIds, Register(op, p, intent, id)
    PROVE  JournalTypeOK'
<1> USE DEF JournalTypeOK, LocalOK
<1>1. [principal |-> p, release |-> id, intent |-> intent] \in IntentRecord
    BY DEF IntentRecord
<1>2. /\ intents' \in [Registered \cup {op} -> IntentRecord]
      /\ Registered' = Registered \cup {op}
    BY <1>1 DEF Register, Registered
<1>3. events' \in Seq(Event)
    BY RecordTypes DEF Register, EventKinds
<1> QED
    BY <1>2, <1>3, LedgerTypesStable DEF Register

LEMMA ClaimTypes ==
    ASSUME JournalTypeOK, NEW op, NEW p, NEW w \in Workers, NEW n \in 1..Len(events),
           Claim(op, p, w, n)
    PROVE  JournalTypeOK'
<1> USE DEF JournalTypeOK, LocalOK
<1>1. events[n] \in Event
    BY LenProperties, ElementOfSeq
<1>2. events[n].generation + 1 \in Nat /\ op \in Operations
    BY <1>1 DEF Claim, Event
<1>3. events' \in Seq(Event)
    BY <1>2, RecordTypes DEF Claim, EventKinds
<1> QED
    BY <1>3, LedgerTypesStable DEF Claim, Registered

LEMMA FailUnderTypes ==
    ASSUME JournalTypeOK, NEW f, FailUnder(f), LocalOK'
    PROVE  JournalTypeOK'
<1> USE DEF JournalTypeOK, LocalOK
<1>1. f.op \in Registered /\ ValidJournal(TRUE)
    BY WriteLoads DEF FailUnder, Fenced
<1>2. events' \in Seq(Event)
    BY <1>1, RecordNextTypes DEF FailUnder, EventKinds
<1> QED
    BY <1>2, LedgerTypesStable DEF FailUnder, Registered

\* Reporting a committed release is a retry of it.
LEMMA ReportIsRetry ==
    ASSUME LedgerTypeOK, NEW op, Report(op)
    PROVE  \E rq \in ReleaseRequestsUpTo(Len(reviews)) : CommitRetry(rq)
<1>1. PICK i \in DOMAIN outbox : Answer(ReleaseReply(outbox[i].request, i))
    BY DEF Report
<1>2. PICK rq : rq = outbox[i].request
    OBVIOUS
<1>3. outbox[i] \in Release /\ rq \in ReleaseRequest
  <2>1. outbox[i] \in Release
      BY ElementOfSeq DEF LedgerTypeOK
  <2> QED
      BY <1>2, <2>1 DEF Release
<1>4. ValidLedger /\ ValidOutbox /\ UNCHANGED <<reviews, outbox>>
    BY DEF Report, Loads
<1>5. rq.expectedReview \in 1..Len(reviews)
  <2>1. PICK v \in 1..Len(reviews) :
            /\ rq.expectedReview = HeadAt(Key(rq.evidence), v)
            /\ rq.expectedReview # 0
      BY <1>2, <1>4 DEF ValidOutbox, ValidRelease, CheckReleaseHead
  <2>2. Len(reviews) \in Nat /\ v \in Nat
      BY LenProperties DEF LedgerTypeOK
  <2>3. rq.expectedReview \in 0..v
      BY <2>1, <2>2, HeadAtIsLast
  <2> QED
      BY <2>1, <2>2, <2>3
<1>6. rq \in ReleaseRequestsUpTo(Len(reviews))
    BY <1>3, <1>5 DEF ReleaseRequest, ReleaseRequestsUpTo
<1>7. CommitRetry(rq)
    BY <1>1, <1>2, <1>4 DEF CommitRetry
<1> QED
    BY <1>6, <1>7

LEMMA ReportTypes ==
    ASSUME JournalTypeOK, NEW op, Report(op)
    PROVE  JournalTypeOK'
<1>1. LedgerTypeOK'
    BY ReportIsRetry, ReviewRequestsAreRequests, ReleaseCallTypes DEF JournalTypeOK, LedgerTypeOK
<1> QED
    BY <1>1 DEF Report, JournalTypeOK, LocalOK, storeVars, Registered

\* A prepared operation has a candidate to commit.
LEMMA PreparedHasCandidate ==
    ASSUME JournalTypeOK, ValidJournal(TRUE), NEW op, State(op) = "PREPARED"
    PROVE  /\ op \in DOMAIN prepared
           /\ prepared[op] \in ReleaseRequest
<1>1. Happened(op, "PREPARED", Len(events))
    BY DEF State, StateAt
<1>2. PICK i \in 1..Len(events) : events[i].op = op
    BY <1>1 DEF Happened, EventsOf
<1>3. op \in Registered
    BY <1>2, LenProperties DEF ValidJournal, JournalTypeOK
<1> QED
    BY <1>1, <1>3 DEF ValidJournal, JournalTypeOK

LEMMA CommitTypes ==
    ASSUME JournalTypeOK, NEW f, Commit(f)
    PROVE  JournalTypeOK'
<1> USE DEF JournalTypeOK, LocalOK
<1>1. f.op \in Registered /\ ValidJournal(TRUE)
    BY WriteLoads DEF Commit, Fenced
<1>2. events' \in Seq(Event)
    BY <1>1, RecordNextTypes DEF Commit, EventKinds
<1>3. PICK rq \in ReleaseRequest : rq = prepared[f.op]
    BY <1>1, PreparedHasCandidate DEF Commit
<1>4. CommitRelease(rq)
    BY <1>3 DEF Commit
<1>5. LedgerTypeOK'
    BY <1>4, ReleaseCallTypes
<1> QED
    BY <1>2, <1>5 DEF Commit, Registered

\* The candidate of an accepted replay names what the intent and the head say.
LEMMA CandidateType ==
    ASSUME LedgerTypeOK, NEW row \in IntentRecord, NEW h \in DOMAIN reviews
    PROVE  Candidate(row, h) \in ReleaseRequest
<1>1. reviews[h] \in Review /\ h \in Nat
    BY ElementOfSeq, LenProperties DEF LedgerTypeOK
<1>2. reviews[h].request.evidence \in Evidence
    BY <1>1 DEF Review, ReviewRequest
<1>3. row.release \in ReleaseIds /\ row.intent.queryTime \in Times /\ row.intent.config \in Payloads
    BY JournalConstants DEF IntentRecord, Intent, JournalConstants
<1> QED
    BY <1>1, <1>2, <1>3 DEF Candidate, ReleaseRequest

\* A process that moves on with an operation that is registered.
LEMMA LocalMoves ==
    ASSUME LocalOK, NEW q \in Processes, NEW l \in Local,
           l # Idle => l.fence.op \in Registered,
           local' = [local EXCEPT ![q] = l], UNCHANGED intents
    PROVE  LocalOK'
    BY DEF LocalOK, Registered

LEMMA PrepareStepTypes ==
    ASSUME JournalTypeOK, NEW q \in Processes, PrepareStep(q)
    PROVE  JournalTypeOK'
<1> USE DEF JournalTypeOK
<1>1. ASSUME NEW l \in Local, l # Idle => l.fence.op \in Registered,
             local' = [local EXCEPT ![q] = l], UNCHANGED <<ledgerVars, storeVars>>
      PROVE  JournalTypeOK'
    BY <1>1, LocalMoves, LedgerTypesStable DEF storeVars, Registered
<1>2. ASSUME NEW f \in Fences, BeginPrepare(q, f) PROVE JournalTypeOK'
  <2>1. Loads(TRUE) /\ schema = 2
      BY <1>2 DEF BeginPrepare
  <2>2. ValidJournal(TRUE)
      BY <2>1, LoadsJournal
  <2>3. [pc |-> "checked", fence |-> f] \in Local
      BY <2>2, FenceType DEF Local
  <2>4. f.op \in Registered
      BY <1>2 DEF BeginPrepare, Fenced
  <2> QED
      BY <1>1, <1>2, <2>3, <2>4 DEF BeginPrepare
<1>3. CASE Resolve(q)
  <2>1. local[q] \in Local /\ local[q].pc = "checked"
      BY <1>3 DEF Resolve, LocalOK
  <2>2. PICK f \in Fence : f = local[q].fence /\ f.op \in Registered
      BY <2>1 DEF Local, Idle, LocalOK
  <2>3. PICK row : row = intents[f.op]
      OBVIOUS
  <2>4. PICK h : h = HeadOf(row.intent.key)
      OBVIOUS
  <2>5. PICK l : l = IF ~EngineAccepts(row.intent.config, row.intent.key, row.intent.queryTime, h)
                     THEN [pc |-> "rejected", fence |-> f]
                     ELSE IF CandidateMatches(f.op, Candidate(row, h))
                     THEN [pc |-> "ready", fence |-> f, candidate |-> Candidate(row, h)]
                     ELSE Idle
      OBVIOUS
  <2>6. local' = [local EXCEPT ![q] = l] /\ UNCHANGED <<ledgerVars, storeVars>>
      BY <1>3, <2>2, <2>3, <2>4, <2>5 DEF Resolve
  <2>7. CASE l = [pc |-> "rejected", fence |-> f]
    <3>1. l \in Local /\ l.fence.op \in Registered
        BY <2>2, <2>7 DEF Local
    <3> QED
        BY <1>1, <2>6, <3>1
  <2>8. CASE l = Idle
    <3>1. l \in Local
        BY <2>8 DEF Local
    <3> QED
        BY <1>1, <2>6, <2>8, <3>1
  <2>9. CASE /\ EngineAccepts(row.intent.config, row.intent.key, row.intent.queryTime, h)
             /\ l = [pc |-> "ready", fence |-> f, candidate |-> Candidate(row, h)]
    <3>1. h \in DOMAIN reviews
        BY <2>4, <2>9, HeadIsRecorded DEF EngineAccepts, LedgerTypeOK
    <3>2. row \in IntentRecord
        BY <2>2, <2>3
    <3>3. l \in Local /\ l.fence.op \in Registered
        BY <2>2, <2>9, <3>1, <3>2, CandidateType DEF Local
    <3> QED
        BY <1>1, <2>6, <3>3
  <2> QED
      BY <2>5, <2>7, <2>8, <2>9
<1>4. CASE RecordPrepared(q)
  <2>1. local[q] \in Local /\ local[q].pc = "ready"
      BY <1>4 DEF RecordPrepared, LocalOK
  <2>2. PICK f \in Fence : f = local[q].fence /\ local[q].candidate \in ReleaseRequest
      BY <2>1 DEF Local, Idle
  <2>3. f.op \in Registered /\ ValidJournal(TRUE)
      BY <1>4, <2>2, WriteLoads DEF RecordPrepared, Fenced
  <2>4. events' \in Seq(Event)
      BY <1>4, <2>2, <2>3, RecordNextTypes DEF RecordPrepared, EventKinds
  <2>5. /\ prepared' \in [DOMAIN prepared \cup {f.op} -> ReleaseRequest]
        /\ DOMAIN prepared' = DOMAIN prepared \cup {f.op}
      BY <1>4, <2>2 DEF RecordPrepared
  <2>6. LocalOK'
      BY <1>4, LocalMoves DEF RecordPrepared, Local
  <2> QED
      BY <1>4, <2>3, <2>4, <2>5, <2>6, LedgerTypesStable DEF RecordPrepared, Registered
<1>5. CASE RecordRejection(q)
  <2>1. LocalOK'
      BY <1>5, LocalMoves DEF RecordRejection, FailUnder, Local
  <2> QED
      BY <1>5, <2>1, FailUnderTypes DEF RecordRejection
<1>6. CASE Abandon(q)
    BY <1>1, <1>6 DEF Abandon, Local
<1> QED
    BY <1>2, <1>3, <1>4, <1>5, <1>6 DEF PrepareStep

LEMMA JournalStepTypes ==
    ASSUME JournalTypeOK, [JournalNext]_journalVars
    PROVE  JournalTypeOK'
<1>1. CASE StoreStep
    BY <1>1, StoreStepTypes
<1>2. CASE RegisterStep
  <2>1. PICK op \in Operations, p \in Principals, id \in ReleaseIds,
             intent \in IntentsUpTo(Len(reviews)) : Register(op, p, intent, id)
      BY <1>2 DEF RegisterStep
  <2>2. intent \in Intent
      BY <2>1, ReviewRequestsAreRequests DEF IntentsUpTo, Intent, JournalTypeOK, LedgerTypeOK
  <2> QED
      BY <2>1, <2>2, RegisterTypes
<1>3. CASE WorkerStep
  <2>1. ASSUME NEW f, Fail(f) PROVE JournalTypeOK'
    <3>1. LocalOK'
        BY <2>1 DEF Fail, FailUnder, JournalTypeOK, LocalOK, Registered
    <3> QED
        BY <2>1, <3>1, FailUnderTypes DEF Fail
  <2> QED
      BY <1>3, <2>1, ClaimTypes, ReportTypes, CommitTypes DEF WorkerStep, Recover, CommitAgain
<1>4. ASSUME NEW q \in Processes, PrepareStep(q) PROVE JournalTypeOK'
    BY <1>4, PrepareStepTypes
<1>5. CASE UNCHANGED journalVars
    BY <1>5, LedgerTypesStable DEF journalVars, storeVars, JournalTypeOK, LocalOK, Registered
<1> QED
    BY <1>1, <1>2, <1>3, <1>4, <1>5 DEF JournalNext

\* The journal's variables keep their types, and a preparation never outlives
\* the registration of its operation.
THEOREM JournalTypes == JournalSpec => []JournalTypeOK
<1>1. JournalInit => JournalTypeOK
    BY LedgerInitTypes, EmptySeq DEF JournalInit, JournalTypeOK, LocalOK, Local, Registered
<1>2. JournalTypeOK /\ [JournalNext]_journalVars => JournalTypeOK'
    BY JournalStepTypes
<1> QED
    BY <1>1, <1>2, PTL DEF JournalSpec

-----------------------------------------------------------------------------
(* Every step of the journal is a step of the ledger, or none of it.       *)

LEMMA JournalStepIsLedgerStep ==
    ASSUME JournalTypeOK, [JournalNext]_journalVars
    PROVE  [LedgerNext]_ledgerVars
<1>1. CASE StoreStep
    BY <1>1 DEF StoreStep, ReviewWrite, CommitDirectly, MigrateToV2, MigrateToV3, LedgerNext,
                ReviewStep, ReleaseStep
<1>2. CASE RegisterStep
    BY <1>2 DEF RegisterStep, Register
<1>3. CASE WorkerStep
  <2>1. ASSUME NEW op, Report(op) PROVE LedgerNext
      BY <2>1, ReportIsRetry DEF JournalTypeOK, LedgerNext, ReleaseStep
  <2>2. ASSUME NEW f, Commit(f) PROVE LedgerNext
    <3>1. PICK rq \in ReleaseRequest : rq = prepared[f.op]
        BY <2>2, WriteLoads, PreparedHasCandidate DEF Commit
    <3>2. CommitRelease(rq)
        BY <2>2, <3>1 DEF Commit
    <3>3. rq.expectedReview \in 1..Len(reviews)
      <4>1. PICK h \in 1..Len(reviews) : h = HeadOf(Key(rq.evidence))
          BY <3>2, CommitReleaseWrites DEF JournalTypeOK
      <4> QED
          BY <3>2, <4>1 DEF CommitRelease, CheckReleaseHead
    <3>4. rq \in ReleaseRequestsUpTo(Len(reviews))
        BY <3>1, <3>3 DEF ReleaseRequest, ReleaseRequestsUpTo
    <3> QED
        BY <3>2, <3>4 DEF LedgerNext, ReleaseStep
  <2> QED
      BY <1>3, <2>1, <2>2 DEF WorkerStep, Claim, Recover, CommitAgain, Fail, FailUnder
<1>4. ASSUME NEW q \in Processes, PrepareStep(q) PROVE UNCHANGED ledgerVars
    BY <1>4 DEF PrepareStep, BeginPrepare, Resolve, RecordPrepared, RecordRejection, FailUnder,
                Abandon
<1>5. CASE UNCHANGED journalVars
    BY <1>5 DEF journalVars
<1> QED
    BY <1>1, <1>2, <1>3, <1>4, <1>5 DEF JournalNext

\* The journal uses the ledger only through its operations, so everything proved
\* of the ledger (chains, standing approvals, answers, revocations) holds of the
\* store in which reviewers, workers and migrations meet.
THEOREM JournalImplementsLedger == JournalSpec => ImplementsLedger
<1>1. JournalInit => LedgerInit
    BY DEF JournalInit
<1>2. JournalTypeOK /\ [JournalNext]_journalVars => [LedgerNext]_ledgerVars
    BY JournalStepIsLedgerStep
<1> QED
    BY <1>1, <1>2, JournalTypes, PTL DEF JournalSpec, LedgerSpec, ImplementsLedger

LEMMA JournalKeepsLedgerInv == JournalSpec => []LedgerInv
    BY JournalImplementsLedger, LedgerInvariant, PTL DEF ImplementsLedger

-----------------------------------------------------------------------------
(* The whole store loads.                                                  *)

\* The journal stays valid when nothing is written to it, and what is added to
\* the outbox uses none of its release ids.
LEMMA ValidJournalStable ==
    ASSUME UNCHANGED <<intents, prepared, events>>, ValidJournal(TRUE),
           \A i \in DOMAIN outbox : i \in DOMAIN outbox' /\ outbox'[i] = outbox[i],
           \A i \in DOMAIN outbox' \ DOMAIN outbox : outbox'[i].request.id \notin OwnedReleases
    PROVE  ValidJournal(TRUE)'
<1>1. \A op, n : EventsOf(op, n)' = EventsOf(op, n)
    BY DEF EventsOf
<1>2. \A op, n : LastOf(op, n)' = LastOf(op, n)
  <2> TAKE op, n
  <2>1. EventsOf(op, n)' = EventsOf(op, n)
      BY <1>1
  <2> QED
      BY <2>1 DEF LastOf
<1>3. \A op, kind, n : Happened(op, kind, n)' <=> Happened(op, kind, n)
    BY <1>1 DEF Happened
<1>4. \A op, n : StateAt(op, n)' = StateAt(op, n)
    BY <1>1, <1>3 DEF StateAt
<1>5. (\A i \in DOMAIN events : ValidEvent(i))'
    BY <1>2, <1>4 DEF ValidJournal, ValidEvent, Registered
<1>6. (Registered = {events[i].op : i \in DOMAIN events})'
    BY DEF ValidJournal, Registered
<1>7. (DOMAIN prepared = {op \in Registered : Happened(op, "PREPARED", Len(events))})'
    BY <1>3 DEF ValidJournal, Registered
<1>8. (\A op \in DOMAIN prepared : CandidateMatches(op, prepared[op]))'
    BY DEF ValidJournal, CandidateMatches
<1>9. \A op : State(op)' = State(op)
    BY <1>4 DEF State
<1>10. (\A op \in Registered :
          /\ Released(intents[op].release) <=> State(op) = "COMMITTED"
          /\ State(op) = "COMMITTED" =>
                \E i \in DOMAIN outbox : outbox[i].request = prepared[op])'
  <2> SUFFICES ASSUME NEW op \in Registered
               PROVE  (/\ Released(intents[op].release) <=> State(op) = "COMMITTED"
                       /\ State(op) = "COMMITTED" =>
                             \E i \in DOMAIN outbox : outbox[i].request = prepared[op])'
      BY DEF Registered
  <2>1. intents[op].release \in OwnedReleases
      BY DEF OwnedReleases
  <2>2. Released(intents[op].release)' <=> Released(intents[op].release)
      BY <2>1 DEF Released
  <2>3. /\ Released(intents[op].release) <=> State(op) = "COMMITTED"
        /\ State(op) = "COMMITTED" => \E i \in DOMAIN outbox : outbox[i].request = prepared[op]
      BY DEF ValidJournal
  <2>4. State(op)' = State(op)
      BY <1>9
  <2> QED
      BY <2>2, <2>3, <2>4
<1> QED
    BY <1>5, <1>6, <1>7, <1>8, <1>10 DEF ValidJournal

LEMMA StoreUnchangedLoads ==
    ASSUME UNCHANGED <<reviews, outbox, storeVars>>, JournalLoads
    PROVE  JournalLoads'
<1>1. ValidJournal(TRUE) => ValidJournal(TRUE)'
    BY ValidJournalStable DEF storeVars
<1> QED
    BY <1>1, LedgerUnchangedLoads DEF JournalLoads, Loads, storeVars

LEMMA JournalStepLoads ==
    ASSUME JournalTypeOK, LedgerInv, LedgerInv', JournalLoads, [JournalNext]_journalVars
    PROVE  JournalLoads'
<1>1. ValidLedger' /\ ValidOutbox'
    BY DEF LedgerInv, StoreLoads
<1>2. ASSUME NEW rq, NEW a, NEW x, ReviewWrite(rq, a, x) PROVE JournalLoads'
  <2>1. UNCHANGED <<outbox, schema, boundary, intents, prepared, events>>
      BY <1>2 DEF ReviewWrite, AppendReview, AppendRetry, storeVars
  <2>2. ValidJournal(TRUE) => ValidJournal(TRUE)'
      BY <2>1, ValidJournalStable
  <2> QED
      BY <1>1, <2>1, <2>2 DEF JournalLoads, Loads
<1>3. ASSUME NEW rq \in ReleaseRequest, CommitDirectly(rq) PROVE JournalLoads'
  <2>1. CASE CommitRelease(rq)
    <3>1. UNCHANGED <<schema, boundary, intents, prepared, events>> /\ schema < 3
        BY <1>3 DEF CommitDirectly, storeVars
    <3>2. PICK n \in Nat : /\ n = Len(outbox) /\ DOMAIN outbox = 1..n
        BY LenProperties DEF JournalTypeOK, LedgerTypeOK
    <3>3. /\ outbox' \in Seq(Release) /\ Len(outbox') = n + 1
          /\ outbox'[n + 1] = [request |-> rq, reviewSequence |-> HeadOf(Key(rq.evidence)),
                               revision |-> Len(reviews)]
          /\ \A i \in 1..n : outbox'[i] = outbox[i]
        BY <2>1, <3>2, CommitReleaseWrites DEF JournalTypeOK
    <3>4. DOMAIN outbox' = 1..(n + 1)
        BY <3>3, LenProperties
    <3>5. DOMAIN outbox' \ DOMAIN outbox = {n + 1}
        BY <3>2, <3>4
    <3>6. \A i \in DOMAIN outbox : i \in DOMAIN outbox' /\ outbox'[i] = outbox[i]
        BY <3>2, <3>3, <3>4
    <3>7. outbox'[n + 1].request.id = rq.id
        BY <3>3
    <3>8. schema >= 2 => schema = 2
        BY <3>1 DEF JournalTypeOK
    <3>9. schema = 2 => rq.id \notin OwnedReleases
        BY <1>3 DEF CommitDirectly
    <3>10. schema = 2 /\ ValidJournal(TRUE) => ValidJournal(TRUE)'
        BY <3>1, <3>5, <3>6, <3>7, <3>9, ValidJournalStable
    <3>11. schema # 3
        BY <3>1
    <3> QED
        BY <1>1, <3>1, <3>8, <3>10, <3>11 DEF JournalLoads, Loads
  <2>2. CASE CommitRetry(rq)
      BY <1>3, <2>2, StoreUnchangedLoads DEF CommitRetry, CommitDirectly
  <2> QED
      BY <1>3, <2>1, <2>2 DEF CommitDirectly
<1>4. CASE StoreStep
    BY <1>2, <1>3, <1>4, ReviewRequestsAreRequests
       DEF StoreStep, MigrateToV2, MigrateToV3, JournalLoads, JournalTypeOK, LedgerTypeOK
<1>5. CASE RegisterStep
    BY <1>5 DEF RegisterStep, Register, JournalWrite, JournalLoads
<1>6. CASE WorkerStep
  <2>1. ASSUME NEW op, Report(op) PROVE JournalLoads'
      BY <2>1, StoreUnchangedLoads DEF Report
  <2> QED
      BY <1>6, <2>1 DEF WorkerStep, Recover, CommitAgain, Claim, Fail, FailUnder, Commit,
                        JournalWrite, JournalLoads
<1>7. ASSUME NEW q \in Processes, PrepareStep(q) PROVE JournalLoads'
  <2>1. CASE UNCHANGED <<ledgerVars, storeVars>>
      BY <2>1, StoreUnchangedLoads DEF ledgerVars
  <2> QED
      BY <1>7, <2>1 DEF PrepareStep, BeginPrepare, Resolve, Abandon, RecordPrepared,
                        RecordRejection, FailUnder, JournalWrite, JournalLoads
<1>8. CASE UNCHANGED journalVars
    BY <1>8, StoreUnchangedLoads DEF journalVars, ledgerVars
<1> QED
    BY <1>4, <1>5, <1>6, <1>7, <1>8 DEF JournalNext

\* No interleaving of reviews, direct releases, workers and migrations leaves a
\* store the next transaction refuses (`_load`, `validate_journal`): a release id
\* reserved by an operation is in the outbox exactly when it is COMMITTED.
THEOREM StoreAlwaysLoads == JournalSpec => []JournalLoads
<1>1. JournalInit => JournalLoads
    BY DEF JournalInit, LedgerInit, JournalLoads, Loads, ValidLedger, ValidOutbox
<1>2. JournalTypeOK /\ LedgerInv /\ LedgerInv' /\ JournalLoads /\ [JournalNext]_journalVars
        => JournalLoads'
    BY JournalStepLoads
<1> QED
    BY <1>1, <1>2, JournalTypes, JournalKeepsLedgerInv, PTL DEF JournalSpec

-----------------------------------------------------------------------------
(* What a worker or a migration may never do.                              *)

\* A preparation whose operation was claimed again since it began records
\* nothing: `prepare` checks the fence again in its last transaction.
THEOREM StaleWorkersWriteNothing == JournalSpec => StaleFenceWritesNothing
<1>1. ASSUME JournalTypeOK, [JournalNext]_journalVars, NEW q \in Processes,
             local'[q] # local[q], events' # events
      PROVE  Fenced(local[q].fence)
  <2>1. PICK p \in Processes : PrepareStep(p)
      BY <1>1 DEF JournalNext, StoreStep, ReviewWrite, CommitDirectly, MigrateToV2, MigrateToV3,
                  RegisterStep, Register, WorkerStep, Recover, Report, Claim, Fail, Commit,
                  CommitAgain, journalVars
  <2>2. RecordPrepared(p) \/ RecordRejection(p)
      BY <1>1, <2>1 DEF PrepareStep, BeginPrepare, Resolve, Abandon, storeVars
  <2>3. /\ Fenced(local[p].fence)
        /\ local' = [local EXCEPT ![p] = Idle]
      BY <2>2 DEF RecordPrepared, RecordRejection, FailUnder
  <2>4. p = q
      BY <1>1, <2>3 DEF JournalTypeOK, LocalOK
  <2> QED
      BY <2>3, <2>4
<1>2. JournalTypeOK /\ [JournalNext]_journalVars
        => [\A q \in Processes :
               local'[q] # local[q] /\ events' # events => Fenced(local[q].fence)]_journalVars
    BY <1>1
<1> QED
    BY <1>2, JournalTypes, PTL DEF JournalSpec, StaleFenceWritesNothing

\* Once the store is at schema 3 neither a direct release nor the journal, nor a
\* preparation that began under schema 2, writes to outbox or journal again.
THEOREM MigratedStoreIsFrozen == JournalSpec => FrozenAtV3
<1>1. ASSUME schema = 3, [JournalNext]_journalVars
      PROVE  UNCHANGED <<outbox, storeVars>>
  <2>0. schema # 2 /\ schema # 1 /\ ~(schema < 3) /\ ~JournalWrite
      BY <1>1 DEF JournalWrite
  <2>1. ASSUME NEW rq, NEW a, NEW x, ReviewWrite(rq, a, x)
        PROVE  UNCHANGED <<outbox, storeVars>>
      BY <2>1 DEF ReviewWrite, AppendReview, AppendRetry
  <2>2. CASE StoreStep
      BY <2>0, <2>1, <2>2 DEF StoreStep, CommitDirectly, MigrateToV2, MigrateToV3
  <2>3. ~RegisterStep
      BY <2>0 DEF RegisterStep, Register
  <2>4. ASSUME NEW op, Report(op) PROVE UNCHANGED <<outbox, storeVars>>
      BY <2>4 DEF Report
  <2>5. CASE WorkerStep
      BY <2>0, <2>4, <2>5 DEF WorkerStep, Recover, Claim, Fail, FailUnder, Commit, CommitAgain
  <2>6. ASSUME NEW q \in Processes, PrepareStep(q) PROVE UNCHANGED <<ledgerVars, storeVars>>
      BY <2>0, <2>6 DEF PrepareStep, BeginPrepare, Resolve, RecordPrepared, RecordRejection,
                        FailUnder, Abandon
  <2>7. CASE UNCHANGED journalVars
      BY <2>7 DEF journalVars, ledgerVars
  <2> QED
      BY <1>1, <2>2, <2>3, <2>5, <2>6, <2>7 DEF JournalNext, ledgerVars
<1>2. [JournalNext]_journalVars => [schema = 3 => UNCHANGED <<outbox, storeVars>>]_journalVars
    BY <1>1
<1> QED
    BY <1>2, PTL DEF JournalSpec, FrozenAtV3

\* The two ways in which a preparation can be overtaken, together.
THEOREM OvertakenPreparations == JournalSpec => OvertakenWritesNothing
  BY StaleWorkersWriteNothing, MigratedStoreIsFrozen DEF OvertakenWritesNothing

-----------------------------------------------------------------------------
(* What was registered is what is released.                                *)

\* Operations exist from schema 2 on, and an intent names evidence of its key.
RegistrationInv ==
    /\ schema = 1 => Registered = {}
    /\ \A op \in Registered :
          intents[op].intent.evidence # NoEvidence =>
             Key(intents[op].intent.evidence) = intents[op].intent.key

\* Rows of request_intents are inserted and never changed.
LEMMA IntentsStep ==
    ASSUME JournalTypeOK, [JournalNext]_journalVars
    PROVE  \/ UNCHANGED intents
           \/ RegisterStep
    BY DEF JournalNext, StoreStep, ReviewWrite, CommitDirectly, MigrateToV2, MigrateToV3,
           WorkerStep, Recover, Report, Claim, Fail, FailUnder, Commit, CommitAgain,
           PrepareStep, BeginPrepare, Resolve, RecordPrepared, RecordRejection, Abandon,
           storeVars, journalVars

LEMMA IntentsStay ==
    ASSUME JournalTypeOK, [JournalNext]_journalVars, NEW op \in Registered
    PROVE  op \in Registered' /\ intents'[op] = intents[op]
<1>1. CASE UNCHANGED intents
    BY <1>1 DEF Registered
<1>2. CASE RegisterStep
    BY <1>2 DEF RegisterStep, Register, Registered
<1> QED
    BY <1>1, <1>2, IntentsStep

LEMMA RegistrationInvHolds == JournalSpec => []RegistrationInv
<1>1. JournalInit => RegistrationInv
    BY DEF JournalInit, RegistrationInv, Registered
<1>2. ASSUME JournalTypeOK, RegistrationInv, [JournalNext]_journalVars
      PROVE  RegistrationInv'
  <2>1. CASE RegisterStep
    <3>1. PICK op \in Operations, p \in Principals, id \in ReleaseIds,
               intent \in IntentsUpTo(Len(reviews)) : Register(op, p, intent, id)
        BY <2>1 DEF RegisterStep
    <3> QED
        BY <1>2, <3>1 DEF Register, RegistrationInv, Registered, JournalWrite, Key
  <2>2. CASE UNCHANGED intents
    <3>1. schema' = 1 => schema = 1
      <4>1. schema' = schema \/ schema' = 2 \/ schema' = 3
          BY <1>2 DEF JournalNext, StoreStep, ReviewWrite, CommitDirectly, MigrateToV2,
                 MigrateToV3, RegisterStep, Register,
                 WorkerStep, Recover, Report, Claim, Fail, FailUnder, Commit, CommitAgain,
                 PrepareStep, BeginPrepare, Resolve, RecordPrepared, RecordRejection, Abandon,
                 storeVars, journalVars
      <4> QED
          BY <4>1
    <3> QED
        BY <1>2, <2>2, <3>1 DEF RegistrationInv, Registered, Key
  <2> QED
      BY <1>2, <2>1, <2>2, IntentsStep
<1> QED
    BY <1>1, <1>2, JournalTypes, PTL DEF JournalSpec

LEMMA CommittedWasPrepared ==
    ASSUME JournalTypeOK, ValidJournal(TRUE), NEW op \in Registered, State(op) = "COMMITTED"
    PROVE  op \in DOMAIN prepared
<1>1. Len(events) \in Nat /\ DOMAIN events = 1..Len(events)
    BY LenProperties DEF JournalTypeOK
<1>2. Happened(op, "COMMITTED", Len(events))
    BY DEF State, StateAt
<1>3. PICK i \in DOMAIN events : events[i].op = op /\ events[i].kind = "COMMITTED"
    BY <1>1, <1>2 DEF Happened, EventsOf
<1>4. StateAt(op, i - 1) = "PREPARED"
    BY <1>3 DEF ValidJournal, ValidEvent
<1>5. Happened(op, "PREPARED", i - 1)
    BY <1>4 DEF StateAt
<1>6. Happened(op, "PREPARED", Len(events))
    BY <1>1, <1>3, <1>5 DEF Happened, EventsOf
<1> QED
    BY <1>6 DEF ValidJournal

LEMMA CommittedUnderHead ==
    ASSUME JournalTypeOK, LedgerInv, JournalLoads, RegistrationInv
    PROVE  ReleasedUnderRegisteredHead
<1> SUFFICES ASSUME NEW op \in Registered, State(op) = "COMMITTED"
             PROVE  \E i \in DOMAIN outbox :
                       /\ outbox[i].request.id = intents[op].release
                       /\ outbox[i].request.evidence = intents[op].intent.evidence
                       /\ outbox[i].reviewSequence = intents[op].intent.expected
                       /\ \A j \in (intents[op].intent.expected + 1)..outbox[i].revision :
                             Key(reviews[j].request.evidence) # intents[op].intent.key
    BY DEF ReleasedUnderRegisteredHead
<1>1. schema >= 2
    BY DEF RegistrationInv, JournalTypeOK
<1>2. ValidJournal(TRUE) /\ ValidOutbox
    BY <1>1 DEF JournalLoads, Loads
<1>3. CandidateMatches(op, prepared[op])
    BY <1>2, CommittedWasPrepared DEF ValidJournal
<1>4. PICK i \in DOMAIN outbox : outbox[i].request = prepared[op]
    BY <1>2 DEF ValidJournal
<1>5. PICK intent : intent = intents[op].intent
    OBVIOUS
<1>6. /\ outbox[i].request.id = intents[op].release
      /\ outbox[i].request.evidence = intent.evidence /\ intent.evidence # NoEvidence
      /\ outbox[i].request.expectedReview = intent.expected
    BY <1>3, <1>4, <1>5 DEF CandidateMatches
<1>7. Key(intent.evidence) = intent.key
    BY <1>5, <1>6 DEF RegistrationInv
<1>8. PICK v \in Nat : v = outbox[i].revision /\ v <= Len(reviews)
  <2>1. Len(reviews) \in Nat
      BY LenProperties DEF JournalTypeOK, LedgerTypeOK
  <2> QED
      BY <1>2, <2>1 DEF ValidOutbox, ValidRelease
<1>9. PICK h : h = HeadAt(intent.key, v)
    OBVIOUS
<1>10. outbox[i].reviewSequence = h /\ intent.expected = h
    BY <1>2, <1>6, <1>7, <1>8, <1>9 DEF ValidOutbox, ValidRelease, CheckReleaseHead
<1>11. h \in 0..v /\ \A j \in OfKey(intent.key, v) : j <= h
    BY <1>9, HeadAtIsLast
<1>12. \A j \in (h + 1)..v : Key(reviews[j].request.evidence) # intent.key
    BY <1>11 DEF OfKey
<1> QED
    BY <1>5, <1>6, <1>8, <1>10, <1>12

\* A committed operation was released under the review its caller saw when it
\* registered, with no other review of that document version in between.
THEOREM CommitsAreUnderTheRegisteredHead == JournalSpec => []ReleasedUnderRegisteredHead
    BY CommittedUnderHead, JournalTypes, JournalKeepsLedgerInv, StoreAlwaysLoads,
       RegistrationInvHolds, PTL

-----------------------------------------------------------------------------
(* What was prepared passed the engine.                                    *)

Admissible(op, candidate) ==
    LET intent == intents[op].intent
        review == reviews[candidate.expectedReview]
    IN  /\ candidate.expectedReview \in DOMAIN reviews
        /\ review.request.verdict = "approved"
        /\ review.request.evidence = candidate.evidence
        /\ ConfigEvidence[intent.config] \cap {e \in Evidence : Key(e) = intent.key}
              = {candidate.evidence}
        /\ ObservedAt[intent.config] <= review.request.reviewedAt
        /\ CaptureAt[candidate.evidence] <= candidate.queryTime
        /\ candidate.payload \in Replayable

\* A process holds its candidate over a gap in which anything may be reviewed;
\* what makes the candidate admissible is in records that never change.
AdmissionInv ==
    /\ \A op \in DOMAIN prepared : Admissible(op, prepared[op])
    /\ \A q \in Processes :
          local[q].pc = "ready" => Admissible(local[q].fence.op, local[q].candidate)

LEMMA AdmissibleStable ==
    ASSUME NEW op, NEW candidate, Admissible(op, candidate), intents'[op] = intents[op],
           \A i \in DOMAIN reviews : i \in DOMAIN reviews' /\ reviews'[i] = reviews[i]
    PROVE  Admissible(op, candidate)'
    BY DEF Admissible, Key

LEMMA LedgerAppendOnly ==
    ASSUME LedgerTypeOK, [LedgerNext]_ledgerVars
    PROVE  \A i \in DOMAIN reviews : i \in DOMAIN reviews' /\ reviews'[i] = reviews[i]
<1>1. ASSUME NEW rq \in ReviewRequest, NEW a \in Reviewers, NEW x \in Nat,
             AppendReview(rq, a, x)
      PROVE  \A i \in DOMAIN reviews : i \in DOMAIN reviews' /\ reviews'[i] = reviews[i]
  <2>1. PICK record : reviews' = Append(reviews, record)
      BY <1>1 DEF AppendReview
  <2>2. /\ reviews' \in Seq(Review) /\ Len(reviews') = Len(reviews) + 1
        /\ \A i \in 1..Len(reviews) : reviews'[i] = reviews[i]
      BY <1>1, AppendReviewWrites DEF LedgerTypeOK
  <2>3. DOMAIN reviews = 1..Len(reviews) /\ DOMAIN reviews' = 1..(Len(reviews) + 1)
        /\ Len(reviews) \in Nat
      BY <2>2, LenProperties DEF LedgerTypeOK
  <2> QED
      BY <2>2, <2>3
<1>2. CASE ReviewStep
    BY <1>1, <1>2, ReviewRequestsAreRequests DEF ReviewStep, AppendRetry, LedgerTypeOK
<1>3. CASE ReleaseStep \/ UNCHANGED ledgerVars
    BY <1>3 DEF ReleaseStep, CommitRelease, CommitRetry, ledgerVars
<1> QED
    BY <1>2, <1>3 DEF LedgerNext

\* Admissible candidates stay so, whatever the step.
LEMMA AdmissibleKept ==
    ASSUME JournalTypeOK, [JournalNext]_journalVars, NEW op \in Registered, NEW candidate,
           Admissible(op, candidate)
    PROVE  Admissible(op, candidate)'
    BY JournalStepIsLedgerStep, LedgerAppendOnly, IntentsStay, AdmissibleStable
       DEF JournalTypeOK

\* A candidate of the engine is admissible under the head it was resolved with.
LEMMA EngineCandidate ==
    ASSUME JournalTypeOK, NEW op \in Registered, NEW h \in DOMAIN reviews,
           EngineAccepts(intents[op].intent.config, intents[op].intent.key,
                         intents[op].intent.queryTime, h)
    PROVE  Admissible(op, Candidate(intents[op], h))
<1>1. PICK row \in IntentRecord : row = intents[op]
    BY DEF JournalTypeOK
<1>2. PICK r : r = reviews[h].request
    OBVIOUS
<1>3. row.intent.config \in Configs
    BY <1>1 DEF IntentRecord, Intent
<1>4. /\ {e \in ConfigEvidence[row.intent.config] : Key(e) = row.intent.key} = {r.evidence}
      /\ r.verdict = "approved"
      /\ CaptureAt[r.evidence] <= row.intent.queryTime
      /\ ObservedAt[row.intent.config] <= r.reviewedAt
      /\ row.intent.config \in Replayable
    BY <1>1, <1>2 DEF EngineAccepts
<1>5. ConfigEvidence[row.intent.config] \subseteq Evidence
    BY <1>3, JournalConstants DEF JournalConstants
<1>6. ConfigEvidence[row.intent.config] \cap {e \in Evidence : Key(e) = row.intent.key}
        = {r.evidence}
    BY <1>4, <1>5
<1>7. PICK c : c = Candidate(row, h)
    OBVIOUS
<1>8. /\ c.evidence = r.evidence /\ c.expectedReview = h
      /\ c.queryTime = row.intent.queryTime /\ c.payload = row.intent.config
    BY <1>2, <1>7 DEF Candidate
<1> QED
    BY <1>1, <1>2, <1>4, <1>6, <1>7, <1>8 DEF Admissible

\* Only RecordPrepared writes a candidate, and it writes the one it holds.
LEMMA PreparedSource ==
    ASSUME JournalTypeOK, [JournalNext]_journalVars
    PROVE  \/ UNCHANGED prepared
           \/ \E q \in Processes : RecordPrepared(q)
    BY DEF JournalNext, StoreStep, ReviewWrite, CommitDirectly, MigrateToV2, MigrateToV3,
           RegisterStep, Register, WorkerStep, Recover, Report, Claim, Fail, FailUnder, Commit,
           CommitAgain, PrepareStep, BeginPrepare, Resolve, RecordRejection, Abandon,
           storeVars, journalVars

\* Only Resolve gives a process a candidate.
LEMMA ReadySource ==
    ASSUME JournalTypeOK, [JournalNext]_journalVars, NEW q \in Processes,
           local'[q].pc = "ready"
    PROVE  local'[q] = local[q] \/ Resolve(q)
<1>1. UNCHANGED local \/ \E p \in Processes : PrepareStep(p)
    BY DEF JournalNext, StoreStep, ReviewWrite, CommitDirectly, MigrateToV2, MigrateToV3,
           RegisterStep, Register, WorkerStep, Recover, Report, Claim, Fail, Commit,
           CommitAgain, journalVars
<1>2. ASSUME NEW p \in Processes, PrepareStep(p), local'[q] # local[q] PROVE Resolve(q)
  <2>1. \E l : local' = [local EXCEPT ![p] = l]
    <3>1. CASE \E f \in Fences : BeginPrepare(p, f)
        BY <3>1 DEF BeginPrepare
    <3>2. CASE Resolve(p)
        BY <3>2 DEF Resolve
    <3>3. CASE RecordPrepared(p) \/ RecordRejection(p) \/ Abandon(p)
        BY <3>3 DEF RecordPrepared, RecordRejection, Abandon
    <3> QED
        BY <1>2, <3>1, <3>2, <3>3 DEF PrepareStep
  <2>2. p = q
      BY <1>2, <2>1 DEF JournalTypeOK, LocalOK
  <2>3. q \in DOMAIN local
      BY DEF JournalTypeOK, LocalOK
  <2>4. local'[q].pc # "checked" /\ local'[q] # Idle
      BY DEF Idle
  <2>5. ASSUME NEW f, BeginPrepare(q, f) PROVE FALSE
    <3>1. local' = [local EXCEPT ![q] = [pc |-> "checked", fence |-> f]]
        BY <2>5 DEF BeginPrepare
    <3>2. local'[q] = [pc |-> "checked", fence |-> f]
        BY <2>3, <3>1
    <3> QED
        BY <2>4, <3>2
  <2>6. ~RecordPrepared(q) /\ ~RecordRejection(q) /\ ~Abandon(q)
      BY <2>3, <2>4 DEF RecordPrepared, RecordRejection, Abandon
  <2> QED
      BY <1>2, <2>2, <2>5, <2>6 DEF PrepareStep
<1> QED
    BY <1>1, <1>2

LEMMA ResolvedIsAdmissible ==
    ASSUME JournalTypeOK, NEW q \in Processes, Resolve(q), local'[q].pc = "ready"
    PROVE  /\ local'[q].fence.op \in Registered
           /\ Admissible(local'[q].fence.op, local'[q].candidate)
<1>1. local[q] # Idle /\ q \in DOMAIN local
  <2>1. local[q].pc = "checked"
      BY DEF Resolve
  <2>2. Idle.pc = "idle"
      BY DEF Idle
  <2>3. local \in [Processes -> Local]
      BY DEF JournalTypeOK, LocalOK
  <2> QED
      BY <2>1, <2>2, <2>3
<1>2. PICK f : f = local[q].fence /\ f.op \in Registered
    BY <1>1 DEF JournalTypeOK, LocalOK
<1>3. PICK row : row = intents[f.op]
    OBVIOUS
<1>4. PICK h : h = HeadOf(row.intent.key)
    OBVIOUS
<1>5. local'[q] =
        IF ~EngineAccepts(row.intent.config, row.intent.key, row.intent.queryTime, h)
        THEN [pc |-> "rejected", fence |-> f]
        ELSE IF CandidateMatches(f.op, Candidate(row, h))
        THEN [pc |-> "ready", fence |-> f, candidate |-> Candidate(row, h)]
        ELSE Idle
    BY <1>1, <1>2, <1>3, <1>4 DEF Resolve
<1>6. /\ EngineAccepts(row.intent.config, row.intent.key, row.intent.queryTime, h)
      /\ local'[q] = [pc |-> "ready", fence |-> f, candidate |-> Candidate(row, h)]
    BY <1>5 DEF Idle
<1>7. h \in DOMAIN reviews
    BY <1>4, <1>6, HeadIsRecorded DEF EngineAccepts, JournalTypeOK, LedgerTypeOK
<1>8. Admissible(f.op, Candidate(row, h))
    BY <1>2, <1>3, <1>6, <1>7, EngineCandidate
<1> QED
    BY <1>2, <1>6, <1>8

LEMMA AdmissionStep ==
    ASSUME JournalTypeOK, AdmissionInv, [JournalNext]_journalVars
    PROVE  AdmissionInv'
<1>1. ASSUME NEW q \in Processes, local[q].pc = "ready"
      PROVE  /\ local[q].fence.op \in Registered
             /\ Admissible(local[q].fence.op, local[q].candidate)
    BY <1>1 DEF JournalTypeOK, LocalOK, Idle, AdmissionInv
<1>2. ASSUME NEW op \in DOMAIN prepared' PROVE Admissible(op, prepared[op])'
  <2>1. PICK c : c = prepared'[op]
      OBVIOUS
  <2>2. CASE op \in DOMAIN prepared /\ prepared'[op] = prepared[op]
      BY <2>1, <2>2, AdmissibleKept DEF AdmissionInv, JournalTypeOK
  <2>3. CASE ~(op \in DOMAIN prepared /\ prepared'[op] = prepared[op])
    <3>1. PICK q \in Processes : RecordPrepared(q)
        BY <2>3, PreparedSource
    <3>2. local[q].pc = "ready" /\ op = local[q].fence.op /\ c = local[q].candidate
        BY <2>1, <2>3, <3>1 DEF RecordPrepared
    <3>3. op \in Registered /\ Admissible(op, c)
        BY <1>1, <3>2
    <3>4. Admissible(op, c)'
        BY <3>3, AdmissibleKept
    <3> QED
        BY <2>1, <3>4
  <2> QED
      BY <2>2, <2>3
<1>3. ASSUME NEW q \in Processes, local'[q].pc = "ready"
      PROVE  Admissible(local[q].fence.op, local[q].candidate)'
  <2>1. PICK op, c : op = local'[q].fence.op /\ c = local'[q].candidate
      OBVIOUS
  <2>2. op \in Registered /\ Admissible(op, c)
      BY <1>1, <1>3, <2>1, ReadySource, ResolvedIsAdmissible
  <2>3. Admissible(op, c)'
      BY <2>2, AdmissibleKept
  <2> QED
      BY <2>1, <2>3
<1> QED
    BY <1>2, <1>3 DEF AdmissionInv

\* A recorded candidate passed the engine under the review it names, whatever was
\* reviewed, claimed or migrated between the replay and the recording.
THEOREM PreparationsAreAdmissible == JournalSpec => []PreparedIsAdmissible
<1>1. JournalInit => AdmissionInv
    BY DEF JournalInit, AdmissionInv, Idle
<1>2. JournalTypeOK /\ AdmissionInv /\ [JournalNext]_journalVars => AdmissionInv'
    BY AdmissionStep
<1>3. AdmissionInv => PreparedIsAdmissible
    BY DEF AdmissionInv, Admissible, PreparedIsAdmissible
<1> QED
    BY <1>1, <1>2, <1>3, JournalTypes, PTL DEF JournalSpec

-----------------------------------------------------------------------------
(* Ledger, journal and workers are a release gate.                         *)

\* The operations that failed; each operation has a release id of its own.
Failed == {op \in Registered : State(op) = "FAILED"}
OwnReleases ==
    \A o, p \in Registered : intents[o].release = intents[p].release => o = p

GateInv == JournalTypeOK /\ LedgerInv /\ JournalLoads /\ RegistrationInv /\ OwnReleases

\* The state of the gate.
StandingOf(k) ==
    IF HeadOf(k) # 0 /\ reviews[HeadOf(k)].request.verdict = "approved" THEN HeadOf(k) ELSE 0
Standing == [k \in Keys |-> StandingOf(k)]
ReleaseOf(r) ==
    [id |-> r.request.id, key |-> Key(r.request.evidence), approval |-> r.reviewSequence]
Releases == {ReleaseOf(outbox[i]) : i \in DOMAIN outbox}
Closed == {intents[op].release : op \in Failed}

LEMMA GateState ==
    UNCHANGED <<Len(reviews), Standing, Releases, Closed>> => UNCHANGED Gate!vars
    BY DEF Gate!vars, Standing, StandingOf, Releases, ReleaseOf, Closed, Failed

LEMMA GateReview ==
    ASSUME NEW k \in Keys, Len(reviews)' = Len(reviews) + 1,
           NEW s \in {0, Len(reviews) + 1}, Standing' = [Standing EXCEPT ![k] = s],
           UNCHANGED <<Releases, Closed>>
    PROVE  Gate!Next
<1>1. Gate!Review(k)
    BY DEF Gate!Review, Standing, StandingOf, Releases, ReleaseOf, Closed, Failed
<1> QED
    BY <1>1 DEF Gate!Next

LEMMA GateRelease ==
    ASSUME NEW id \in ReleaseIds, NEW k \in Keys,
           id \notin Closed, \A r \in Releases : r.id # id, Standing[k] # 0,
           Releases' = Releases \cup {[id |-> id, key |-> k, approval |-> Standing[k]]},
           UNCHANGED <<Len(reviews), Standing, Closed>>
    PROVE  Gate!Next
<1>1. Gate!Release(id, k)
    BY DEF Gate!Release, Gate!Open, Standing, StandingOf, Releases, ReleaseOf, Closed, Failed
<1> QED
    BY <1>1 DEF Gate!Next

LEMMA GateGivesUp ==
    ASSUME NEW id \in ReleaseIds, id \notin Closed, \A r \in Releases : r.id # id,
           Closed' = Closed \cup {id}, UNCHANGED <<Len(reviews), Standing, Releases>>
    PROVE  Gate!Next
<1>1. Gate!GiveUp(id)
    BY DEF Gate!GiveUp, Gate!Open, Standing, StandingOf, Releases, ReleaseOf, Closed, Failed
<1> QED
    BY <1>1 DEF Gate!Next

\* Steps that leave reviews, outbox, or the journal alone leave their part alone.
LEMMA GateKeeps ==
    /\ UNCHANGED reviews => UNCHANGED <<Len(reviews), Standing>>
    /\ UNCHANGED outbox => UNCHANGED Releases
    /\ UNCHANGED <<intents, events>> => UNCHANGED Closed
<1>1. UNCHANGED reviews => UNCHANGED <<Len(reviews), Standing>>
    BY DEF Standing, StandingOf, HeadOf, HeadAt, OfKey, Key, Keys
<1>2. UNCHANGED outbox => UNCHANGED Releases
    BY DEF Releases, ReleaseOf, Key
<1>3. UNCHANGED <<intents, events>> => UNCHANGED Closed
    BY DEF Closed, Failed, Registered, State, StateAt, Happened, EventsOf
<1> QED
    BY <1>1, <1>2, <1>3

\* A review is the new head of its document version, and of no other.
LEMMA ReviewMovesStanding ==
    ASSUME LedgerTypeOK, NEW rq \in ReviewRequest, NEW a \in Reviewers, NEW x \in Nat,
           AppendReview(rq, a, x)
    PROVE  /\ Len(reviews)' = Len(reviews) + 1
           /\ Key(rq.evidence) \in Keys
           /\ \E s \in {0, Len(reviews) + 1} :
                 Standing' = [Standing EXCEPT ![Key(rq.evidence)] = s]
<1>1. PICK n \in Nat :
        /\ n = Len(reviews) /\ Len(reviews') = n + 1 /\ reviews'[n + 1].request = rq
        /\ \A i \in 1..n : reviews'[i] = reviews[i]
  <2>1. Len(reviews) \in Nat
      BY LenProperties DEF LedgerTypeOK
  <2>2. PICK now \in Times :
          /\ Len(reviews') = Len(reviews) + 1
          /\ reviews'[Len(reviews) + 1] =
                [request |-> rq, reviewer |-> a, recordedAt |-> now, expected |-> x]
          /\ \A i \in 1..Len(reviews) : reviews'[i] = reviews[i]
      BY AppendReviewWrites, Zenon DEF LedgerTypeOK
  <2> QED
      BY <2>1, <2>2
<1>2. PICK k \in Keys : k = Key(rq.evidence)
    BY DEF Keys, ReviewRequest
<1> DEFINE s == IF rq.verdict = "approved" THEN n + 1 ELSE 0
<1>3. ASSUME NEW j \in Keys
      PROVE  StandingOf(j)' = IF j = k THEN s ELSE StandingOf(j)
  <2> DEFINE S == OfKey(j, n)
             T == OfKey(j, n + 1)'
  <2>1. S \subseteq 1..n /\ T = IF j = k THEN S \cup {n + 1} ELSE S
      BY <1>1, <1>2 DEF OfKey, Key
  <2>2. /\ HeadOf(j)' = IF T = {} THEN 0 ELSE CHOOSE i \in T : \A l \in T : l <= i
        /\ HeadOf(j) = IF S = {} THEN 0 ELSE CHOOSE i \in S : \A l \in S : l <= i
      BY <1>1 DEF HeadOf, HeadAt
  <2>3. HeadOf(j) \in 0..n
      BY <1>1, HeadAtIsLast DEF HeadOf
  <2> HIDE DEF S, T
  <2>4. CASE j = k
    <3>1. n + 1 \in T /\ \A l \in T : l <= n + 1
        BY <2>1, <2>4
    <3>2. \A i \in T : (\A l \in T : l <= i) => i = n + 1
        BY <2>1, <2>4, <3>1
    <3>3. HeadOf(j)' = n + 1
        BY <2>2, <3>1, <3>2
    <3> QED
        BY <1>1, <2>4, <3>3 DEF StandingOf
  <2>5. CASE j # k
    <3>1. HeadOf(j)' = HeadOf(j)
        BY <2>1, <2>2, <2>5
    <3>2. HeadOf(j) # 0 => reviews'[HeadOf(j)] = reviews[HeadOf(j)]
        BY <1>1, <2>3
    <3> QED
        BY <2>5, <3>1, <3>2 DEF StandingOf
  <2> QED
      BY <2>4, <2>5
<1>4. Standing' = [Standing EXCEPT ![k] = s]
    BY <1>2, <1>3 DEF Standing, Keys, Key
<1> QED
    BY <1>1, <1>2, <1>4

\* A release is one more, under the approval that stands.
LEMMA ReleaseUnderStanding ==
    ASSUME LedgerTypeOK, NEW rq \in ReleaseRequest, CommitRelease(rq)
    PROVE  LET k == Key(rq.evidence) IN
           /\ rq.id \in ReleaseIds /\ k \in Keys /\ Standing[k] # 0
           /\ \A r \in Releases : r.id # rq.id
           /\ Releases' = Releases \cup {[id |-> rq.id, key |-> k, approval |-> Standing[k]]}
           /\ UNCHANGED <<Len(reviews), Standing>>
<1> DEFINE k == Key(rq.evidence)
           h == HeadOf(k)
           record == [request |-> rq, reviewSequence |-> h, revision |-> Len(reviews)]
<1>1. rq.id \in ReleaseIds /\ k \in Keys
    BY DEF Keys, ReleaseRequest
<1>2. Standing[k] = h /\ h # 0
    BY <1>1 DEF CommitRelease, CheckReleaseHead, Standing, StandingOf
<1>3. \A r \in Releases : r.id # rq.id
    BY DEF Releases, ReleaseOf, CommitRelease
<1>4. /\ outbox' \in Seq(Release) /\ Len(outbox') = Len(outbox) + 1
      /\ outbox'[Len(outbox) + 1] = record
      /\ \A i \in 1..Len(outbox) : outbox'[i] = outbox[i]
    BY CommitReleaseWrites
<1>5. /\ DOMAIN outbox = 1..Len(outbox) /\ Len(outbox) \in Nat
      /\ DOMAIN outbox' = 1..(Len(outbox) + 1)
    BY <1>4, LenProperties DEF LedgerTypeOK
<1>6. ReleaseOf(record) = [id |-> rq.id, key |-> k, approval |-> h]
    BY DEF ReleaseOf
<1> HIDE DEF record, h, k
<1>7. Releases' = Releases \cup {ReleaseOf(record)}
  <2>1. Releases' = {ReleaseOf(outbox'[i]) : i \in DOMAIN outbox'}
      BY DEF Releases, ReleaseOf, Key
  <2> QED
      BY <1>4, <1>5, <2>1 DEF Releases
<1>8. UNCHANGED <<Len(reviews), Standing>>
    BY GateKeeps DEF CommitRelease
<1> QED
    BY <1>1, <1>2, <1>3, <1>6, <1>7, <1>8 DEF k

\* What an event adds to the journal.
LEMMA EventAdded ==
    ASSUME events \in Seq(Event), NEW e, events' = Append(events, e), NEW op, NEW kind
    PROVE  Happened(op, kind, Len(events))' <=>
              Happened(op, kind, Len(events)) \/ (e.op = op /\ e.kind = kind)
<1>1. /\ Len(events) \in Nat /\ Len(events') = Len(events) + 1
      /\ events'[Len(events) + 1] = e
      /\ \A i \in 1..Len(events) : events'[i] = events[i]
    BY LenProperties
<1> QED
    BY <1>1 DEF Happened, EventsOf

LEMMA FailedState ==
    ASSUME NEW op
    PROVE  State(op) = "FAILED" <=> /\ Happened(op, "FAILED", Len(events))
                                    /\ ~Happened(op, "COMMITTED", Len(events))
    BY DEF State, StateAt, Happened

\* Only an operation that fails joins those that failed.
LEMMA FailedAfter ==
    ASSUME events \in Seq(Event), UNCHANGED intents, NEW op \in Registered, NEW kind,
           NEW generation, NEW worker, Record(op, kind, generation, worker),
           State(op) \notin Terminal
    PROVE  Failed' = IF kind = "FAILED" THEN Failed \cup {op} ELSE Failed
<1> DEFINE e == [op |-> op, kind |-> kind, generation |-> generation, worker |-> worker]
<1>1. events' = Append(events, e) /\ e.op = op /\ e.kind = kind
    BY DEF Record
<1> HIDE DEF e
<1>2. ~Happened(op, "COMMITTED", Len(events)) /\ ~Happened(op, "FAILED", Len(events))
    BY DEF State, StateAt, Terminal, Happened
<1>3. ASSUME NEW o
      PROVE  State(o)' = "FAILED" <=> State(o) = "FAILED" \/ (o = op /\ kind = "FAILED")
  <2>1. State(o)' = "FAILED" <=> /\ Happened(o, "FAILED", Len(events))'
                                 /\ ~Happened(o, "COMMITTED", Len(events))'
      BY DEF State, StateAt, Happened
  <2>2. State(o) = "FAILED" <=> /\ Happened(o, "FAILED", Len(events))
                                /\ ~Happened(o, "COMMITTED", Len(events))
      BY FailedState
  <2>3. /\ Happened(o, "FAILED", Len(events))' <=>
             Happened(o, "FAILED", Len(events)) \/ (op = o /\ kind = "FAILED")
        /\ Happened(o, "COMMITTED", Len(events))' <=>
             Happened(o, "COMMITTED", Len(events)) \/ (op = o /\ kind = "COMMITTED")
      BY <1>1, EventAdded
  <2> QED
      BY <1>2, <2>1, <2>2, <2>3
<1>4. Registered' = Registered
    BY DEF Registered
<1> QED
    BY <1>3, <1>4 DEF Failed

LEMMA ClosedAfter ==
    ASSUME UNCHANGED intents
    PROVE  /\ Failed' = Failed => UNCHANGED Closed
           /\ \A op : Failed' = Failed \cup {op} => Closed' = Closed \cup {intents[op].release}
    BY DEF Closed

\* Each operation has a release id of its own.
LEMMA ReleasesAreOwned ==
    ASSUME JournalTypeOK, OwnReleases, [JournalNext]_journalVars
    PROVE  OwnReleases'
<1>1. CASE UNCHANGED intents
    BY <1>1 DEF OwnReleases, Registered
<1>2. ASSUME NEW op, NEW p, NEW intent, NEW id, Register(op, p, intent, id)
      PROVE  OwnReleases'
  <2>1. /\ Registered' = Registered \cup {op} /\ intents'[op].release = id
        /\ \A o \in Registered : intents'[o] = intents[o] /\ intents[o].release # id
      BY <1>2 DEF Register, Registered, OwnedReleases
  <2> QED
      BY <2>1 DEF OwnReleases
<1> QED
    BY <1>1, <1>2, IntentsStep DEF RegisterStep

\* Registering an operation gives nothing up.
LEMMA RegisterStutters ==
    ASSUME JournalTypeOK, NEW op, NEW p, NEW intent, NEW id, Register(op, p, intent, id)
    PROVE  UNCHANGED Gate!vars
<1>1. ValidJournal(TRUE)
    BY WriteLoads DEF Register
<1>2. /\ Registered' = Registered \cup {op} /\ op \notin Registered
      /\ \A o \in Registered : intents'[o] = intents[o]
    BY DEF Register, Registered
<1>3. PICK e : events' = Append(events, e) /\ e.kind = "REGISTERED" /\ e.op = op
    BY DEF Register, Record
<1>4. \A o : State(o)' = "FAILED" <=> State(o) = "FAILED"
  <2> TAKE o
  <2>1. State(o)' = "FAILED" <=> /\ Happened(o, "FAILED", Len(events))'
                                 /\ ~Happened(o, "COMMITTED", Len(events))'
      BY DEF State, StateAt, Happened
  <2>2. \A kind \in {"FAILED", "COMMITTED"} :
            Happened(o, kind, Len(events))' <=> Happened(o, kind, Len(events))
      BY <1>3, EventAdded DEF JournalTypeOK
  <2> QED
      BY <2>1, <2>2, FailedState
<1>5. State(op) # "FAILED"
  <2>1. \A i \in DOMAIN events : events[i].op # op
      BY <1>1, <1>2 DEF ValidJournal
  <2>2. DOMAIN events = 1..Len(events)
      BY LenProperties DEF JournalTypeOK
  <2> QED
      BY <2>1, <2>2 DEF State, StateAt, EventsOf
<1>6. Failed' = Failed
    BY <1>2, <1>4, <1>5 DEF Failed
<1>7. UNCHANGED Closed
    BY <1>2, <1>6 DEF Closed, Failed
<1> QED
    BY <1>7, GateKeeps, GateState DEF Register, ledgerVars

\* An event that is no failure, and comes with no release, gives nothing up.
LEMMA EventStutters ==
    ASSUME JournalTypeOK, UNCHANGED <<ledgerVars, intents>>, NEW op \in Registered, NEW kind,
           NEW generation, NEW worker, Record(op, kind, generation, worker),
           State(op) \notin Terminal, kind # "FAILED"
    PROVE  UNCHANGED Gate!vars
<1>1. Failed' = Failed
    BY FailedAfter DEF JournalTypeOK
<1> QED
    BY <1>1, ClosedAfter, GateKeeps, GateState DEF ledgerVars

\* A failure gives up the release id of the operation, which nobody released.
LEMMA FailureGivesUp ==
    ASSUME GateInv, NEW f, FailUnder(f)
    PROVE  Gate!Next
<1>1. /\ f.op \in Registered /\ State(f.op) \notin Terminal /\ ValidJournal(TRUE)
      /\ UNCHANGED <<reviews, outbox, intents>>
    BY WriteLoads DEF FailUnder, Fenced, ledgerVars
<1>2. PICK id : id = intents[f.op].release
    OBVIOUS
<1>3. id \in ReleaseIds
    BY <1>1, <1>2 DEF GateInv, JournalTypeOK, IntentRecord
<1>4. id \notin Closed
    BY <1>1, <1>2 DEF GateInv, OwnReleases, Closed, Failed, Terminal
<1>5. \A r \in Releases : r.id # id
    BY <1>1, <1>2 DEF ValidJournal, Released, Releases, ReleaseOf, Terminal
<1>6. Failed' = Failed \cup {f.op}
    BY <1>1, FailedAfter DEF GateInv, JournalTypeOK, FailUnder, RecordNext
<1>7. Closed' = Closed \cup {id}
    BY <1>1, <1>2, <1>6, ClosedAfter
<1> QED
    BY <1>1, <1>3, <1>4, <1>5, <1>7, GateKeeps, GateGivesUp

\* A commit releases under the id of its operation, which did not fail.
LEMMA CommitReleases ==
    ASSUME GateInv, NEW f, Commit(f)
    PROVE  Gate!Next
<1>1. /\ f.op \in Registered /\ State(f.op) = "PREPARED" /\ ValidJournal(TRUE)
      /\ UNCHANGED intents
    BY WriteLoads DEF Commit, Fenced
<1>2. PICK rq \in ReleaseRequest : rq = prepared[f.op] /\ CandidateMatches(f.op, rq)
    BY <1>1, PreparedHasCandidate DEF GateInv, ValidJournal
<1>3. CommitRelease(rq)
    BY <1>2 DEF Commit
<1>4. rq.id \notin Closed
    BY <1>1, <1>2 DEF GateInv, OwnReleases, Closed, Failed, CandidateMatches
<1>5. Failed' = Failed
    BY <1>1, FailedAfter DEF GateInv, JournalTypeOK, Commit, RecordNext, Terminal
<1>6. UNCHANGED Closed
    BY <1>1, <1>5, ClosedAfter
<1> QED
    BY <1>3, <1>4, <1>6, ReleaseUnderStanding, GateRelease DEF GateInv, JournalTypeOK

\* A direct release misses every id that an operation owns.
LEMMA DirectReleases ==
    ASSUME GateInv, NEW rq \in ReleaseRequest, schema < 3,
           schema = 2 => rq.id \notin OwnedReleases, CommitRelease(rq),
           UNCHANGED <<intents, events>>
    PROVE  Gate!Next
<1>1. schema \in 1..3
    BY DEF GateInv, JournalTypeOK
<1>2. rq.id \notin Closed
    BY <1>1 DEF GateInv, RegistrationInv, Closed, Failed, OwnedReleases
<1> QED
    BY <1>2, GateKeeps, ReleaseUnderStanding, GateRelease DEF GateInv, JournalTypeOK

LEMMA ReviewsAreReviews ==
    ASSUME GateInv, NEW rq \in ReviewRequest, NEW a \in Reviewers, NEW x \in Nat,
           AppendReview(rq, a, x), UNCHANGED <<intents, events>>
    PROVE  Gate!Next
<1>1. UNCHANGED <<Releases, Closed>>
    BY GateKeeps DEF AppendReview
<1> QED
    BY <1>1, ReviewMovesStanding, GateReview DEF GateInv, JournalTypeOK

LEMMA QuietStutters ==
    UNCHANGED <<reviews, outbox, intents, events>> => UNCHANGED Gate!vars
    BY GateKeeps, GateState

LEMMA StoreStepIsGateStep ==
    ASSUME GateInv, StoreStep
    PROVE  Gate!Next \/ UNCHANGED Gate!vars
<1>1. ASSUME NEW rq \in ReviewRequests, NEW a \in Reviewers, NEW x \in 0..Len(reviews),
             ReviewWrite(rq, a, x)
      PROVE  Gate!Next \/ UNCHANGED Gate!vars
  <2>1. rq \in ReviewRequest /\ x \in Nat
      BY ReviewRequestsAreRequests DEF GateInv, JournalTypeOK, LedgerTypeOK
  <2>2. UNCHANGED <<intents, events>>
      BY <1>1 DEF ReviewWrite, storeVars
  <2>3. CASE AppendReview(rq, a, x)
      BY <2>1, <2>2, <2>3, ReviewsAreReviews
  <2>4. CASE AppendRetry(rq, a, x)
      BY <2>2, <2>4, QuietStutters DEF AppendRetry
  <2> QED
      BY <1>1, <2>3, <2>4 DEF ReviewWrite
<1>2. ASSUME NEW rq \in ReleaseRequestsUpTo(Len(reviews)), CommitDirectly(rq)
      PROVE  Gate!Next \/ UNCHANGED Gate!vars
  <2>1. rq \in ReleaseRequest
      BY ReviewRequestsAreRequests DEF GateInv, JournalTypeOK, LedgerTypeOK
  <2>2. /\ schema < 3 /\ UNCHANGED <<intents, events>>
        /\ schema = 2 => rq.id \notin OwnedReleases
      BY <1>2 DEF CommitDirectly, storeVars
  <2>3. CASE CommitRelease(rq)
      BY <2>1, <2>2, <2>3, DirectReleases
  <2>4. CASE CommitRetry(rq)
      BY <2>2, <2>4, QuietStutters DEF CommitRetry
  <2> QED
      BY <1>2, <2>3, <2>4 DEF CommitDirectly
<1>3. CASE MigrateToV2 \/ MigrateToV3
    BY <1>3, QuietStutters DEF MigrateToV2, MigrateToV3, ledgerVars
<1> QED
    BY <1>1, <1>2, <1>3 DEF StoreStep

LEMMA WorkerStepIsGateStep ==
    ASSUME GateInv, WorkerStep
    PROVE  Gate!Next \/ UNCHANGED Gate!vars
<1>1. ASSUME NEW op, Report(op) PROVE UNCHANGED Gate!vars
    BY <1>1, QuietStutters DEF Report, storeVars
<1>2. ASSUME NEW op, NEW p, NEW w, NEW n, Claim(op, p, w, n) PROVE UNCHANGED Gate!vars
    BY <1>2, EventStutters DEF Claim, GateInv
<1>3. ASSUME NEW f, Fail(f) PROVE Gate!Next
    BY <1>3, FailureGivesUp DEF Fail
<1>4. ASSUME NEW f, Commit(f) PROVE Gate!Next
    BY <1>4, CommitReleases
<1> QED
    BY <1>1, <1>2, <1>3, <1>4 DEF WorkerStep, Recover, CommitAgain

LEMMA PrepareStepIsGateStep ==
    ASSUME GateInv, NEW q \in Processes, PrepareStep(q)
    PROVE  Gate!Next \/ UNCHANGED Gate!vars
<1>1. CASE (\E f \in Fences : BeginPrepare(q, f)) \/ Resolve(q) \/ Abandon(q)
    BY <1>1, QuietStutters DEF BeginPrepare, Resolve, Abandon, ledgerVars, storeVars
<1>2. CASE RecordPrepared(q)
  <2> DEFINE op == local[q].fence.op
             h == events[LastOf(op, Len(events))]
  <2>1. /\ op \in Registered /\ State(op) = "REGISTERED" /\ UNCHANGED <<ledgerVars, intents>>
        /\ Record(op, "PREPARED", h.generation, h.worker)
      BY <1>2 DEF RecordPrepared, Fenced, RecordNext
  <2> HIDE DEF op, h
  <2>2. State(op) \notin Terminal
      BY <2>1 DEF Terminal
  <2> QED
      BY <2>1, <2>2, EventStutters DEF GateInv
<1>3. CASE RecordRejection(q)
    BY <1>3, FailureGivesUp DEF RecordRejection
<1> QED
    BY <1>1, <1>2, <1>3 DEF PrepareStep

\* Ledger, journal, workers and migrations together decide every release once,
\* and release only under the approval that stands at that moment.
THEOREM JournalImplementsReleaseGate == JournalSpec => ImplementsReleaseGate
<1>1. JournalInit => OwnReleases /\ Gate!Init
  <2> SUFFICES ASSUME JournalInit PROVE OwnReleases /\ Gate!Init
      OBVIOUS
  <2>1. /\ Len(reviews) = 0 /\ DOMAIN outbox = {} /\ Registered = {}
      BY DEF JournalInit, LedgerInit, Registered
  <2>2. \A k : HeadOf(k) = 0
      BY <2>1 DEF HeadOf, HeadAt, OfKey
  <2> QED
      BY <2>1, <2>2 DEF OwnReleases, Gate!Init
<1>2. GateInv /\ [JournalNext]_journalVars => OwnReleases' /\ [Gate!Next]_(Gate!vars)
  <2> SUFFICES ASSUME GateInv, [JournalNext]_journalVars
               PROVE  OwnReleases' /\ (Gate!Next \/ UNCHANGED Gate!vars)
      OBVIOUS
  <2>1. OwnReleases'
      BY ReleasesAreOwned DEF GateInv
  <2>2. CASE RegisterStep
      BY <2>1, <2>2, RegisterStutters DEF RegisterStep, GateInv
  <2>3. CASE UNCHANGED journalVars
      BY <2>1, <2>3, QuietStutters DEF journalVars, ledgerVars, storeVars
  <2> QED
      BY <2>1, <2>2, <2>3, StoreStepIsGateStep, WorkerStepIsGateStep, PrepareStepIsGateStep
         DEF JournalNext
<1>3. JournalSpec => [](JournalTypeOK /\ LedgerInv /\ JournalLoads /\ RegistrationInv)
    BY JournalTypes, JournalKeepsLedgerInv, StoreAlwaysLoads, RegistrationInvHolds, PTL
<1> QED
    BY <1>1, <1>2, <1>3, PTL DEF JournalSpec, GateInv, ImplementsReleaseGate, Gate!Spec
=============================================================================

---------------------- MODULE CheckpointAuthorityProofs ----------------------
(***************************************************************************)
(* The reconciliation authority, for any intents, clients, policies and    *)
(* clocks.  Its history is append-only, and every acceptance was made from *)
(* what stood before it; that, and the order in time and of the policies,  *)
(* is all its loader asks.  Nothing is assumed of the update store but     *)
(* that its events are dated.                                              *)
(***************************************************************************)
EXTENDS CheckpointAuthority, TLAPS, SequenceTheorems

Dated(image) == \E S : image \in Seq(S) /\ \A e \in S : e.at \in Nat

StoreDated ==
  /\ Dated(events)
  /\ update # NoUpdate /\ update.event # NoEvent => update.event.at \in Nat

\* What the loader asks of one acceptance, whenever it asks
Made(entries, i) ==
  LET e == entries[i]
      before == SubSeq(entries, 1, i - 1)
  IN /\ MayAccept(EnvelopeAfter(before), e.request, e.policy, e.at)
     /\ e = Acceptance(EnvelopeAfter(before), e.request, e.policy, e.at)

HistoryStands ==
  /\ \E S : history \in Seq(S)
  /\ \A i \in DOMAIN history :
       /\ history[i].at \in Nat /\ history[i].policy \in AuthorityPolicies
       /\ Dated(history[i].successor.image) /\ ~Late(history[i].successor.image, history[i].at)
       /\ Made(history, i)
  /\ \A i, j \in DOMAIN history : i < j =>
       /\ history[i].at <= history[j].at
       /\ PolicyFollows(history[j].policy, history[i].policy)
  /\ \A i, j \in DOMAIN history : history[i].request.id = history[j].request.id => i = j
  /\ \A i \in DOMAIN history : PolicyFollows(policy, history[i].policy)

AuthorityInv ==
  /\ clock \in Nat /\ policy \in AuthorityPolicies
  /\ StoreDated
  /\ \E S : asked \in [RequestIds -> S]
  /\ \A id \in RequestIds : asked[id] # NoRequest => asked[id].id = id /\ Dated(asked[id].image)
  /\ HistoryStands

-----------------------------------------------------------------------------
(* The update store *)

LEMMA DatedImages ==
  /\ Dated(<<>>)
  /\ \A image, e : Dated(image) /\ e.at \in Nat => Dated(Append(image, e))
  /\ \A image, n : Dated(image) /\ n \in 0..(Len(image) - 1) => Dated(SubSeq(image, 1, n))
<1>1. Dated(<<>>)
  <2>1. PICK S : S = {}
    OBVIOUS
  <2>2. <<>> \in Seq(S) /\ \A e \in S : e.at \in Nat
    BY <2>1
  <2> QED
    BY <2>2 DEF Dated
<1>2. ASSUME NEW image, NEW e, Dated(image), e.at \in Nat
      PROVE  Dated(Append(image, e))
  <2>1. PICK S : image \in Seq(S) /\ \A x \in S : x.at \in Nat
    BY <1>2 DEF Dated
  <2> DEFINE T == S \cup {e}
  <2>2. image \in Seq(T) /\ e \in T
    BY <2>1
  <2>3. Append(image, e) \in Seq(T)
    BY <2>2, AppendProperties
  <2>4. \A x \in T : x.at \in Nat
    BY <1>2, <2>1
  <2> QED
    BY <2>3, <2>4 DEF Dated
<1>3. ASSUME NEW image, NEW n, Dated(image), n \in 0..(Len(image) - 1)
      PROVE  Dated(SubSeq(image, 1, n))
  <2>1. PICK S : image \in Seq(S) /\ \A x \in S : x.at \in Nat
    BY <1>3 DEF Dated
  <2>2. \A k \in 1..n : image[k] \in S
    BY <1>3, <2>1, ElementOfSeq, LenProperties
  <2>3. SubSeq(image, 1, n) \in Seq(S)
    BY <1>3, <2>1, <2>2, SubSeqProperties, LenProperties
  <2> QED
    BY <2>1, <2>3 DEF Dated
<1> QED
  BY <1>1, <1>2, <1>3

LEMMA StoreStaysDated ==
  ASSUME clock \in Nat, StoreDated, UpdateNext
  PROVE  StoreDated' /\ clock' \in Nat
<1>1. CASE SetClock /\ UNCHANGED <<events, update>>
  <2>1. clock' \in Nat
    BY <1>1, ClockConstants DEF SetClock, Times
  <2> QED
    BY <1>1, <2>1 DEF StoreDated
<1>2. ASSUME NEW view, NEW expected, BeginAuthority(view, expected), UNCHANGED clock
      PROVE  StoreDated'
  BY <1>2 DEF BeginAuthority, Opened, StoreDated, NoEvent
<1>3. ASSUME NEW action, NEW intent, NEW seen, BeginOperation(action, intent, seen), UNCHANGED clock
      PROVE  StoreDated'
  <2> DEFINE event == EventFor(events, action, intent, seen, clock)
  <2>1. event # NoEvent => event.at = clock
    BY DEF EventFor, NoEvent
  <2>2. UNCHANGED events /\ update'.event = event
    BY <1>3 DEF BeginOperation, Opened
  <2> HIDE DEF event
  <2> QED
    BY <2>1, <2>2 DEF StoreDated
<1>4. CASE (CommitUpdate \/ CommitUpdateFails) /\ UNCHANGED clock
  <2>1. /\ events' \in {events, With(events, update.event)} /\ update' = NoUpdate
        /\ update # NoUpdate
    BY <1>4 DEF CommitUpdate, CommitUpdateFails, Reply
  <2>2. Dated(With(events, update.event))
    BY <2>1, DatedImages DEF With, StoreDated
  <2>3. Dated(events) /\ Dated(events')
    BY <2>1, <2>2 DEF StoreDated
  <2> QED
    BY <1>4, <2>1, <2>3 DEF StoreDated
<1>5. CASE RollbackUpdate /\ UNCHANGED clock
  BY <1>5 DEF RollbackUpdate, Reply, StoreDated
<1>6. ASSUME NEW n \in 0..(Len(events) - 1), RestoreStore(n), UNCHANGED clock
      PROVE  StoreDated'
  <2>1. events' = SubSeq(events, 1, n) /\ UNCHANGED update
    BY <1>6 DEF RestoreStore
  <2>2. Dated(SubSeq(events, 1, n))
    BY DatedImages DEF StoreDated
  <2> QED
    BY <2>1, <2>2 DEF StoreDated
<1> QED
  BY <1>1, <1>2, <1>3, <1>4, <1>5, <1>6 DEF UpdateNext, UpdateStep
-----------------------------------------------------------------------------
(* What is accepted *)

\* An acceptance extends the image of the envelope before it, and knows of
\* nothing that lies ahead of its instant.
LEMMA AcceptedExtends ==
  ASSUME NEW envelope, NEW r, NEW p, NEW now, MayAccept(envelope, r, p, now)
  PROVE  /\ IsStrictPrefix(envelope.image, Acceptance(envelope, r, p, now).successor.image)
         /\ ~Late(Acceptance(envelope, r, p, now).successor.image, now)
<1>1. Relationship(r.image, envelope, now) = "DATABASE_EXTENSION_PENDING"
  BY DEF MayAccept
<1>2. ~Late(r.image, now) /\ IsPrefix(envelope.image, r.image) /\ r.image # envelope.image
  BY <1>1 DEF Relationship
<1>3. Acceptance(envelope, r, p, now).successor.image = r.image
  BY DEF Acceptance
<1> QED
  BY <1>2, <1>3 DEF IsStrictPrefix

\* What stands before a place of a history does not change with it.
LEMMA HistoryGrows ==
  ASSUME NEW S, NEW s \in Seq(S), NEW e
  PROVE  /\ \E T : Append(s, e) \in Seq(T)
         /\ DOMAIN s = 1..Len(s) /\ DOMAIN Append(s, e) = 1..(Len(s) + 1)
         /\ Len(s) \in Nat /\ Len(Append(s, e)) = Len(s) + 1
         /\ \A i \in 1..Len(s) : Append(s, e)[i] = s[i]
         /\ Append(s, e)[Len(s) + 1] = e
         /\ \A i \in 1..Len(s) : SubSeq(Append(s, e), 1, i - 1) = SubSeq(s, 1, i - 1)
         /\ SubSeq(Append(s, e), 1, Len(s)) = s
         /\ IsPrefix(s, Append(s, e))
<1> DEFINE T == S \cup {e}
           t == Append(s, e)
<1>1. s \in Seq(T) /\ e \in T
  OBVIOUS
<1>2. /\ t \in Seq(T) /\ Len(t) = Len(s) + 1 /\ Len(s) \in Nat
      /\ \A i \in 1..Len(s) : t[i] = s[i]
      /\ t[Len(s) + 1] = e /\ DOMAIN s = 1..Len(s) /\ DOMAIN t = 1..(Len(s) + 1)
  BY <1>1, AppendProperties, LenProperties
<1> HIDE DEF t
<1>3. ASSUME NEW n \in 0..Len(s)
      PROVE  SubSeq(t, 1, n) = SubSeq(s, 1, n)
  <2>1. \A j \in 1..n : t[j] = s[j] /\ s[j] \in T
    BY <1>1, <1>2, ElementOfSeq
  <2>2. /\ SubSeq(s, 1, n) \in Seq(T) /\ Len(SubSeq(s, 1, n)) = n
        /\ \A j \in 1..n : SubSeq(s, 1, n)[j] = s[j]
    BY <1>1, <1>2, <2>1, SubSeqProperties
  <2>3. /\ SubSeq(t, 1, n) \in Seq(T) /\ Len(SubSeq(t, 1, n)) = n
        /\ \A j \in 1..n : SubSeq(t, 1, n)[j] = t[j]
    BY <1>2, <2>1, SubSeqProperties
  <2> QED
    BY <2>1, <2>2, <2>3, SeqEqual
<1>4. SubSeq(s, 1, Len(s)) = s
  BY <1>1, SubSeqFull
<1>5. \A i \in 1..Len(s) : SubSeq(t, 1, i - 1) = SubSeq(s, 1, i - 1)
  BY <1>2, <1>3
<1>6. SubSeq(t, 1, Len(s)) = s /\ IsPrefix(s, t)
  BY <1>2, <1>3, <1>4 DEF IsPrefix
<1> QED
  BY <1>2, <1>5, <1>6 DEF t

\* The envelope before the acceptance at i
LEMMA MadeStands ==
  ASSUME NEW S, NEW s \in Seq(S), NEW e, NEW i \in DOMAIN s
  PROVE  Made(Append(s, e), i) <=> Made(s, i)
<1>1. Append(s, e)[i] = s[i] /\ SubSeq(Append(s, e), 1, i - 1) = SubSeq(s, 1, i - 1)
  BY HistoryGrows
<1> QED
  BY <1>1 DEF Made

\* A history that stands loads, at any time that is not before its last entry.
LEMMA StandingLoads ==
  ASSUME AuthorityInv, NEW now \in Nat, history # <<>> => history[Len(history)].at <= now
  PROVE  AuthorityLoads(history, policy, now)
<1> DEFINE n == Len(history)
<1>1. PICK S : history \in Seq(S)
  BY DEF AuthorityInv, HistoryStands
<1>2. /\ DOMAIN history = 1..n /\ n \in Nat /\ (history = <<>> <=> n = 0)
  BY <1>1, LenProperties, EmptySeq
<1>3. \A i \in 1..n : /\ history[i].at \in Nat /\ history[i].at <= history[n].at
                      /\ history[i].at <= now
  BY <1>2 DEF AuthorityInv, HistoryStands
<1>4. ~Late(EnvelopeAfter(history).image, now)
  <2>1. CASE n = 0
    <3>1. EnvelopeAfter(history).image = <<>>
      BY <1>2, <2>1 DEF EnvelopeAfter, FirstEnvelope
    <3> QED
      BY <3>1 DEF Late
  <2>2. CASE n # 0
    <3>1. EnvelopeAfter(history) = history[n].successor /\ n \in DOMAIN history
      BY <1>2, <2>2 DEF EnvelopeAfter
    <3> DEFINE image == history[n].successor.image
    <3>2. Dated(image) /\ ~Late(image, history[n].at) /\ history[n].at <= now /\ history[n].at \in Nat
      BY <1>2, <1>3, <3>1 DEF AuthorityInv, HistoryStands
    <3> HIDE DEF image
    <3>3. \A k \in DOMAIN image : image[k].at \in Nat
      BY <3>2, ElementOfSeq, LenProperties DEF Dated
    <3>4. ~Late(image, now)
      BY <1>3, <3>2, <3>3 DEF Late
    <3> QED
      BY <3>1, <3>4 DEF image
  <2> QED
    BY <2>1, <2>2
<1>5. history # <<>> => PolicyFollows(policy, history[n].policy)
  BY <1>2 DEF AuthorityInv, HistoryStands
<1>6. ASSUME NEW i \in DOMAIN history
      PROVE  LET e == history[i]
                 before == SubSeq(history, 1, i - 1)
             IN /\ e.at <= now
                /\ \A j \in DOMAIN before : before[j].request.id # e.request.id
                /\ before # <<>> =>
                     before[i - 1].at <= e.at /\ PolicyFollows(e.policy, before[i - 1].policy)
                /\ MayAccept(EnvelopeAfter(before), e.request, e.policy, e.at)
                /\ e = Acceptance(EnvelopeAfter(before), e.request, e.policy, e.at)
  <2> DEFINE before == SubSeq(history, 1, i - 1)
  <2>1. \A j \in 1..(i - 1) : history[j] \in S
    BY <1>1, <1>2, ElementOfSeq
  <2>2. /\ DOMAIN before = 1..(i - 1) /\ \A j \in 1..(i - 1) : before[j] = history[j]
        /\ before # <<>> => i - 1 \in DOMAIN history
    <3>1. /\ before \in Seq(S) /\ Len(before) = i - 1
          /\ \A j \in 1..(i - 1) : before[j] = history[j]
      BY <1>1, <1>2, <2>1, SubSeqProperties
    <3> QED
      BY <1>2, <3>1, LenProperties, EmptySeq
  <2>3. Made(history, i) /\ history[i].at <= now
    BY <1>2, <1>3 DEF AuthorityInv, HistoryStands
  <2>4. \A j \in DOMAIN before : before[j].request.id # history[i].request.id
    BY <1>2, <2>2 DEF AuthorityInv, HistoryStands
  <2>5. before # <<>> => /\ before[i - 1].at <= history[i].at
                         /\ PolicyFollows(history[i].policy, before[i - 1].policy)
    BY <1>2, <2>2 DEF AuthorityInv, HistoryStands
  <2> HIDE DEF before
  <2> QED
    BY <2>3, <2>4, <2>5 DEF Made, before
<1> QED
  BY <1>4, <1>5, <1>6 DEF AuthorityLoads
-----------------------------------------------------------------------------
(* The steps of the authority *)

\* A draft is made of a ledger whose events are dated.
LEMMA DraftKept ==
  ASSUME AuthorityInv, NEW client, NEW id \in RequestIds, Draft(client, id),
         UNCHANGED <<clock, events, update>>
  PROVE  AuthorityInv'
<1> DEFINE d == [id |-> id, client |-> client, expected |-> EnvelopeAfter(history),
                 image |-> events, until |-> clock + RequestLifetime, policy |-> policy.revision]
<1>1. asked' = [asked EXCEPT ![id] = d] /\ UNCHANGED <<history, policy>>
  BY DEF Draft
<1>2. d.id = id /\ d.image = events
  OBVIOUS
<1> HIDE DEF d
<1>3. PICK S : asked \in [RequestIds -> S]
  BY DEF AuthorityInv
<1> DEFINE T == S \cup {d}
<1>4. asked' \in [RequestIds -> T]
  BY <1>1, <1>3
<1>5. ASSUME NEW x \in RequestIds, asked'[x] # NoRequest
      PROVE  asked'[x].id = x /\ Dated(asked'[x].image)
  BY <1>1, <1>2, <1>3, <1>5 DEF AuthorityInv, StoreDated
<1>6. HistoryStands' /\ StoreDated'
  BY <1>1 DEF AuthorityInv, HistoryStands, StoreDated, Made
<1> QED
  BY <1>1, <1>4, <1>5, <1>6 DEF AuthorityInv

\* What is acceptable stands where it is put.
LEMMA AcceptanceStands ==
  ASSUME AuthorityInv, NEW r, Acceptable(r), Dated(r.image), history' = Proposed(r),
         UNCHANGED policy
  PROVE  HistoryStands'
<1> DEFINE e == Acceptance(EnvelopeAfter(history), r, policy, clock)
           n == Len(history) + 1
<1>1. /\ AuthorityLoads(history, policy, clock) /\ Recorded(r.id) = {}
      /\ MayAccept(EnvelopeAfter(history), r, policy, clock)
      /\ clock \in Nat /\ policy \in AuthorityPolicies
  BY DEF Acceptable, Addressed, AuthorityInv
<1>2. e.request = r /\ e.policy = policy /\ e.at = clock /\ e.successor.image = r.image
  BY DEF Acceptance
<1>3. ~Late(e.successor.image, e.at)
  BY <1>1, <1>2, AcceptedExtends
<1>4. e = Acceptance(EnvelopeAfter(history), e.request, e.policy, e.at)
  BY <1>2
<1>5. history' = Append(history, e)
  BY DEF Proposed
<1> HIDE DEF e
<1>6. PICK S : history \in Seq(S)
  BY DEF AuthorityInv, HistoryStands
<1>7. /\ \E T : history' \in Seq(T)
      /\ DOMAIN history = 1..Len(history) /\ Len(history) \in Nat
      /\ DOMAIN history' = 1..n
      /\ \A i \in DOMAIN history : history'[i] = history[i]
      /\ history'[n] = e
      /\ SubSeq(history', 1, n - 1) = history
  <2>1. n - 1 = Len(history)
    BY <1>6, LenProperties
  <2>2. SubSeq(Append(history, e), 1, Len(history)) = history
    BY <1>6, HistoryGrows
  <2>3. SubSeq(history', 1, n - 1) = history
    BY <1>5, <2>1, <2>2
  <2>4. /\ DOMAIN history = 1..Len(history) /\ Len(history) \in Nat
        /\ DOMAIN Append(history, e) = 1..n
        /\ \A i \in 1..Len(history) : Append(history, e)[i] = history[i]
        /\ Append(history, e)[n] = e
    BY <1>6, HistoryGrows
  <2>5. \E T : Append(history, e) \in Seq(T)
    BY <1>6, HistoryGrows
  <2> QED
    BY <1>5, <2>3, <2>4, <2>5
<1>8. Made(history', n)
  BY <1>1, <1>2, <1>4, <1>7 DEF Made
<1>9. \A i \in DOMAIN history : Made(history', i)
  BY <1>5, <1>6, MadeStands DEF AuthorityInv, HistoryStands
<1>10. \A i \in DOMAIN history : history[i].at <= clock /\ history[i].request.id # r.id
  BY <1>1 DEF AuthorityLoads, Recorded
<1> DEFINE old == DOMAIN history
<1>11. /\ n \notin old /\ DOMAIN history' = old \cup {n}
       /\ ~(n < n) /\ \A i \in old : i < n /\ ~(n < i)
  BY <1>7
<1>12. \A i \in old : PolicyFollows(policy, history[i].policy)
  BY DEF AuthorityInv, HistoryStands
<1> HIDE DEF n, old
<1>13. ASSUME NEW i \in DOMAIN history'
       PROVE  /\ history'[i].at \in Nat /\ history'[i].policy \in AuthorityPolicies
              /\ Dated(history'[i].successor.image)
              /\ ~Late(history'[i].successor.image, history'[i].at)
              /\ Made(history', i)
              /\ PolicyFollows(policy, history'[i].policy)
  <2>1. CASE i = n
    BY <1>1, <1>2, <1>3, <1>7, <1>8, <2>1 DEF PolicyFollows
  <2>2. CASE i \in old
    BY <1>7, <1>9, <1>12, <2>2 DEF AuthorityInv, HistoryStands, old
  <2> QED
    BY <1>11, <2>1, <2>2
<1>14. ASSUME NEW i \in DOMAIN history', NEW j \in DOMAIN history', i < j
       PROVE  /\ history'[i].at <= history'[j].at
              /\ PolicyFollows(history'[j].policy, history'[i].policy)
  <2>1. i \in old /\ history'[i] = history[i]
    BY <1>7, <1>11, <1>14 DEF old
  <2>2. CASE j = n
    BY <1>2, <1>7, <1>10, <1>12, <2>1, <2>2 DEF old
  <2>3. CASE j \in old
    BY <1>7, <1>14, <2>1, <2>3 DEF AuthorityInv, HistoryStands, old
  <2> QED
    BY <1>11, <2>2, <2>3
<1>15. ASSUME NEW i \in DOMAIN history', NEW j \in DOMAIN history',
              history'[i].request.id = history'[j].request.id
       PROVE  i = j
  <2>1. CASE i \in old /\ j \in old
    BY <1>7, <1>15, <2>1 DEF AuthorityInv, HistoryStands, old
  <2>2. CASE i = n \/ j = n
    BY <1>2, <1>7, <1>10, <1>11, <1>15, <2>2 DEF old
  <2> QED
    BY <1>11, <2>1, <2>2
<1> QED
  BY <1>7, <1>13, <1>14, <1>15 DEF HistoryStands

\* A policy that replaces another follows all the other followed.
LEMMA PolicyKept ==
  ASSUME AuthorityInv, NEW p \in AuthorityPolicies, ReplaceAuthorityPolicy(p),
         UNCHANGED <<clock, events, update>>
  PROVE  AuthorityInv'
<1>1. p.revision > policy.revision /\ policy' = p /\ UNCHANGED <<history, asked>>
  BY DEF ReplaceAuthorityPolicy
<1>2. \A q \in AuthorityPolicies : q.revision \in Nat
  BY AuthorityConstants
<1>3. ASSUME NEW i \in DOMAIN history
      PROVE  PolicyFollows(p, history[i].policy)
  <2>1. PolicyFollows(policy, history[i].policy) /\ history[i].policy \in AuthorityPolicies
        /\ policy \in AuthorityPolicies
    BY DEF AuthorityInv, HistoryStands
  <2> QED
    BY <1>1, <1>2, <2>1 DEF PolicyFollows
<1>4. HistoryStands'
  BY <1>1, <1>3 DEF AuthorityInv, HistoryStands, Made
<1> QED
  BY <1>1, <1>4 DEF AuthorityInv, StoreDated

LEMMA SubmissionKept ==
  ASSUME AuthorityInv, NEW id \in RequestIds, Submit(id) \/ SubmitFails(id),
         UNCHANGED <<clock, events, update>>
  PROVE  AuthorityInv'
<1>1. /\ Acceptable(asked[id]) /\ history' \in {history, Proposed(asked[id])}
      /\ UNCHANGED <<policy, asked>>
  BY DEF Submit, SubmitFails
<1>2. Dated(asked[id].image)
  BY <1>1 DEF Acceptable, Addressed, AuthorityInv
<1>3. HistoryStands'
  <2>1. CASE UNCHANGED history
    BY <1>1, <2>1 DEF AuthorityInv, HistoryStands, Made
  <2>2. CASE history' = Proposed(asked[id])
    BY <1>1, <1>2, <2>2, AcceptanceStands
  <2> QED
    BY <1>1, <2>1, <2>2
<1> QED
  BY <1>1, <1>3 DEF AuthorityInv, StoreDated

LEMMA AuthorityStarts == Init => AuthorityInv
<1> SUFFICES ASSUME Init PROVE AuthorityInv
  OBVIOUS
<1>1. StoreDated
  BY DatedImages DEF Init, UpdateInit, StoreDated
<1>2. asked \in [RequestIds -> {NoRequest}] /\ \A id \in RequestIds : asked[id] = NoRequest
  BY DEF Init
<1>3. HistoryStands
  <2>1. PICK S : S = {}
    OBVIOUS
  <2>2. history \in Seq(S) /\ DOMAIN history = {}
    BY <2>1 DEF Init
  <2> QED
    BY <2>2 DEF HistoryStands
<1> QED
  BY <1>1, <1>2, <1>3, AuthorityConstants DEF Init, AuthorityInv

LEMMA AuthorityStep == AuthorityInv /\ [Next]_vars => AuthorityInv'
<1> SUFFICES ASSUME AuthorityInv, [Next]_vars PROVE AuthorityInv'
  OBVIOUS
<1>1. ASSUME UNCHANGED <<history, policy, asked>>, clock' \in Nat, StoreDated'
      PROVE  AuthorityInv'
  BY <1>1 DEF AuthorityInv, HistoryStands, Made
<1>2. CASE UNCHANGED vars
  BY <1>1, <1>2 DEF vars, updateVars, authorityVars, AuthorityInv, StoreDated
<1>3. CASE UpdateNext /\ UNCHANGED <<history, policy, asked>>
  BY <1>1, <1>3, StoreStaysDated DEF AuthorityInv
<1>4. CASE AuthorityNext /\ UNCHANGED <<clock, events, update>>
  <2>1. ASSUME NEW id \in RequestIds, RecoverAcceptance(id)
        PROVE  AuthorityInv'
    BY <1>1, <1>4, <2>1 DEF RecoverAcceptance, AuthorityInv, StoreDated
  <2> QED
    BY <1>4, <2>1, DraftKept, SubmissionKept, PolicyKept DEF AuthorityNext
<1> QED
  BY <1>2, <1>3, <1>4 DEF Next

LEMMA AuthorityAlways == Spec => []AuthorityInv
  BY AuthorityStarts, AuthorityStep, PTL DEF Spec

-----------------------------------------------------------------------------
(* What the authority promises *)

(***************************************************************************)
(* The loader (reconciliation_simulation.py _validate_state), which every  *)
(* transaction of the writer begins with, refuses a history only for a     *)
(* clock that stands before the last acceptance.                           *)
(***************************************************************************)
THEOREM HistoryStaysReadable == Spec => []RefusedForTimeOnly
<1>1. AuthorityInv => RefusedForTimeOnly
  BY StandingLoads, ClockConstants DEF RefusedForTimeOnly, Times
<1> QED
  BY <1>1, AuthorityAlways, PTL

(***************************************************************************)
(* Whatever the update store is set back to, what is accepted extends      *)
(* strictly what was accepted (classify_checkpoint_relationship), and no   *)
(* acceptance is ever dropped.                                             *)
(***************************************************************************)
THEOREM AcceptedImagesExtend == Spec => AcceptedOnlyGrows
<1> DEFINE Grows == /\ IsPrefix(history, history')
                    /\ \/ IsStrictPrefix(EnvelopeAfter(history).image, EnvelopeAfter(history').image)
                       \/ history' = history
<1>1. AuthorityInv /\ [Next]_vars => [Grows]_vars
  <2> SUFFICES ASSUME AuthorityInv, Next PROVE Grows
    OBVIOUS
  <2>1. PICK S : history \in Seq(S)
    BY DEF AuthorityInv, HistoryStands
  <2>2. CASE UNCHANGED history
    BY <2>1, <2>2 DEF IsPrefix
  <2>3. ASSUME NEW r, Acceptable(r), history' = Proposed(r)
        PROVE  Grows
    <3> DEFINE e == Acceptance(EnvelopeAfter(history), r, policy, clock)
    <3>1. IsStrictPrefix(EnvelopeAfter(history).image, e.successor.image)
      BY <2>3, AcceptedExtends DEF Acceptable
    <3>2. history' = Append(history, e)
      BY <2>3 DEF Proposed
    <3> HIDE DEF e
    <3>3. IsPrefix(history, history') /\ history'[Len(history')] = e /\ history' # <<>>
      BY <2>1, <3>2, HistoryGrows
    <3>4. EnvelopeAfter(history') = e.successor
      BY <3>3 DEF EnvelopeAfter
    <3> QED
      BY <3>1, <3>3, <3>4
  <2>4. \/ UNCHANGED history
        \/ \E id \in RequestIds : Acceptable(asked[id]) /\ history' = Proposed(asked[id])
    BY DEF Next, AuthorityNext, Draft, Submit, SubmitFails, RecoverAcceptance, ReplaceAuthorityPolicy
  <2> QED
    BY <2>2, <2>3, <2>4
<1> QED
  BY <1>1, AuthorityAlways, PTL DEF Spec, AcceptedOnlyGrows

(***************************************************************************)
(* An answer names the acceptance of the very request that was asked, a    *)
(* recovery adds none, and no id is on record twice (simulate_authority).  *)
(***************************************************************************)
THEOREM RepeatsAreRecovered == Spec => RepeatsMakeNothing
<1> DEFINE Faithful == /\ outcome'.status \in {"ACCEPTED", "RECOVERED"} =>
                            history'[outcome'.at].request = asked[outcome'.id]
                       /\ outcome'.status = "RECOVERED" => history' = history
                       /\ \A i, j \in DOMAIN history' :
                            history'[i].request.id = history'[j].request.id => i = j
<1>1. AuthorityInv /\ AuthorityInv' /\ [Next]_vars => [Faithful]_vars
  <2> SUFFICES ASSUME AuthorityInv, AuthorityInv', Next PROVE Faithful
    OBVIOUS
  <2>1. \A i, j \in DOMAIN history' : history'[i].request.id = history'[j].request.id => i = j
    BY DEF AuthorityInv, HistoryStands
  <2>2. CASE outcome' = NoOutcome
    BY <2>1, <2>2 DEF NoOutcome
  <2>3. ASSUME NEW id \in RequestIds, Submit(id)
        PROVE  Faithful
    <3> DEFINE e == Acceptance(EnvelopeAfter(history), asked[id], policy, clock)
    <3>1. /\ history' = Append(history, e)
          /\ outcome' = [status |-> "ACCEPTED", id |-> id, at |-> Len(history) + 1]
      BY <2>3 DEF Submit, Proposed, Answered
    <3>2. e.request = asked[id]
      BY DEF Acceptance
    <3> HIDE DEF e
    <3>3. history'[Len(history) + 1] = e
      BY <3>1, HistoryGrows DEF AuthorityInv, HistoryStands
    <3> QED
      BY <2>1, <3>1, <3>2, <3>3
  <2>4. ASSUME NEW id \in RequestIds, RecoverAcceptance(id)
        PROVE  Faithful
    <3>1. PICK i \in Recorded(asked[id].id) :
            /\ history[i].request = asked[id]
            /\ outcome' = [status |-> "RECOVERED", id |-> id, at |-> i]
      BY <2>4 DEF RecoverAcceptance, Answered
    <3>2. UNCHANGED history
      BY <2>4 DEF RecoverAcceptance
    <3> QED
      BY <2>1, <3>1, <3>2
  <2> QED
    BY <2>2, <2>3, <2>4 DEF Next, AuthorityNext, Draft, SubmitFails, ReplaceAuthorityPolicy
<1> QED
  BY <1>1, AuthorityAlways, PTL DEF Spec, RepeatsMakeNothing
=============================================================================

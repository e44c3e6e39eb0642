------------------------- MODULE ClaimReplayProofs -------------------------
(***************************************************************************)
(* What a replay shows, for any claims, instants, ids, evidence and number *)
(* of transitions.  The policy is asked when a transition is recorded, and *)
(* of a history that may have grown since; the replay asks nothing of it.  *)
(* The invariant is that each transition is a move from the state it says  *)
(* it starts from, and the link from each to the last one of its claim,    *)
(* which the replay does check, makes of those moves one course.           *)
(***************************************************************************)
EXTENDS ClaimReplay, SequenceTheorems, WellFoundedInduction, TLAPS

States == Proposable \cup {NoState}

ClaimTransition ==
  [id : Ids, assertion : Assertions, from : States, to : Proposable, at : Times,
   evidence : EvidenceLists]

Histories == Seq(ClaimTransition)

\* Each transition is one the policy allows from the state it starts from.
Authentic == \A i \in DOMAIN history : history[i].to \in Allowed(history[i].from)

\* What was released is the replay of the inventory its engine was built from.
OutcomeHolds ==
  outcome.status = "released" =>
    LET inventory == SubSeq(history, 1, outcome.inventory)
        query == outcome.query
    IN /\ outcome.inventory \in 0..Len(history) /\ query \in Times
       /\ Replays(inventory, query)
       /\ outcome.transitions = {inventory[i] : i \in Selected(inventory, query)}
       /\ outcome.snapshot = Snapshot(inventory, query, AsReplayed(inventory))

ReplayInv == history \in Histories /\ Authentic /\ OutcomeHolds

-----------------------------------------------------------------------------
(* The last of a set of positions.                                         *)

\* The positions up to k, when there are any, have one that none comes after.
HasGreatest(T, R, k) ==
  (\E i \in T : i <= k) => \E m \in T : m <= k /\ \A j \in T : j <= k => <<j, m>> \in R

LEMMA GreatestPosition ==
  ASSUME NEW n \in Nat, NEW T \in SUBSET (1..n), T # {}, NEW R,
         \A i, j \in T : <<i, j>> \in R \/ <<j, i>> \in R,
         \A i, j, k \in T : <<i, j>> \in R /\ <<j, k>> \in R => <<i, k>> \in R
  PROVE  \E m \in T : \A j \in T : <<j, m>> \in R
<1> DEFINE bad == {k \in Nat : ~HasGreatest(T, R, k)}
           less == OpToRel(<, Nat)
<1>1. \A i \in T : i \in Nat /\ i >= 1 /\ i <= n
  OBVIOUS
<1>2. CASE bad = {}
  <2>1. HasGreatest(T, R, n)
    BY <1>2
  <2> QED
    BY <1>1, <2>1 DEF HasGreatest
<1>3. CASE bad # {}
  <2>1. IsWellFoundedOn(less, Nat)
    BY NatLessThanWellFounded
  <2>2. \A i, j \in Nat : <<i, j>> \in less <=> i < j
    BY DEF OpToRel
  <2>3. bad \subseteq Nat
    OBVIOUS
  <2> HIDE DEF less, bad
  <2>4. PICK k \in bad : \A j \in bad : ~(<<j, k>> \in less)
    BY <1>3, <2>1, <2>3, WFMin
  <2>5. k \in Nat /\ \A j \in bad : ~(j < k)
    BY <2>2, <2>3, <2>4, Zenon
  <2>6. ~HasGreatest(T, R, k)
    BY <2>4 DEF bad
  <2>7. k # 0
    BY <1>1, <2>6 DEF HasGreatest
  <2>8. k - 1 \in Nat /\ k - 1 < k
    BY <2>5, <2>7
  <2>9. HasGreatest(T, R, k - 1)
    BY <2>5, <2>8 DEF bad
  <2>10. \A i \in T : i <= k <=> i <= k - 1 \/ i = k
    BY <1>1, <2>5
  <2>11. k \in T
    BY <2>6, <2>9, <2>10 DEF HasGreatest
  <2>12. CASE \E i \in T : i <= k - 1
    <3>1. PICK m \in T : m <= k - 1 /\ \A j \in T : j <= k - 1 => <<j, m>> \in R
      BY <2>9, <2>12 DEF HasGreatest
    <3>2. CASE <<k, m>> \in R
      <4>1. m <= k /\ \A j \in T : j <= k => <<j, m>> \in R
        BY <2>10, <3>1, <3>2
      <4> QED
        BY <2>6, <4>1 DEF HasGreatest
    <3>3. CASE <<m, k>> \in R
      <4>1. \A j \in T : j <= k => <<j, k>> \in R
        <5>1. <<k, k>> \in R
          BY <2>11
        <5>2. \A j \in T : j <= k - 1 => <<j, k>> \in R
          BY <2>11, <3>1, <3>3
        <5> QED
          BY <2>10, <5>1, <5>2
      <4>2. k <= k
        BY <2>5
      <4> QED
        BY <2>6, <2>11, <4>1, <4>2 DEF HasGreatest
    <3> QED
      BY <2>11, <3>1, <3>2, <3>3
  <2>13. CASE ~ \E i \in T : i <= k - 1
    <3>1. \A j \in T : j <= k => <<j, k>> \in R
      BY <2>10, <2>11, <2>13
    <3> QED
      BY <2>5, <2>6, <2>11, <3>1 DEF HasGreatest
  <2> QED
    BY <2>12, <2>13
<1> QED
  BY <1>2, <1>3

\* max has an answer, and it is the first of those that occurred last.
LEMMA LatestIsLast ==
  ASSUME NEW n \in Nat, NEW positions \in SUBSET (1..n), positions # {}, NEW list, NEW order,
         \A i \in positions : list[i].at \in Nat /\ order[i] \in Nat
  PROVE  LET l == Latest(list, positions, order) IN
         /\ l \in positions
         /\ \A j \in positions : list[j].at <= list[l].at
         /\ \A j \in positions : list[j].at = list[l].at => order[l] <= order[j]
<1> DEFINE Below(i, j) == \/ list[i].at < list[j].at
                          \/ list[i].at = list[j].at /\ order[j] <= order[i]
           R == {p \in positions \X positions : Below(p[1], p[2])}
<1>1. \A i, j \in positions : <<i, j>> \in R <=> Below(i, j)
  OBVIOUS
<1>2. \A i, j \in positions : Below(i, j) \/ Below(j, i)
  OBVIOUS
<1>3. \A i, j, k \in positions : Below(i, j) /\ Below(j, k) => Below(i, k)
  OBVIOUS
<1> HIDE DEF R
<1>4. PICK m \in positions : \A j \in positions : <<j, m>> \in R
  <2> HIDE DEF Below
  <2>1. \A i, j \in positions : <<i, j>> \in R \/ <<j, i>> \in R
    BY <1>1, <1>2
  <2>2. \A i, j, k \in positions : <<i, j>> \in R /\ <<j, k>> \in R => <<i, k>> \in R
    BY <1>1, <1>3
  <2> QED
    BY <2>1, <2>2, GreatestPosition
<1>5. \A j \in positions : Below(j, m)
  BY <1>1, <1>4
<1> DEFINE l == Latest(list, positions, order)
<1>6. l \in positions /\ \A j \in positions : Below(j, l)
  BY <1>5 DEF Latest
<1> HIDE DEF l
<1>7. \A j \in positions : list[j].at <= list[l].at /\ (list[j].at = list[l].at => order[l] <= order[j])
  BY <1>6
<1> QED
  BY <1>6, <1>7 DEF l

\* Where ids are distinct, one of the transitions is replayed last.
LEMMA LastOfIsLast ==
  ASSUME NEW n \in Nat, NEW positions \in SUBSET (1..n), positions # {}, NEW list,
         \A i \in positions : list[i].at \in Nat /\ list[i].id \in Nat,
         \A i, j \in positions : list[i].id = list[j].id => i = j
  PROVE  LET l == LastOf(list, positions) IN
         l \in positions /\ \A j \in positions \ {l} : Precedes(list, j, l)
<1> DEFINE Below(i, j) == i = j \/ Precedes(list, i, j)
           R == {p \in positions \X positions : Below(p[1], p[2])}
<1>1. \A i, j \in positions : <<i, j>> \in R <=> Below(i, j)
  OBVIOUS
<1>2. \A i, j \in positions : Below(i, j) \/ Below(j, i)
  BY DEF Precedes
<1>3. \A i, j, k \in positions : Below(i, j) /\ Below(j, k) => Below(i, k)
  BY DEF Precedes
<1> HIDE DEF R
<1>4. PICK m \in positions : \A j \in positions : <<j, m>> \in R
  <2> HIDE DEF Below
  <2>1. \A i, j \in positions : <<i, j>> \in R \/ <<j, i>> \in R
    BY <1>1, <1>2
  <2>2. \A i, j, k \in positions : <<i, j>> \in R /\ <<j, k>> \in R => <<i, k>> \in R
    BY <1>1, <1>3
  <2> QED
    BY <2>1, <2>2, GreatestPosition
<1>5. \A j \in positions \ {m} : Precedes(list, j, m)
  BY <1>1, <1>4
<1> QED
  BY <1>5 DEF LastOf

-----------------------------------------------------------------------------
(* A replay.                                                               *)

LEMMA Typed ==
  ASSUME NEW list \in Histories
  PROVE  /\ DOMAIN list = 1..Len(list) /\ Len(list) \in Nat
         /\ \A i \in DOMAIN list :
              /\ list[i] \in ClaimTransition
              /\ list[i].at \in Nat /\ list[i].id \in Nat /\ list[i].at \in Times
<1>1. DOMAIN list = 1..Len(list) /\ Len(list) \in Nat
  BY LenProperties DEF Histories
<1>2. \A i \in DOMAIN list : list[i] \in ClaimTransition
  BY <1>1, ElementOfSeq DEF Histories
<1>3. \A t \in ClaimTransition : t.at \in Nat /\ t.id \in Nat /\ t.at \in Times
  BY ReplayConstants DEF ClaimTransition
<1> QED
  BY <1>1, <1>2, <1>3

\* The first n entries of a history are a history.
LEMMA Prefix ==
  ASSUME NEW list \in Histories, NEW n \in 0..Len(list)
  PROVE  /\ SubSeq(list, 1, n) \in Histories /\ DOMAIN SubSeq(list, 1, n) = 1..n
         /\ 1..n \subseteq DOMAIN list
         /\ \A i \in 1..n : SubSeq(list, 1, n)[i] = list[i]
<1>1. DOMAIN list = 1..Len(list) /\ Len(list) \in Nat
  BY LenProperties DEF Histories
<1>2. \A i \in 1..n : list[i] \in ClaimTransition
  BY <1>1, ElementOfSeq DEF Histories
<1>3. SubSeq(list, 1, n) = [i \in 1..n |-> list[i]]
  <2>1. n \in Int /\ list \in Seq(ClaimTransition)
    BY <1>1 DEF Histories
  <2> QED
    BY <2>1, SubSeqProperties
<1>4. [i \in 1..n |-> list[i]] \in Histories
  BY <1>1, <1>2, IsASeq DEF Histories
<1>5. 1..n \subseteq DOMAIN list
  BY <1>1
<1>6. PICK p : p = SubSeq(list, 1, n) /\ p = [i \in 1..n |-> list[i]]
  BY <1>3
<1>7. DOMAIN p = 1..n /\ \A i \in 1..n : p[i] = list[i]
  BY <1>6
<1> QED
  BY <1>4, <1>5, <1>6, <1>7

LEMMA PrefixIs ==
  ASSUME NEW list \in Histories, NEW n \in 0..Len(list)
  PROVE  SubSeq(list, 1, n) = [i \in 1..n |-> list[i]]
<1>1. n \in Int /\ list \in Seq(ClaimTransition) /\ Len(list) \in Nat
  BY LenProperties DEF Histories
<1> QED
  BY <1>1, SubSeqProperties

\* Of one claim, what is replayed before is what occurred before; the replay
\* checked that it is there, and where it left the claim.
LEMMA ReplayedInCourse ==
  ASSUME NEW list \in Histories, NEW query, NEW a, Replays(list, query)
  PROVE  LET course == Visible(list, a, query) IN
         /\ \A i, j \in course : list[i].at = list[j].at => i = j
         /\ \A i \in course :
              LET earlier == {j \in course : list[j].at < list[i].at} IN
              /\ earlier = {} => list[i].from = NoState
              /\ \A j \in earlier :
                   (\A k \in earlier : list[k].at <= list[j].at) => list[i].from = list[j].to
<1> DEFINE course == Visible(list, a, query)
           selected == Selected(list, query)
           before(i) == Earlier(list, selected, i)
           last(i) == LastOf(list, before(i))
<1>1. /\ course \subseteq selected /\ selected \subseteq 1..Len(list) /\ Len(list) \in Nat
      /\ \A i \in selected : list[i].at \in Nat /\ list[i].id \in Nat
      /\ \A i, j \in selected : list[i].id = list[j].id => i = j
      /\ \A i \in course : list[i].assertion = a
      /\ \A i \in selected : list[i].assertion = a => i \in course
  <2>1. DistinctIds(list)
    BY DEF Replays, Selectable
  <2> QED
    BY <2>1, Typed DEF Visible, Of, Selected, DistinctIds
<1>2. \A i \in course : before(i) = {j \in course : Precedes(list, j, i)}
  BY <1>1 DEF Earlier
<1>3. \A i \in course : Linked(list, selected, i)
  BY <1>1 DEF Replays, Selectable
<1> HIDE DEF course, selected
<1>4. ASSUME NEW i \in course, before(i) # {}
      PROVE  /\ last(i) \in course /\ Precedes(list, last(i), i)
             /\ \A j \in before(i) \ {last(i)} : Precedes(list, j, last(i))
             /\ list[last(i)].at < list[i].at /\ list[i].from = list[last(i)].to
  <2>1. before(i) \in SUBSET (1..Len(list)) /\ before(i) \subseteq course
    BY <1>1, <1>2
  <2>2. last(i) \in before(i) /\ \A j \in before(i) \ {last(i)} : Precedes(list, j, last(i))
    <3> HIDE DEF before
    <3>1. /\ \A j \in before(i) : list[j].at \in Nat /\ list[j].id \in Nat
          /\ \A j, k \in before(i) : list[j].id = list[k].id => j = k
      BY <1>1, <2>1
    <3> QED
      BY <1>1, <1>4, <2>1, <3>1, LastOfIsLast
  <2>3. list[last(i)].at < list[i].at /\ list[i].from = list[last(i)].to
    BY <1>3, <1>4 DEF Linked
  <2> QED
    BY <1>2, <2>1, <2>2, <2>3
<1>5. ASSUME NEW i \in course, NEW j \in course, Precedes(list, j, i)
      PROVE  list[j].at < list[i].at
  <2>1. j \in before(i)
    BY <1>2, <1>5
  <2>2. /\ j = last(i) \/ Precedes(list, j, last(i))
        /\ last(i) \in course /\ list[last(i)].at < list[i].at
    BY <1>4, <2>1
  <2> HIDE DEF last
  <2>3. list[j].at \in Nat /\ list[i].at \in Nat /\ list[last(i)].at \in Nat
    BY <1>1, <2>2
  <2> QED
    BY <2>2, <2>3 DEF Precedes
<1> HIDE DEF last
<1>6. ASSUME NEW i \in course, NEW j \in course, list[i].at = list[j].at PROVE i = j
  <2>1. /\ list[i].id \in Nat /\ list[j].id \in Nat /\ list[i].at \in Nat
        /\ list[i].id = list[j].id => i = j
    BY <1>1
  <2>2. i = j \/ Precedes(list, i, j) \/ Precedes(list, j, i)
    BY <1>6, <2>1 DEF Precedes
  <2>3. ~(list[i].at < list[j].at) /\ ~(list[j].at < list[i].at)
    BY <1>6, <2>1
  <2> QED
    BY <1>5, <2>2, <2>3
<1>7. ASSUME NEW i \in course
      PROVE  LET earlier == {j \in course : list[j].at < list[i].at} IN
             /\ earlier = {} => list[i].from = NoState
             /\ \A j \in earlier :
                  (\A k \in earlier : list[k].at <= list[j].at) => list[i].from = list[j].to
  <2> DEFINE earlier == {j \in course : list[j].at < list[i].at}
  <2>1. earlier = before(i)
    <3>1. \A j \in course : list[j].at < list[i].at <=> Precedes(list, j, i)
      BY <1>5 DEF Precedes
    <3> QED
      BY <1>2, <3>1
  <2>2. earlier = {} => list[i].from = NoState
    BY <1>3, <2>1 DEF Linked
  <2>3. ASSUME NEW j \in earlier, \A k \in earlier : list[k].at <= list[j].at
        PROVE  list[i].from = list[j].to
    <3>1. /\ last(i) \in course /\ list[last(i)].at < list[i].at
          /\ j = last(i) \/ Precedes(list, j, last(i))
          /\ list[i].from = list[last(i)].to
      BY <1>4, <2>1, <2>3
    <3>2. list[last(i)].at <= list[j].at
      BY <2>3, <3>1
    <3>3. CASE Precedes(list, j, last(i))
      <4>1. list[j].at < list[last(i)].at
        BY <1>5, <3>1, <3>3
      <4>2. list[j].at \in Nat /\ list[last(i)].at \in Nat
        BY <1>1, <3>1
      <4> QED
        BY <3>2, <4>1, <4>2
    <3> QED
      BY <3>1, <3>3
  <2> QED
    BY <2>2, <2>3
<1> QED
  BY <1>6, <1>7 DEF course

\* Without ties, the state that is shown of a claim is where its last transition
\* left it, in whichever order they are read.
LEMMA ShownIsLast ==
  ASSUME NEW list \in Histories, NEW query, NEW a, NEW order,
         \A i \in DOMAIN list : order[i] \in Nat,
         \A i, j \in Visible(list, a, query) : list[i].at = list[j].at => i = j,
         NEW i \in Visible(list, a, query),
         \A j \in Visible(list, a, query) : list[j].at <= list[i].at
  PROVE  LatestState(list, Visible(list, a, query), order) = list[i].to
<1> DEFINE course == Visible(list, a, query)
           l == Latest(list, course, order)
<1>1. /\ course \in SUBSET (1..Len(list)) /\ Len(list) \in Nat
      /\ \A j \in course : list[j].at \in Nat /\ order[j] \in Nat
  BY Typed DEF Visible, Of
<1>2. course # {} /\ i \in course
  OBVIOUS
<1> HIDE DEF course
<1>3. l \in course /\ list[i].at <= list[l].at
  BY <1>1, <1>2, LatestIsLast
<1> HIDE DEF l
<1>4. list[l].at <= list[i].at /\ list[l].at \in Nat /\ list[i].at \in Nat
  BY <1>1, <1>2, <1>3 DEF course
<1>5. list[i].at = list[l].at
  BY <1>3, <1>4
<1>6. i = l
  BY <1>2, <1>3, <1>5 DEF course
<1> QED
  BY <1>2, <1>6 DEF LatestState, l, course

LEMMA OneIsLast ==
  ASSUME NEW list \in Histories, NEW query, NEW a, Visible(list, a, query) # {}
  PROVE  \E i \in Visible(list, a, query) :
           \A j \in Visible(list, a, query) : list[j].at <= list[i].at
<1> DEFINE course == Visible(list, a, query)
           order == AsRecorded(list)
           l == Latest(list, course, order)
<1>1. course \in SUBSET (1..Len(list)) /\ Len(list) \in Nat /\ course # {}
  BY Typed DEF Visible, Of
<1>2. \A j \in course : list[j].at \in Nat /\ order[j] \in Nat
  BY Typed DEF Visible, Of, AsRecorded
<1> HIDE DEF course, order
<1>3. l \in course /\ \A j \in course : list[j].at <= list[l].at
  BY <1>1, <1>2, LatestIsLast
<1> QED
  BY <1>3 DEF course

LEMMA OrdersAreNumbers ==
  ASSUME NEW list \in Histories
  PROVE  \A i \in DOMAIN list : AsRecorded(list)[i] \in Nat /\ AsReplayed(list)[i] \in Nat
BY Typed DEF AsRecorded, AsReplayed

\* What the replay shows of a claim is the end of its course.
LEMMA SnapshotShows ==
  ASSUME NEW list \in Histories, NEW query, Replays(list, query),
         NEW a \in Assertions, NEW i \in Visible(list, a, query),
         \A j \in Visible(list, a, query) : list[j].at <= list[i].at
  PROVE  /\ LatestState(list, Visible(list, a, query), AsReplayed(list)) = list[i].to
         /\ LatestState(list, Visible(list, a, query), AsRecorded(list)) = list[i].to
<1>1. \A j, k \in Visible(list, a, query) : list[j].at = list[k].at => j = k
  BY ReplayedInCourse
<1> QED
  BY <1>1, ShownIsLast, OrdersAreNumbers

-----------------------------------------------------------------------------
(* A history that was recorded in order.                                   *)

LEMMA RecordedBefore ==
  ASSUME history \in Histories, NEW i \in DOMAIN history
  PROVE  /\ Recorded(i) \in Histories
         /\ \A j \in 1..(i - 1) : j \in DOMAIN history /\ Recorded(i)[j] = history[j]
         /\ \A a : Of(Recorded(i), a) = {j \in Of(history, a) : j < i}
<1>1. i \in 1..Len(history) /\ Len(history) \in Nat /\ DOMAIN history = 1..Len(history)
  BY Typed
<1>2. i - 1 \in 0..Len(history)
  BY <1>1
<1>3. /\ Recorded(i) \in Histories /\ DOMAIN Recorded(i) = 1..(i - 1)
      /\ 1..(i - 1) \subseteq DOMAIN history
      /\ \A j \in 1..(i - 1) : Recorded(i)[j] = history[j]
  BY <1>2, Prefix DEF Recorded
<1>4. \A j \in DOMAIN history : j \in 1..(i - 1) <=> j < i
  BY <1>1
<1> QED
  BY <1>3, <1>4 DEF Of

LEMMA OrderlyIsReplayed ==
  ASSUME history \in Histories, NEW query \in Nat, Orderly, Admitted(query)
  PROVE  Replays(history, query)
<1>1. /\ DOMAIN history = 1..Len(history) /\ Len(history) \in Nat
      /\ \A i \in DOMAIN history : history[i].at \in Nat /\ history[i].id \in Nat
  BY Typed
<1>2. \A i \in DOMAIN history : Cites(history[i])
  BY DEF Orderly
<1>3. ASSUME NEW a, NEW i \in Of(history, a), NEW j \in Of(history, a), j < i
      PROVE  history[j].at < history[i].at
  <2>1. i \in DOMAIN history /\ history[i].assertion = a
    BY DEF Of
  <2>2. j \in Of(Recorded(i), a) /\ Recorded(i)[j] = history[j]
    <3>1. j \in DOMAIN history
      BY DEF Of
    <3>2. j \in 1..(i - 1)
      BY <1>1, <1>3, <2>1, <3>1
    <3> QED
      BY <1>3, <2>1, <3>2, RecordedBefore
  <2> QED
    BY <2>1, <2>2 DEF Orderly
<1>4. ASSUME NEW i \in Selected(history, query)
      PROVE  Linked(history, Selected(history, query), i)
  <2> DEFINE a == history[i].assertion
             read == Recorded(i)
             earlier == Earlier(history, Selected(history, query), i)
  <2>1. i \in DOMAIN history /\ history[i].at <= query /\ i \in Of(history, a) /\ i \in Nat
    BY <1>1 DEF Selected, Of
  <2>2. earlier = {j \in Of(history, a) : j < i}
    <3>1. ASSUME NEW j \in Of(history, a), j < i PROVE j \in earlier
      <4>1. history[j].at < history[i].at /\ j \in DOMAIN history
        BY <1>3, <2>1, <3>1 DEF Of
      <4>2. history[j].at <= query
        BY <1>1, <2>1, <4>1
      <4> QED
        BY <3>1, <4>1, <4>2 DEF Earlier, Selected, Precedes, Of
    <3>2. ASSUME NEW j \in earlier PROVE j \in Of(history, a) /\ j < i
      <4>1. j \in DOMAIN history /\ j \in Of(history, a) /\ Precedes(history, j, i)
        BY DEF Earlier, Selected, Of
      <4>2. j # i
        BY <1>1, <2>1, <4>1 DEF Precedes
      <4>3. ~(i < j)
        BY <1>1, <1>3, <2>1, <4>1 DEF Precedes
      <4> QED
        BY <1>1, <2>1, <4>1, <4>2, <4>3
    <3> QED
      BY <3>1, <3>2
  <2>3. earlier = Of(read, a)
    BY <2>1, <2>2, RecordedBefore
  <2>4. history[i].from = LatestState(read, Of(read, a), AsRecorded(read))
    BY <2>1 DEF Orderly, UpToDate, CurrentClaimState
  <2>5. CASE earlier = {}
    BY <2>3, <2>4, <2>5 DEF Linked, LatestState
  <2>6. CASE earlier # {}
    <3> DEFINE last == LastOf(history, earlier)
               l == Latest(read, earlier, AsRecorded(read))
    <3>1. /\ earlier \in SUBSET (1..Len(history)) /\ earlier \subseteq Of(history, a)
          /\ \A j \in earlier : j < i /\ j \in DOMAIN history
      BY <1>1, <2>2 DEF Of
    <3>2. /\ \A j \in earlier : history[j].at \in Nat /\ history[j].id \in Nat
          /\ \A j, k \in earlier : history[j].id = history[k].id => j = k
      BY <1>1, <3>1 DEF Orderly, DistinctIds
    <3>3. \A j \in earlier : read[j] = history[j] /\ AsRecorded(read)[j] = j
      BY <2>1, <2>3, <3>1, RecordedBefore DEF Of, AsRecorded
    <3> HIDE DEF earlier, read
    <3>4. last \in earlier /\ \A j \in earlier \ {last} : Precedes(history, j, last)
      BY <1>1, <2>6, <3>1, <3>2, LastOfIsLast
    <3>5. l \in earlier /\ \A j \in earlier : read[j].at <= read[l].at
      <4>1. \A j \in earlier : read[j].at \in Nat /\ AsRecorded(read)[j] \in Nat
        BY <1>1, <3>1, <3>2, <3>3
      <4> QED
        BY <1>1, <2>6, <3>1, <4>1, LatestIsLast
    <3> HIDE DEF last, l
    <3>6. l = last
      <4>1. history[last].at <= history[l].at
        BY <3>2, <3>3, <3>4, <3>5
      <4>2. l # last => Precedes(history, l, last)
        BY <3>4, <3>5
      <4>3. history[l].at <= history[last].at
        BY <3>2, <3>4, <3>5, <4>2 DEF Precedes
      <4>4. l \in Nat /\ last \in Nat
        BY <1>1, <3>1, <3>4, <3>5
      <4>5. ~(l < last) /\ ~(last < l)
        BY <1>3, <3>1, <3>2, <3>4, <3>5, <4>1, <4>3
      <4> QED
        BY <4>4, <4>5
    <3>7. history[i].from = history[last].to
      BY <2>3, <2>4, <2>6, <3>3, <3>4, <3>6 DEF LatestState, l
    <3>8. history[last].at < history[i].at
      BY <1>3, <2>1, <3>1, <3>4
    <3> QED
      BY <2>6, <3>7, <3>8 DEF Linked, last, earlier
  <2> QED
    BY <2>5, <2>6
<1>5. Selectable(history, query)
  <2>1. DistinctIds(history) /\ Selected(history, query) \subseteq DOMAIN history
    BY DEF Orderly, Selected
  <2> QED
    BY <1>2, <1>4, <2>1 DEF Selectable
<1>6. TemporallySound(history, Selected(history, query))
  BY <1>2 DEF TemporallySound, Selected, Availability, Cites
<1> QED
  BY <1>5, <1>6 DEF Replays

-----------------------------------------------------------------------------
(* The invariant.                                                          *)

LEMMA InvInit == Init => ReplayInv
<1> SUFFICES ASSUME Init PROVE ReplayInv
  OBVIOUS
<1>1. history = <<>> /\ outcome.status = "none"
  BY DEF Init, NoOutcome
<1>2. history \in Histories /\ DOMAIN history = {}
  BY <1>1 DEF Histories
<1> QED
  BY <1>1, <1>2 DEF ReplayInv, Authentic, OutcomeHolds

\* What the policy returned starts from a state of a claim.
LEMMA CurrentStates ==
  ASSUME NEW list \in Histories, NEW a
  PROVE  CurrentClaimState(list, a) \in States
<1> DEFINE order == AsRecorded(list)
           positions == Of(list, a)
           l == Latest(list, positions, order)
<1>1. CASE positions = {}
  BY <1>1 DEF CurrentClaimState, LatestState, States
<1>2. CASE positions # {}
  <2>1. positions \in SUBSET (1..Len(list)) /\ Len(list) \in Nat
    BY Typed DEF Of
  <2>2. \A i \in positions : list[i].at \in Nat /\ order[i] \in Nat
    BY Typed, OrdersAreNumbers DEF Of
  <2> HIDE DEF order
  <2>3. l \in positions
    <3> HIDE DEF positions
    <3> QED
      BY <1>2, <2>1, <2>2, LatestIsLast
  <2>4. list[l] \in ClaimTransition
    BY <2>3, Typed DEF Of
  <2>5. list[l].to \in States
    BY <2>4 DEF ClaimTransition, States
  <2> QED
    BY <1>2, <2>5 DEF CurrentClaimState, LatestState, order
<1> QED
  BY <1>1, <1>2

LEMMA RecordKept ==
  ASSUME ReplayInv, NEW n \in 0..Len(history), NEW id \in Ids, NEW a \in Assertions,
         NEW to \in Proposable, NEW t \in Times, NEW evidence \in EvidenceLists,
         Record(n, id, a, to, t, evidence)
  PROVE  ReplayInv'
<1> DEFINE read == SubSeq(history, 1, n)
           from == CurrentClaimState(read, a)
           new == Transition(read, id, a, to, t, evidence)
<1>1. /\ history \in Histories /\ history' = Append(history, new) /\ outcome' = outcome
      /\ to \in Allowed(from)
  BY DEF ReplayInv, Record, Authorized
<1>2. new \in ClaimTransition /\ new.from = from /\ new.to = to
  <2>1. from \in States
    BY <1>1, Prefix, CurrentStates
  <2> HIDE DEF from
  <2>2. new = [id |-> id, assertion |-> a, from |-> from, to |-> to, at |-> t,
               evidence |-> evidence]
    BY DEF Transition, from
  <2> QED
    BY <2>1, <2>2 DEF ClaimTransition
<1> HIDE DEF new, from
<1>3. PICK k \in Nat : k = Len(history)
  BY <1>1, Typed
<1>4. /\ history' \in Histories /\ Len(history') = k + 1 /\ DOMAIN history' = 1..(k + 1)
      /\ DOMAIN history = 1..k
      /\ \A i \in 1..k : history'[i] = history[i]
      /\ history'[k + 1] = new
  BY <1>1, <1>2, <1>3, AppendProperties, LenProperties DEF Histories
<1>5. Authentic'
  <2> SUFFICES ASSUME NEW i \in DOMAIN history'
               PROVE  history'[i].to \in Allowed(history'[i].from)
    BY DEF Authentic
  <2>1. CASE i = k + 1
    BY <1>1, <1>2, <1>4, <2>1
  <2>2. CASE i \in 1..k
    <3>1. Authentic
      BY DEF ReplayInv
    <3> QED
      BY <1>4, <2>2, <3>1 DEF Authentic
  <2> QED
    BY <1>4, <2>1, <2>2
<1>6. OutcomeHolds'
  <2>1. OutcomeHolds
    BY DEF ReplayInv
  <2>2. ASSUME NEW m \in 0..k PROVE SubSeq(history', 1, m) = SubSeq(history, 1, m)
    <3>1. m \in 0..Len(history) /\ m \in 0..Len(history')
      BY <1>3, <1>4
    <3>2. /\ SubSeq(history, 1, m) = [i \in 1..m |-> history[i]]
          /\ SubSeq(history', 1, m) = [i \in 1..m |-> history'[i]]
      BY <1>1, <1>4, <3>1, PrefixIs
    <3>3. \A i \in 1..m : history'[i] = history[i]
      BY <1>4
    <3> QED
      BY <3>2, <3>3
  <2>3. CASE outcome.status = "released"
    <3>1. outcome.inventory \in 0..k
      BY <1>3, <2>1, <2>3 DEF OutcomeHolds
    <3>2. outcome'.inventory \in 0..Len(history')
      BY <1>1, <1>4, <3>1
    <3>3. SubSeq(history', 1, outcome'.inventory) = SubSeq(history, 1, outcome.inventory)
      BY <1>1, <2>2, <3>1
    <3> QED
      BY <1>1, <2>1, <2>3, <3>2, <3>3 DEF OutcomeHolds
  <2> QED
    BY <1>1, <2>3 DEF OutcomeHolds
<1> QED
  BY <1>4, <1>5, <1>6 DEF ReplayInv

LEMMA ExecuteKept ==
  ASSUME ReplayInv, NEW n \in 0..Len(history), NEW query \in Times, Execute(n, query)
  PROVE  ReplayInv'
<1> DEFINE inventory == SubSeq(history, 1, n)
<1>1. history' = history /\ history \in Histories /\ Authentic
  BY DEF ReplayInv, Execute
<1>2. Authentic'
  BY <1>1 DEF Authentic
<1>3. CASE Replays(inventory, query)
  <2>1. outcome' = [status |-> "released", inventory |-> n, query |-> query,
                    transitions |-> {inventory[i] : i \in Selected(inventory, query)},
                    snapshot |-> Snapshot(inventory, query, AsReplayed(inventory))]
    BY <1>3 DEF Execute
  <2>2. /\ outcome'.inventory = n /\ outcome'.query = query
        /\ outcome'.transitions = {inventory[i] : i \in Selected(inventory, query)}
        /\ outcome'.snapshot = Snapshot(inventory, query, AsReplayed(inventory))
    BY <2>1
  <2> QED
    BY <1>1, <1>2, <1>3, <2>2 DEF ReplayInv, OutcomeHolds
<1>4. CASE ~Replays(inventory, query)
  <2>1. outcome'.status = "rejected"
    BY <1>4 DEF Execute
  <2> QED
    BY <1>1, <1>2, <2>1 DEF ReplayInv, OutcomeHolds
<1> QED
  BY <1>3, <1>4

LEMMA InvStep == ReplayInv /\ [Next]_vars => ReplayInv'
<1> SUFFICES ASSUME ReplayInv, [Next]_vars PROVE ReplayInv'
  OBVIOUS
<1>1. CASE UNCHANGED vars
  BY <1>1 DEF vars, ReplayInv, Authentic, OutcomeHolds
<1>2. CASE \E n \in 0..Len(history), id \in Ids, a \in Assertions, to \in Proposable,
              t \in Times, evidence \in EvidenceLists : Record(n, id, a, to, t, evidence)
  BY <1>2, RecordKept
<1>3. CASE \E n \in 0..Len(history), query \in Times : Execute(n, query)
  BY <1>3, ExecuteKept
<1> QED
  BY <1>1, <1>2, <1>3 DEF Next

LEMMA InvHolds == Spec => []ReplayInv
BY InvInit, InvStep, PTL DEF Spec

-----------------------------------------------------------------------------
(* The theorems.                                                           *)

LEMMA FollowsPolicy == ReplayInv => ReplayFollowsPolicy
<1> SUFFICES ASSUME ReplayInv, NEW query \in Times PROVE
       /\ Replays(history, query) =>
            \A a \in Assertions :
              LET course == Visible(history, a, query)
                  shown == Snapshot(history, query, AsReplayed(history))
              IN /\ Lawful(course)
                 /\ a \in DOMAIN shown <=> course # {}
                 /\ \A i \in course :
                      (\A j \in course : history[j].at <= history[i].at) =>
                          shown[a].state = history[i].to
       /\ Orderly /\ Admitted(query) => Replays(history, query)
  BY DEF ReplayFollowsPolicy
<1>1. history \in Histories /\ query \in Nat
  BY ReplayConstants DEF ReplayInv
<1>2. ASSUME Replays(history, query), NEW a \in Assertions
      PROVE  LET course == Visible(history, a, query)
                 shown == Snapshot(history, query, AsReplayed(history))
             IN /\ Lawful(course)
                /\ a \in DOMAIN shown <=> course # {}
                /\ \A i \in course :
                     (\A j \in course : history[j].at <= history[i].at) =>
                         shown[a].state = history[i].to
  <2> DEFINE course == Visible(history, a, query)
             shown == Snapshot(history, query, AsReplayed(history))
  <2>1. Lawful(course)
    <3>1. \A i \in course : history[i].to \in Allowed(history[i].from)
      BY DEF ReplayInv, Authentic, Visible, Of
    <3>2. /\ \A i, j \in course : history[i].at = history[j].at => i = j
          /\ \A i \in course :
               LET earlier == {j \in course : history[j].at < history[i].at} IN
               /\ earlier = {} => history[i].from = NoState
               /\ \A j \in earlier :
                    (\A k \in earlier : history[k].at <= history[j].at) =>
                        history[i].from = history[j].to
      BY <1>1, <1>2, ReplayedInCourse
    <3> HIDE DEF course
    <3> QED
      BY <3>1, <3>2 DEF Lawful
  <2>2. a \in DOMAIN shown <=> course # {}
    BY DEF Snapshot
  <2>3. ASSUME NEW i \in course, \A j \in course : history[j].at <= history[i].at
        PROVE  shown[a].state = history[i].to
    <3>1. LatestState(history, course, AsReplayed(history)) = history[i].to
      BY <1>1, <1>2, <2>3, SnapshotShows
    <3>2. shown[a].state = LatestState(history, course, AsReplayed(history))
      BY <2>3 DEF Snapshot
    <3> QED
      BY <3>1, <3>2
  <2> QED
    BY <2>1, <2>2, <2>3
<1>3. Orderly /\ Admitted(query) => Replays(history, query)
  BY <1>1, OrderlyIsReplayed
<1> QED
  BY <1>2, <1>3

\* However hosts overtook each other and whatever instants they chose, a replay
\* shows courses that the policy allows, and where each ended.
THEOREM ReplaysAreLawful == Spec => []ReplayFollowsPolicy
BY InvHolds, FollowsPolicy, PTL

\* What was recorded after the query time changes nothing that is visible at it.
LEMMA SeenAlike ==
  ASSUME history \in Histories, NEW n \in 0..Len(history), NEW query,
         \A i \in DOMAIN history : i > n => ~(history[i].at <= query)
  PROVE  LET read == SubSeq(history, 1, n) IN
         /\ read \in Histories
         /\ Selected(read, query) = Selected(history, query)
         /\ \A a : Visible(read, a, query) = Visible(history, a, query)
         /\ \A i \in Selected(history, query) : read[i] = history[i]
<1> DEFINE read == SubSeq(history, 1, n)
<1>1. /\ read \in Histories /\ DOMAIN read = 1..n /\ 1..n \subseteq DOMAIN history
      /\ \A i \in 1..n : read[i] = history[i]
  BY Prefix
<1>2. \A i \in DOMAIN history : i \in 1..n \/ i > n
  BY Typed
<1> HIDE DEF read
<1>3. \A i \in DOMAIN history : history[i].at <= query => i \in 1..n
  BY <1>2
<1>4. Selected(read, query) = Selected(history, query)
  BY <1>1, <1>3 DEF Selected
<1>5. \A a : Visible(read, a, query) = Visible(history, a, query)
  BY <1>1, <1>3 DEF Visible, Of
<1>6. \A i \in Selected(history, query) : read[i] = history[i]
  BY <1>1, <1>3 DEF Selected
<1> QED
  BY <1>1, <1>4, <1>5, <1>6 DEF read

LEMMA SnapshotStands ==
  ASSUME history \in Histories, NEW n \in 0..Len(history), NEW query,
         \A i \in DOMAIN history : i > n => ~(history[i].at <= query),
         Replays(SubSeq(history, 1, n), query)
  PROVE  Snapshot(SubSeq(history, 1, n), query, AsReplayed(SubSeq(history, 1, n)))
           = Snapshot(history, query, AsRecorded(history))
<1> DEFINE read == SubSeq(history, 1, n)
           seen(list) == {b \in Assertions : Visible(list, b, query) # {}}
           cited(list, a) == UNION {Range(list[i].evidence) : i \in Visible(list, a, query)}
<1>1. /\ read \in Histories
      /\ \A a : Visible(read, a, query) = Visible(history, a, query)
      /\ \A i \in Selected(history, query) : read[i] = history[i]
  BY SeenAlike
<1>2. Replays(read, query)
  OBVIOUS
<1> HIDE DEF read
<1>3. \A a : \A i \in Visible(history, a, query) : read[i] = history[i]
  BY <1>1 DEF Visible, Of, Selected
<1>4. seen(read) = seen(history)
  BY <1>1
<1>5. \A a : cited(read, a) = cited(history, a)
  BY <1>1, <1>3
<1>6. ASSUME NEW a \in seen(history)
      PROVE  LatestState(read, Visible(read, a, query), AsReplayed(read))
               = LatestState(history, Visible(history, a, query), AsRecorded(history))
  <2> DEFINE course == Visible(history, a, query)
  <2>1. PICK i \in course : \A j \in course : history[j].at <= history[i].at
    BY OneIsLast
  <2>2. \A j \in Visible(read, a, query) : read[j].at <= read[i].at
    BY <1>1, <1>3, <2>1
  <2>3. LatestState(read, Visible(read, a, query), AsReplayed(read)) = read[i].to
    BY <1>1, <1>2, <2>1, <2>2, SnapshotShows
  <2>4. \A j, k \in course : history[j].at = history[k].at => j = k
    <3>1. \A j, k \in Visible(read, a, query) : read[j].at = read[k].at => j = k
      BY <1>1, <1>2, ReplayedInCourse
    <3> QED
      BY <1>1, <1>3, <3>1
  <2>5. LatestState(history, course, AsRecorded(history)) = history[i].to
    BY <2>1, <2>4, ShownIsLast, OrdersAreNumbers
  <2> QED
    BY <1>3, <2>1, <2>3, <2>5
<1>7. Snapshot(read, query, AsReplayed(read))
        = [a \in seen(read) |->
             [state |-> LatestState(read, Visible(read, a, query), AsReplayed(read)),
              evidence |-> cited(read, a)]]
  BY DEF Snapshot
<1>8. Snapshot(history, query, AsRecorded(history))
        = [a \in seen(history) |->
             [state |-> LatestState(history, Visible(history, a, query), AsRecorded(history)),
              evidence |-> cited(history, a)]]
  BY DEF Snapshot
<1> HIDE DEF seen, cited
<1> QED
  BY <1>4, <1>5, <1>6, <1>7, <1>8 DEF read

LEMMA Stands == ReplayInv => ReleasedStands
<1> SUFFICES ASSUME ReplayInv, outcome.status = "released",
                    \A i \in DOMAIN history :
                        i > outcome.inventory => history[i].at > outcome.query
             PROVE  /\ outcome.transitions = {t \in Range(history) : t.at <= outcome.query}
                    /\ outcome.snapshot
                         = Snapshot(history, outcome.query, AsRecorded(history))
  BY DEF ReleasedStands
<1> DEFINE n == outcome.inventory
           query == outcome.query
           read == SubSeq(history, 1, n)
<1>1. /\ history \in Histories /\ n \in 0..Len(history) /\ query \in Nat
      /\ Replays(read, query)
      /\ outcome.transitions = {read[i] : i \in Selected(read, query)}
      /\ outcome.snapshot = Snapshot(read, query, AsReplayed(read))
  BY ReplayConstants DEF ReplayInv, OutcomeHolds
<1>2. \A i \in DOMAIN history : i > n => ~(history[i].at <= query)
  BY <1>1, Typed
<1> HIDE DEF n, query
<1>3. outcome.snapshot = Snapshot(history, query, AsRecorded(history))
  BY <1>1, <1>2, SnapshotStands
<1>4. outcome.transitions = {history[i] : i \in Selected(history, query)}
  BY <1>1, <1>2, SeenAlike
<1>5. {history[i] : i \in Selected(history, query)} = {t \in Range(history) : t.at <= query}
  BY DEF Selected, Range
<1> QED
  BY <1>3, <1>4, <1>5 DEF query

\* A released replay says of its query time what the history says of it ever after,
\* unless something was recorded later that occurred no later.
THEOREM ReleasesStand == Spec => []ReleasedStands
BY InvHolds, Stands, PTL
=============================================================================

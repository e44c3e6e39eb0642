---------------------------- MODULE ClaimReplay ----------------------------
(***************************************************************************)
(* The history of what is claimed, and its replay (spans/state.py,         *)
(* policy.py, snapshot.py and replay.py; historical_replay.py).            *)
(*                                                                         *)
(* Hosts ask the policy for a transition, reading the recorded ones, and   *)
(* append what it returns; another host may have appended in between.  An  *)
(* engine is built from the inventory as it is at that time and replays it *)
(* at query times.  The transitions are those of one document version,     *)
(* which was admitted; its spans are what the parser made of its body.     *)
(***************************************************************************)
EXTENDS Integers, SequencesExt

CONSTANTS
    Assertions,     \* assertion_id
    Ids,            \* transition_id; ordered, as the strings are
    Times,
    Proposable,     \* bound: the states a host proposes
    Spans,          \* span_id of the version's spans
    Cutoff,         \* verified_available_from: when its body was captured
    EvidenceLists,  \* the evidence_span_ids a host cites
    MaxTransitions  \* bound: transitions of the inventory

\* In the order of the enumeration
ClaimStates == <<"first_reported", "repeated", "partially_corroborated",
                 "officially_confirmed", "qualified", "corrected">>

NoState == "none"

ASSUME ReplayConstants ==
    /\ Ids \subseteq Nat /\ Times \subseteq Nat /\ Cutoff \in Nat
    /\ Proposable \subseteq Range(ClaimStates)
    /\ IsFiniteSet(Spans)
    /\ MaxTransitions \in Nat

VARIABLES
    history,    \* the transitions, in the order they were recorded
    outcome     \* what the last query was answered

vars == <<history, outcome>>

-----------------------------------------------------------------------------
(* The state of a claim, and the policy.                                   *)

Of(list, a) == {i \in DOMAIN list : list[i].assertion = a}
Visible(list, a, t) == {i \in Of(list, a) : list[i].at <= t}

\* max keeps the first of those that occurred last: of the order they are given in,
\* which is the order of recording or that of the replay.
AsRecorded(list) == [i \in DOMAIN list |-> i]
AsReplayed(list) == [i \in DOMAIN list |-> list[i].id]

Latest(list, positions, order) ==
    CHOOSE i \in positions :
        \A j \in positions :
            \/ list[j].at < list[i].at
            \/ list[j].at = list[i].at /\ order[i] <= order[j]

LatestState(list, positions, order) ==
    IF positions = {} THEN NoState ELSE list[Latest(list, positions, order)].to

ClaimStateAt(list, a, t) == LatestState(list, Visible(list, a, t), AsRecorded(list))
CurrentClaimState(list, a) == LatestState(list, Of(list, a), AsRecorded(list))

\* A claim only moves on, but a confirmation may be qualified and confirmed anew.
Allowed(from) ==
    IF from = NoState THEN {ClaimStates[1]}
    ELSE LET later == {i \in DOMAIN ClaimStates : \E j \in 1..(i - 1) : ClaimStates[j] = from}
         IN {ClaimStates[i] : i \in later}
              \cup (IF from = "qualified" THEN {"officially_confirmed"} ELSE {})

Authorized(list, a, to) == to \in Allowed(CurrentClaimState(list, a))

Transition(list, id, a, to, t, evidence) ==
    [id |-> id, assertion |-> a, from |-> CurrentClaimState(list, a), to |-> to,
     at |-> t, evidence |-> evidence]

-----------------------------------------------------------------------------
(* Replay.                                                                 *)

\* Mutant: every recorded transition is replayed at every query.
Selected_All(list, query) == DOMAIN list

Selected(list, query) == {i \in DOMAIN list : list[i].at <= query}

\* The order of the replay
Precedes(list, i, j) ==
    list[i].at < list[j].at \/ (list[i].at = list[j].at /\ list[i].id < list[j].id)

Earlier(list, selected, i) ==
    {j \in selected : list[j].assertion = list[i].assertion /\ Precedes(list, j, i)}

\* The one of them that is replayed last
LastOf(list, positions) ==
    CHOOSE i \in positions : \A j \in positions \ {i} : Precedes(list, j, i)

\* Mutant: two transitions of one claim at one instant are let through.
Linked_Ties(list, selected, i) ==
    LET earlier == Earlier(list, selected, i) IN
    IF earlier = {} THEN list[i].from = NoState
    ELSE list[i].from = list[LastOf(list, earlier)].to

\* No implicit history, and no two states of one claim at one instant
Linked(list, selected, i) ==
    LET earlier == Earlier(list, selected, i)
        last == LastOf(list, earlier)
    IN IF earlier = {} THEN list[i].from = NoState
       ELSE list[last].at < list[i].at /\ list[i].from = list[last].to

Cites(t) ==
    /\ t.evidence # <<>>
    /\ IsInjective(t.evidence)
    /\ Range(t.evidence) \subseteq Spans
    /\ Cutoff <= t.at

DistinctIds(list) == \A i, j \in DOMAIN list : list[i].id = list[j].id => i = j

\* Ids are compared over the whole inventory, later transitions included.
Selectable(list, query) ==
    /\ DistinctIds(list)
    /\ \A i \in Selected(list, query) :
         Cites(list[i]) /\ Linked(list, Selected(list, query), i)

Availability == [s \in Spans |-> Cutoff]

TemporallySound(list, positions) ==
    \A i \in positions : \A s \in Range(list[i].evidence) :
        s \in DOMAIN Availability /\ Availability[s] <= list[i].at

\* The order of the evidence is that of the list, and left out.
Snapshot(list, query, order) ==
    [a \in {b \in Assertions : Visible(list, b, query) # {}} |->
        [state |-> LatestState(list, Visible(list, a, query), order),
         evidence |-> UNION {Range(list[i].evidence) : i \in Visible(list, a, query)}]]

\* Every span is available from the capture on, which the query must not precede.
Admitted(query) == Spans # {} /\ Cutoff <= query

Replays(list, query) ==
    /\ Admitted(query)
    /\ Selectable(list, query)
    /\ TemporallySound(list, Selected(list, query))

-----------------------------------------------------------------------------

NoOutcome == [status |-> "none"]

Init == history = <<>> /\ outcome = NoOutcome

\* A host that read the first n transitions appends what the policy returned it.
Record(n, id, a, to, t, evidence) ==
    LET read == SubSeq(history, 1, n) IN
    /\ Len(history) < MaxTransitions
    /\ Authorized(read, a, to)
    /\ history' = Append(history, Transition(read, id, a, to, t, evidence))
    /\ UNCHANGED outcome

\* A query to an engine that was built when n transitions were recorded
Execute(n, query) ==
    LET inventory == SubSeq(history, 1, n)
    IN  /\ outcome' =
             IF Replays(inventory, query)
             THEN [status |-> "released", inventory |-> n, query |-> query,
                   transitions |-> {inventory[i] : i \in Selected(inventory, query)},
                   snapshot |-> Snapshot(inventory, query, AsReplayed(inventory))]
             ELSE [status |-> "rejected"]
        /\ UNCHANGED history

Next ==
    \/ \E n \in 0..Len(history), id \in Ids, a \in Assertions, to \in Proposable,
          t \in Times, evidence \in EvidenceLists : Record(n, id, a, to, t, evidence)
    \/ \E n \in 0..Len(history), query \in Times : Execute(n, query)

Spec == Init /\ [][Next]_vars

-----------------------------------------------------------------------------
(* Properties.                                                             *)

\* The transitions of one claim that are visible at a query, taken as they occurred:
\* no two at one instant, and each a move the policy allows from where the last
\* one left.
Lawful(course) ==
    /\ \A i, j \in course : history[i].at = history[j].at => i = j
    /\ \A i \in course :
         LET earlier == {j \in course : history[j].at < history[i].at} IN
         /\ earlier = {} => history[i].to \in Allowed(NoState)
         /\ \A j \in earlier :
              (\A k \in earlier : history[k].at <= history[j].at) =>
                  history[i].to \in Allowed(history[j].to)

Recorded(i) == SubSeq(history, 1, i - 1)

\* Every host had read all that was recorded when it asked for its transition.
UpToDate ==
    \A i \in DOMAIN history :
        history[i].from = CurrentClaimState(Recorded(i), history[i].assertion)

\* And each transition is later than the last, and of evidence there is.
Orderly ==
    /\ DistinctIds(history) /\ UpToDate
    /\ \A i \in DOMAIN history :
        /\ Cites(history[i])
        /\ \A j \in Of(Recorded(i), history[i].assertion) : history[j].at < history[i].at

\* The engine does not ask the policy again.  Still, however hosts overtook each
\* other and whatever instants they chose, what is replayed at a query are
\* courses the policy allows, from the start and without ties, and the snapshot
\* shows where each ended; and a history that was recorded in order is replayed.
ReplayFollowsPolicy ==
    \A query \in Times :
        /\ Replays(history, query) =>
             \A a \in Assertions :
               LET course == Visible(history, a, query)
                   shown == Snapshot(history, query, AsReplayed(history))
               IN /\ Lawful(course)
                  /\ a \in DOMAIN shown <=> course # {}
                  /\ \A i \in course :
                       (\A j \in course : history[j].at <= history[i].at) =>
                           shown[a].state = history[i].to
        /\ Orderly /\ Admitted(query) => Replays(history, query)

\* A released replay says of its query time what the history says of it ever
\* after, read in the order of recording, unless something was recorded that
\* occurred no later: later transitions never leak backward.
ReleasedStands ==
    outcome.status = "released" =>
        LET query == outcome.query IN
        (\A i \in DOMAIN history : i > outcome.inventory => history[i].at > query) =>
            /\ outcome.transitions = {t \in Range(history) : t.at <= query}
            /\ outcome.snapshot = Snapshot(history, query, AsRecorded(history))

\* "Earlier state is never rewritten" (state.py:20): what a replay showed of a
\* claim that had already moved on is what the history says of that instant ever
\* after, at least if hosts take turns.  The policy looks at the state a transition
\* starts from and not at when it occurred, so this fails.
EarlierStateStands ==
    outcome.status = "released" /\ DistinctIds(history) /\ UpToDate =>
        \A a \in DOMAIN outcome.snapshot :
            (\E i \in Of(history, a) :
                i <= outcome.inventory /\ history[i].at > outcome.query) =>
                    ClaimStateAt(history, a, outcome.query) = outcome.snapshot[a].state
=============================================================================

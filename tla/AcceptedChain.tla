--------------------------- MODULE AcceptedChain ---------------------------
(***************************************************************************)
(* What a client's two stores promise together: operations are accepted    *)
(* once each, along one chain of envelopes without gap or fork, and are    *)
(* acknowledged only after they were accepted.                             *)
(***************************************************************************)
EXTENDS Naturals

CONSTANTS Operations, Envelopes, Anchor, RevisionOf, PreviousOf

VARIABLES
    mark,           \* the last envelope accepted
    accepted,       \* pairs <<operation, envelope>>
    acknowledged    \* operations whose journal entry is closed

vars == <<mark, accepted, acknowledged>>

Init == mark = Anchor /\ accepted = {} /\ acknowledged = {}

Follows(m, e) == RevisionOf[e] = RevisionOf[m] + 1 /\ PreviousOf[e] = m

Accept(op, e) ==
    /\ \A a \in accepted : a[1] # op
    /\ e = mark \/ Follows(mark, e)
    /\ mark' = e
    /\ accepted' = accepted \cup {<<op, e>>}
    /\ UNCHANGED acknowledged

Acknowledge(op) ==
    /\ \E a \in accepted : a[1] = op
    /\ op \notin acknowledged
    /\ acknowledged' = acknowledged \cup {op}
    /\ UNCHANGED <<mark, accepted>>

Next == \E op \in Operations : Acknowledge(op) \/ \E e \in Envelopes : Accept(op, e)

Spec == Init /\ [][Next]_vars
=============================================================================

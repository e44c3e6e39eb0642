----------------------------- MODULE ReleaseGate ----------------------------
(***************************************************************************)
(* What the review store and the journal promise together, with neither    *)
(* records nor workers: a release happens at most once, only under the     *)
(* approval that stands for its document version at that moment, and never *)
(* once the release has been given up.                                     *)
(***************************************************************************)
EXTENDS Naturals

CONSTANTS Keys, ReleaseIds

VARIABLES
    revision,   \* number of reviews recorded
    standing,   \* document version |-> the approval in force, 0 if none
    released,   \* the releases made, each with the approval it was made under
    closed      \* the release ids given up

vars == <<revision, standing, released, closed>>

Open(id) == id \notin closed /\ \A r \in released : r.id # id

Init ==
    /\ revision = 0
    /\ standing = [k \in Keys |-> 0]
    /\ released = {}
    /\ closed = {}

\* A review of k: either approves, in place of any earlier review, or does not.
Review(k) ==
    /\ revision' = revision + 1
    /\ \E s \in {0, revision + 1} : standing' = [standing EXCEPT ![k] = s]
    /\ UNCHANGED <<released, closed>>

Release(id, k) ==
    /\ Open(id)
    /\ standing[k] # 0
    /\ released' = released \cup {[id |-> id, key |-> k, approval |-> standing[k]]}
    /\ UNCHANGED <<revision, standing, closed>>

GiveUp(id) ==
    /\ Open(id)
    /\ closed' = closed \cup {id}
    /\ UNCHANGED <<revision, standing, released>>

Next ==
    \/ \E k \in Keys : Review(k)
    \/ \E id \in ReleaseIds : GiveUp(id) \/ \E k \in Keys : Release(id, k)

Spec == Init /\ [][Next]_vars
=============================================================================

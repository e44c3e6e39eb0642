-------------------------- MODULE MCRequestJournal --------------------------
(***************************************************************************)
(* A small instance of RequestJournal: one document version with one piece *)
(* of evidence, and an engine configuration that holds it.                 *)
(***************************************************************************)
EXTENDS RequestJournal, TLC

MCDocumentOf == [e \in Evidence |-> "d1"]
MCVersionOf == [e \in Evidence |-> "v1"]
MCBodyOf == [e \in Evidence |-> "b1"]
MCCaptureAt == [e \in Evidence |-> 1]
MCConfigEvidence == [c \in Configs |-> Evidence]
MCObservedLate == [c \in Configs |-> 2]

Symmetry == Permutations(ReviewIds) \cup Permutations(ReleaseIds)
    \cup Permutations(Operations) \cup Permutations(Workers) \cup Permutations(Processes)
=============================================================================

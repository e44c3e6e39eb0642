----------------------------- MODULE MCPeerGate -----------------------------
(***************************************************************************)
(* One endpoint with its lease and continuity, and two evaluations of it:  *)
(* more than the host is meant to run, which is what the locks are for.    *)
(***************************************************************************)
EXTENDS PeerGate, TLC

\* Evidence that passes phases 1 to 5, and evidence that stops in them.
Good == [valid |-> TRUE, source |-> "NATIVE_PROCESS_API", lease |-> "CORRELATED",
         peer |-> "APP_CONTAINER_EXCLUSION_UNPROVEN",
         pipe |-> "CAPTURED_NON_APPCONTAINER", process |-> "CAPTURED_NON_APPCONTAINER"]
MCGiven == {Good, [Good EXCEPT !.pipe = "CAPTURED_APPCONTAINER"]}

Symmetry == Permutations(Evaluators)
=============================================================================

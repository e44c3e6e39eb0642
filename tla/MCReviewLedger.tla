--------------------------- MODULE MCReviewLedger ---------------------------
(***************************************************************************)
(* A small instance of ReviewLedger: one document version with two         *)
(* evidence records that differ in their capture time, and a third record  *)
(* that gives the same version id to another document.                     *)
(***************************************************************************)
EXTENDS ReviewLedger, TLC

CONSTANTS e1, e2, e3

MCDocumentOf == (e1 :> "d1") @@ (e2 :> "d1") @@ (e3 :> "d2")
MCVersionOf == (e1 :> "v1") @@ (e2 :> "v1") @@ (e3 :> "v1")
MCBodyOf == (e1 :> "b1") @@ (e2 :> "b1") @@ (e3 :> "b1")
MCCaptureAt == (e1 :> 1) @@ (e2 :> 2) @@ (e3 :> 1)

Symmetry == Permutations(ReviewIds) \cup Permutations(AllowedReviewers)
              \cup Permutations(ReleaseIds)
=============================================================================

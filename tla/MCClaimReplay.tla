--------------------------- MODULE MCClaimReplay ---------------------------
(***************************************************************************)
(* Three transitions of two claims; s is a span of the version, x of       *)
(* another one.                                                            *)
(***************************************************************************)
EXTENDS ClaimReplay

CONSTANTS s, x

MCEvidenceLists == {<<s>>, <<x>>}

Claims == Permutations(Assertions)
=============================================================================

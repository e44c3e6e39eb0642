----------------------- MODULE MCCheckpointAuthority -----------------------
(***************************************************************************)
(* Two operations on one head: the update store can be set back before the *)
(* first and go on with the second.  Two policies, of which the second     *)
(* also lets the client recover.                                           *)
(***************************************************************************)
EXTENDS CheckpointAuthority, TLC

CONSTANT p

Intent(operation, key, sequence, expected, candidate, generation, until) ==
  [operation |-> operation, publisher |-> "alice", key |-> key, sequence |-> sequence,
   expected |-> expected, candidate |-> candidate, generation |-> generation, until |-> until]

MCIntents ==
  {Intent("o1", "k", 0, "c0", "c1", 1, 2), Intent("o2", "l", 0, "c0", "c2", 2, 2)}

MCBaseHead == [sequence |-> 0, checkpoint |-> "c0", generation |-> 0]

Authority(revision, barred, recover) ==
  [revision |-> revision, barred |-> barred, until |-> 2, evaluate |-> {"alice"},
   recover |-> recover]

MCAuthorities == {Authority(1, {}, {"alice"})}

MCFirstAuthorityPolicy == [revision |-> 1, until |-> 2, submit |-> {p}, recover |-> {}]
MCAuthorityPolicies ==
  {MCFirstAuthorityPolicy, [revision |-> 2, until |-> 2, submit |-> {p}, recover |-> {p}]}
RequestNames == Permutations(RequestIds)
=============================================================================

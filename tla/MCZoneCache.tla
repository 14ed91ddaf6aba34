----------------------------- MODULE MCZoneCache -----------------------------
(* ZoneCache on small sets: "3" and "camera3" are two spellings of one      *)
(* camera; MCAlone is a camera whose id has no alias.                       *)
EXTENDS ZoneCache, TLC

CONSTANTS c3, camera3

MCPair == {c3, camera3}
MCPairAlias == [c \in MCPair |-> IF c = c3 THEN camera3 ELSE c3]

MCAlone == {c3}
MCAloneAlias == [c \in MCAlone |-> c]

\* Swapping the two spellings of a camera leaves Alias as it is.
MCSymmetry == Permutations(Handlers) \cup Permutations(Shapes) \cup Permutations(Cameras)
=============================================================================

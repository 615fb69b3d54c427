--------------------------- MODULE MCGoAutoSwitch ---------------------------
(* Small instances of GoAutoSwitch for TLC. *)
EXTENDS GoAutoSwitch, TLC

CONSTANTS g, a, b, d, c1, c2

Profile(on, n) == [enable |-> on, restore |-> TRUE, groups |-> {g}, threshold |-> n]

\* Off or on; with a second chance for a node that fails, or without.
Hasty   == {Profile(TRUE, 1), Profile(FALSE, 1)}
Patient == {Profile(TRUE, 2), Profile(FALSE, 2)}

\* A selector with two nodes, and perhaps a nested group; one that lost b; none.
MCMembers == {{a, b, d}, {a}, {}}
ThreeNodes == {{a, b, d}}

\* The calls are alike, and so are the three nodes of the only selector.
Alike == Permutations({c1, c2}) \cup Permutations({a, b, d})
=============================================================================

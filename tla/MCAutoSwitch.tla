---------------------------- MODULE MCAutoSwitch ----------------------------
(* Small instances of AutoSwitch for TLC. *)
EXTENDS AutoSwitch, TLC

CONSTANTS g1, a, b, c, direct

Profile(enable, restore, threshold, preferred) ==
    [enable |-> enable, restore |-> restore, groups |-> {g1}, threshold |-> threshold,
     preferred |-> preferred]

\* Settings::default(): nothing to check.
Unset == [enable |-> FALSE, restore |-> FALSE, groups |-> {}, threshold |-> 2, preferred |-> {}]

\* Settings a request may bring: restores on, or everything off.
OnOffProfiles  == {Profile(TRUE, TRUE, 1, {}), Profile(FALSE, TRUE, 1, {})}
RestoreProfile == {Profile(TRUE, TRUE, 1, {})}
CountProfiles  == {Profile(TRUE, TRUE, 2, {b}), Profile(FALSE, TRUE, 2, {b})}

\* Every probe may go either way.
Flaky == {[n \in Nodes |-> "flaky"]}

\* Everything down, only a down, everything up.
ClearWeathers == {[n \in Nodes |-> "down"], [n \in Nodes |-> "up"],
                  [n \in Nodes |-> IF n = a THEN "down" ELSE "up"]}

\* Every group has every node; or a refresh or a new table may take any one
\* away; or only a server and DIRECT may be left, or no selector at all.
AllMembers  == {Nodes}
AllButOne   == {Nodes} \cup {Nodes \ {n} : n \in Nodes}
SomeMembers == {Nodes, {a, direct}, {}}

Interchangeable == Permutations(Nodes) \cup Permutations(Clients)

\* No action's guard and no other variable's next value reads a history: a run
\* may take states for one that differ in a history its properties do not name.
Mechanism == <<tunnelVars, weather, serviceVars, restores, mutations, lifecycle, pc,
               cancelled, checkVars, failures, request, engine>>
MechanismAndStreaks == <<Mechanism, streak>>

\* Bound: what a checker does that a PATCH starts before the session's first apply(),
\* which aborts it and with it all that it counts.  No route table is installed
\* meanwhile, and none of its scans finds nothing.
StartIsShort ==
    engine \in Starting =>
        gen = 1 /\ \A g \in Groups : failures[g].backoff = 0 /\ streak[g].scans = 0
=============================================================================

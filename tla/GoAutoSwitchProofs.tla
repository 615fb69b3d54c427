------------------------- MODULE GoAutoSwitchProofs -------------------------
(***************************************************************************)
(* Theorems about GoAutoSwitch, for every value of its constants, from     *)
(* inductive invariants:                                                   *)
(*   GInv   what the checker holds between its steps, and which restores   *)
(*          may be pending: gives GoTypeOK, GoRestoresAllowed, and that a  *)
(*          cancelled checker ends soon (DyingFast)                        *)
(*   HInv   how the pending restores follow the history of the selections, *)
(*          from GInv: gives GoOriginIsHome and SwitchIsUndone             *)
(*   LInv   who restarts the service, and what the checker then is: gives  *)
(*          GoServiceConsistent and RestartHeard                           *)
(***************************************************************************)
EXTENDS GoAutoSwitch, TLAPS

-----------------------------------------------------------------------------
(* The first invariant *)

\* The checker is in the middle of a group.
InGroup == pc \in {"probeOrigin", "observe", "probeCurrent", "scan", "compare", "set", "cache"}

\* The change the checker has in hand fits where it is.
Attempt ==
    /\ pc \in {"probeOrigin", "probeCurrent", "scan", "compare", "set", "cache"}
       => change \in Change /\ change.table <= gen
    /\ pc = "probeOrigin" => change.kind = "restore"
    /\ pc \in {"probeCurrent", "scan"} => change.kind = "switch"
    /\ pc \in {"probeCurrent", "scan", "compare", "set", "cache"} /\ change.kind = "switch"
       => change.from \in Leaves
    /\ pc \in {"compare", "set", "cache"} /\ change.kind = "switch"
       => change.to \in Leaves /\ change.to # change.from

\* The checker runs under the settings in force, for groups they list.
InForce ==
    /\ running = active
    /\ Alive => active.enable /\ todo \subseteq active.groups
    /\ InGroup => group \in active.groups

GInv == GoTypeOK /\ Attempt /\ InForce /\ GoRestoresAllowed

\* The values that stand for nothing have the types of what they stand in for.
LEMMA Blank ==
    /\ None \in NodeOrNone
    /\ NoRestore \in Restore /\ NoRestore.origin = None
    /\ NoFailure \in Failure
    /\ \A n \in NodeOrNone : [NoFailure EXCEPT !.node = n] \in Failure
    /\ NoChange \notin Change
    /\ Leaves \subseteq Nodes
BY GoConstantsOK DEF NoRestore, Restore, NodeOrNone, NoFailure, Failure, NoChange, Change

\* Settings are records of what the control flow depends on.
LEMMA SettingsTypes ==
    ASSUME NEW p \in Profiles
    PROVE  /\ p.enable \in BOOLEAN /\ p.restore \in BOOLEAN /\ p.groups \subseteq Groups
           /\ p.threshold \in Nat \ {0}
BY GoConstantsOK DEF Settings

\* What the settings in force are after a restart.
LEMMA EffectiveType == ASSUME GoTypeOK PROVE Effective \in Profiles
BY GoConstantsOK DEF Effective, GoTypeOK

\* Counting a failure, waiting and lengthening the pause leave a failure record.
LEMMA FailureTypes ==
    ASSUME GoTypeOK
    PROVE  /\ \A n \in NodeOrNone : FailureOf(group, n) \in Failure
           /\ \A f \in Failure : Counted(f) \in Failure /\ Waited(f) \in Failure
           /\ \A b \in 0 .. MaxBackoff : NextBackoff(b) \in 0 .. MaxBackoff
<1>1. \A n \in NodeOrNone : FailureOf(group, n) \in Failure
  BY Blank DEF FailureOf, GoTypeOK
<1>2. ASSUME NEW f \in Failure PROVE Counted(f) \in Failure
  BY DEF Counted, Failure
<1>3. ASSUME NEW f \in Failure PROVE Waited(f) \in Failure
  BY GoConstantsOK DEF Waited, Failure
<1>4. \A b \in 0 .. MaxBackoff : NextBackoff(b) \in 0 .. MaxBackoff
  BY GoConstantsOK DEF NextBackoff
<1>. QED BY <1>1, <1>2, <1>3, <1>4

\* A session whose first configuration has just been applied has the invariant.
LEMMA InitGInv == Init => GInv
<1> SUFFICES ASSUME Init PROVE GInv
  OBVIOUS
<1>1. PICK m \in [Groups -> MemberSets], s \in [Groups -> NodeOrNone] :
        /\ members = [t \in Gens |-> m] /\ selected = [t \in Gens |-> s]
        /\ cache = s
        /\ hist = [g \in Groups |-> [home |-> s[g], auto |-> FALSE, touched |-> FALSE, lost |-> FALSE]]
  BY DEF Init
<1>2. members \in [Gens -> [Groups -> SUBSET Nodes]]
  BY <1>1, GoConstantsOK
<1>3. selected \in [Gens -> [Groups -> NodeOrNone]] /\ cache \in [Groups -> NodeOrNone]
  BY <1>1
<1>4. hist \in [Groups -> Hist]
  BY <1>1 DEF Hist
<1>5. restores \in [Groups -> Restore] /\ failures \in [Groups -> Failure]
  BY Blank DEF Init
<1>6. call \in [Clients -> Calls]
  BY DEF Init, Calls
<1>7. gen \in Gens /\ change \in Change \cup {NoChange}
  BY GoConstantsOK DEF Init, Gens
<1>8. GoTypeOK
  BY <1>2, <1>3, <1>4, <1>5, <1>6, <1>7 DEF Init, GoTypeOK
<1>9. GoRestoresAllowed
  BY Blank DEF Init, GoRestoresAllowed, Pending
<1>10. Attempt /\ InForce
  BY DEF Init, Attempt, InForce, InGroup, Alive, Runs
<1>. QED BY <1>8, <1>9, <1>10 DEF GInv

\* A step that leaves the restores, the settings in force and the tables alone
\* keeps the invariant when it keeps the rest of it.
LEMMA AllowedStays ==
    ASSUME GoRestoresAllowed, UNCHANGED <<restores, active>>
    PROVE  GoRestoresAllowed'
BY DEF GoRestoresAllowed, Pending

-----------------------------------------------------------------------------
(* The steps of the checker *)

LEMMA WakeGInv == ASSUME GInv, Wake PROVE GInv'
<1> USE DEF Wake, GInv
<1>1. GoTypeOK'
  BY SettingsTypes DEF GoTypeOK, tunnelVars
<1>2. Attempt'
  BY DEF Attempt
<1>3. InForce'
  BY DEF InForce, InGroup, Alive
<1>. QED BY <1>1, <1>2, <1>3, AllowedStays

LEMMA EndRoundGInv == ASSUME GInv, EndRound PROVE GInv'
<1> USE DEF EndRound, GInv
<1>1. GoTypeOK'
  BY DEF GoTypeOK, tunnelVars
<1>2. Attempt'
  BY DEF Attempt
<1>3. InForce'
  BY DEF InForce, InGroup, Alive
<1>. QED BY <1>1, <1>2, <1>3, AllowedStays

\* Settling the history of a group leaves a history.
LEMMA SettleType == ASSUME GoTypeOK, NEW g \in Groups, Settle(g) PROVE hist' \in [Groups -> Hist]
BY DEF Settle, GoTypeOK, Hist

LEMMA CheckRestoreGInv == ASSUME GInv, NEW g \in Groups, CheckRestore(g) PROVE GInv'
<1> USE DEF CheckRestore, GInv
<1>1. CASE ~Pending(g)
  <2> USE <1>1
  <2>1. GoTypeOK'
    BY DEF GoTypeOK, tunnelVars
  <2>2. Attempt' /\ InForce'
    BY DEF Attempt, InForce, InGroup, Alive
  <2>. QED BY <2>1, <2>2, AllowedStays
<1>2. CASE Pending(g) /\ ~Standing(g)
  <2> USE <1>2
  <2>1. GoTypeOK'
    BY Blank, SettleType DEF GoTypeOK, tunnelVars
  <2>2. Attempt' /\ InForce'
    BY DEF Attempt, InForce, InGroup, Alive
  <2>3. GoRestoresAllowed'
    BY Blank DEF GoRestoresAllowed, Pending, GoTypeOK
  <2>. QED BY <2>1, <2>2, <2>3
<1>3. CASE Pending(g) /\ Standing(g)
  <2> USE <1>3
  <2>1. change' \in Change /\ change'.table = gen /\ change'.kind = "restore"
    BY Blank DEF GoRestoresAllowed, Change, GoTypeOK, NodeOrNone
  <2>2. GoTypeOK'
    BY <2>1 DEF GoTypeOK, tunnelVars
  <2>3. Attempt'
    BY <2>1 DEF Attempt, tunnelVars, GoTypeOK, Gens
  <2>4. InForce'
    BY DEF InForce, InGroup, Alive
  <2>. QED BY <2>2, <2>3, <2>4, AllowedStays
<1>. QED BY <1>1, <1>2, <1>3

LEMMA ProbeOriginGInv == ASSUME GInv, ProbeOrigin PROVE GInv'
<1> USE DEF ProbeOrigin, GInv
<1>1. restores[group] \in Restore /\ group \in Groups
  BY DEF GoTypeOK
<1> DEFINE Kept == \A g \in Groups :
             \/ restores'[g] = NoRestore
             \/ restores'[g].origin = restores[g].origin /\ restores'[g].target = restores[g].target
<1>2. restores' \in [Groups -> Restore] /\ Kept
  <2>1. ASSUME NEW n \in 0 .. RestoreSuccesses - 1,
               restores' = [restores EXCEPT ![group].successes = n]
        PROVE  restores' \in [Groups -> Restore] /\ Kept
    BY <1>1, <2>1 DEF GoTypeOK, Restore
  <2>2. CASE restores' = [restores EXCEPT ![group] = NoRestore]
    BY <1>1, <2>2, Blank DEF GoTypeOK
  <2>3. CASE UNCHANGED restores
    BY <2>3 DEF GoTypeOK
  <2>4. 0 \in 0 .. RestoreSuccesses - 1
    BY GoConstantsOK
  <2>5. restores[group].successes \in Nat
    BY <1>1 DEF Restore
  <2>6. CASE restores' = [restores EXCEPT ![group].successes = 0]
    BY <2>1, <2>4, <2>6
  <2>7. CASE /\ restores[group].successes + 1 < RestoreSuccesses
             /\ restores' = [restores EXCEPT ![group].successes = @ + 1]
    <3>1. restores[group].successes + 1 \in 0 .. RestoreSuccesses - 1
      BY <2>5, <2>7, GoConstantsOK
    <3>. QED BY <2>1, <2>7, <3>1
  <2> HIDE DEF Kept
  <2>. QED BY <2>2, <2>3, <2>6, <2>7
<1>3. hist' \in [Groups -> Hist]
  BY <1>1, SettleType DEF GoTypeOK
<1>4. change' \in Change \cup {NoChange} /\ pc' \in {"observe", "compare"}
  BY DEF GoTypeOK, Go, Return
<1>5. GoTypeOK'
  BY <1>2, <1>3, <1>4 DEF GoTypeOK, tunnelVars
<1>6. Attempt'
  BY DEF Attempt, Go, Return, tunnelVars
<1>7. InForce'
  BY <1>4 DEF InForce, InGroup, Alive
<1>8. GoRestoresAllowed'
  BY <1>2, Blank DEF GoRestoresAllowed, Pending
<1>. QED BY <1>5, <1>6, <1>7, <1>8

LEMMA ObserveGInv == ASSUME GInv, Observe PROVE GInv'
<1> USE DEF Observe, GInv
<1>1. CASE Return("pick") /\ failures' = [failures EXCEPT ![group] = NoFailure]
  <2> USE <1>1 DEF Return
  <2>1. GoTypeOK'
    BY Blank DEF GoTypeOK, tunnelVars, engineVars
  <2>2. Attempt' /\ InForce'
    BY DEF Attempt, InForce, InGroup, Alive, engineVars
  <2>. QED BY <2>1, <2>2, AllowedStays DEF engineVars
<1>2. CASE /\ Now(group) \in Leaf(gen, group) /\ pc' = "probeCurrent"
           /\ change' = [table |-> gen, kind |-> "switch", from |-> Now(group), to |-> None]
           /\ UNCHANGED failures
  <2> USE <1>2
  <2>1. change' \in Change /\ change'.table = gen /\ change'.kind = "switch" /\ change'.from \in Leaves
    BY Blank DEF Change, Leaf, GoTypeOK
  <2>2. GoTypeOK'
    BY <2>1 DEF GoTypeOK, tunnelVars, engineVars
  <2>3. Attempt'
    BY <2>1 DEF Attempt, tunnelVars, GoTypeOK, Gens
  <2>4. InForce'
    BY DEF InForce, InGroup, Alive, engineVars
  <2>. QED BY <2>2, <2>3, <2>4, AllowedStays DEF engineVars
<1>. QED BY <1>1, <1>2

LEMMA ProbeCurrentGInv == ASSUME GInv, ProbeCurrent PROVE GInv'
<1> USE DEF ProbeCurrent, GInv
<1>1. group \in Groups /\ change.from \in NodeOrNone
  BY DEF GoTypeOK, Attempt, Change, NodeOrNone
<1>2. failures' \in [Groups -> Failure]
  <2>1. Counted(FailureOf(group, change.from)) \in Failure
    BY <1>1, FailureTypes
  <2>2. Waited(Counted(FailureOf(group, change.from))) \in Failure
    BY <2>1, FailureTypes
  <2>. QED BY <1>1, <2>1, <2>2, Blank DEF GoTypeOK
<1>3. pc' \in {"pick", "scan"} /\ change' \in Change \cup {NoChange}
  BY DEF Go, Return, GoTypeOK
<1>4. GoTypeOK'
  BY <1>2, <1>3 DEF GoTypeOK, tunnelVars, engineVars
<1>5. Attempt'
  BY DEF Attempt, Go, Return, tunnelVars
<1>6. InForce'
  BY <1>3 DEF InForce, InGroup, Alive, engineVars
<1>. QED BY <1>4, <1>5, <1>6, AllowedStays DEF engineVars

LEMMA ScanGInv == ASSUME GInv, Scan PROVE GInv'
<1> USE DEF Scan, GInv
<1>1. group \in Groups /\ failures[group] \in Failure
      /\ change \in Change /\ change.table \in Gens /\ change.table <= gen
  BY DEF GoTypeOK, Attempt, Change
<1>2. failures' \in [Groups -> Failure]
  <2>1. failures[group].backoff \in 0 .. MaxBackoff
    BY <1>1 DEF Failure
  <2>2. NextBackoff(failures[group].backoff) \in 0 .. MaxBackoff
    BY <2>1, FailureTypes
  <2>3. CASE failures' = [failures EXCEPT ![group].backoff = NextBackoff(@),
                                          ![group].skip = NextBackoff(failures[group].backoff)]
    BY <1>1, <2>2, <2>3 DEF GoTypeOK, Failure
  <2>. QED BY <1>1, <2>3, Blank DEF GoTypeOK
<1>3. ASSUME NEW n \in Leaf(change.table, group) \ {change.from},
             change' = [change EXCEPT !.to = n], pc' = "compare", UNCHANGED <<tunnelVars>>
      PROVE  change' \in Change /\ Attempt'
  <2>1. n \in Leaves /\ n \in NodeOrNone
    BY Blank DEF Leaf, NodeOrNone
  <2>2. /\ change' \in Change /\ change'.table = change.table /\ change'.kind = change.kind
        /\ change'.from = change.from /\ change'.to = n
    BY <1>1, <1>3, <2>1 DEF Change
  <2>. QED BY <1>1, <1>3, <2>1, <2>2 DEF Attempt, tunnelVars
<1>4. change' \in Change \cup {NoChange} /\ pc' \in {"pick", "compare"} /\ Attempt'
  <2>1. CASE pc' = "pick" /\ change' = NoChange
    BY <2>1 DEF Attempt
  <2>. QED BY <1>3, <2>1 DEF Return
<1>5. GoTypeOK'
  BY <1>2, <1>4 DEF GoTypeOK, tunnelVars, engineVars
<1>6. InForce'
  BY <1>4 DEF InForce, InGroup, Alive, engineVars
<1>. QED BY <1>4, <1>5, <1>6, AllowedStays DEF engineVars

LEMMA CompareGInv == ASSUME GInv, Compare PROVE GInv'
<1> USE DEF Compare, GInv
<1>1. pc' \in {"set", "observe", "pick"} /\ change' \in Change \cup {NoChange}
  BY DEF Go, Return, GoTypeOK
<1>5. hist' \in [Groups -> Hist]
  <2>1. hist \in [Groups -> Hist] /\ group \in Groups
    BY DEF GoTypeOK
  <2>2. Lost(hist[group]) \in Hist
    BY <2>1 DEF Lost, Hist
  <2>. QED BY <2>1, <2>2
<1>2. GoTypeOK'
  BY <1>1, <1>5 DEF GoTypeOK, tunnelVars, engineVars
<1>3. Attempt'
  BY DEF Attempt, Go, Return, tunnelVars
<1>4. InForce'
  BY <1>1 DEF InForce, InGroup, Alive, engineVars
<1>. QED BY <1>2, <1>3, <1>4, AllowedStays DEF engineVars

LEMMA SetGInv == ASSUME GInv, Set PROVE GInv'
<1> USE DEF Set, GInv
<1>1. change \in Change /\ change.table \in Gens /\ change.to \in NodeOrNone
      /\ change.from \in NodeOrNone /\ group \in Groups
  BY DEF Attempt, Change, GoTypeOK, NodeOrNone
<1>2. selected' \in [Gens -> [Groups -> NodeOrNone]]
  BY <1>1 DEF GoTypeOK
<1>3. hist' \in [Groups -> Hist]
  <2>1. running.restore \in BOOLEAN /\ hist[group] \in Hist
    BY <1>1, SettingsTypes DEF GoTypeOK
  <2>2. MovedByChecker(hist[group]) \in Hist
    <3>1. /\ (change.kind = "switch" /\ running.restore /\ ~hist[group].touched
             /\ change.to # IF hist[group].auto /\ ~hist[group].lost THEN hist[group].home ELSE change.from)
             \in BOOLEAN
      OBVIOUS
    <3>. QED BY <1>1, <2>1, <3>1 DEF MovedByChecker, Hist
  <2>3. [Lost(hist[group]) EXCEPT !.touched = TRUE] \in Hist
    BY <2>1 DEF Lost, Hist
  <2>. QED BY <1>1, <2>2, <2>3 DEF GoTypeOK
<1>4. GoTypeOK'
  BY <1>2, <1>3 DEF GoTypeOK, engineVars, Go
<1>5. Attempt'
  BY DEF Attempt, Go
<1>6. InForce'
  BY DEF InForce, InGroup, Alive, engineVars, Go
<1>. QED BY <1>4, <1>5, <1>6, AllowedStays DEF engineVars

\* What a switch makes of a pending restore is one between two real nodes.
LEMMA RememberType ==
    ASSUME GInv, pc = "cache", change.kind = "switch"
    PROVE  LET r == RememberOrigin(restores[group])
           IN  /\ r \in Restore
               /\ r.origin # None => r.origin # r.target /\ {r.origin, r.target} \subseteq Leaves
<1> DEFINE r0 == restores[group]
           origin == IF r0.origin = None \/ r0.target # change.from THEN change.from ELSE r0.origin
<1>1. change.from \in Leaves /\ change.to \in Leaves /\ group \in Groups
  BY DEF GInv, Attempt, GoTypeOK
<1>2. origin \in Leaves
  BY <1>1 DEF GInv, GoRestoresAllowed, Pending
<1>3. CASE origin = change.to
  BY <1>3, Blank DEF RememberOrigin
<1>4. CASE origin # change.to
  <2>1. RememberOrigin(r0) = [origin |-> origin, target |-> change.to, successes |-> 0]
    BY <1>4 DEF RememberOrigin
  <2>2. 0 \in 0 .. RestoreSuccesses - 1
    BY GoConstantsOK
  <2>. QED BY <1>1, <1>2, <1>4, <2>1, <2>2, Blank DEF Restore, NodeOrNone
<1>. QED BY <1>3, <1>4

LEMMA CacheGInv == ASSUME GInv, Cache PROVE GInv'
<1> USE DEF Cache, GInv
<1>1. change \in Change /\ change.to \in NodeOrNone /\ group \in Groups
      /\ restores \in [Groups -> Restore]
  BY DEF Attempt, Change, GoTypeOK
<1>2. restores' \in [Groups -> Restore] /\ GoRestoresAllowed'
  <2>1. CASE UNCHANGED restores
    BY <1>1, <2>1, AllowedStays
  <2>2. CASE /\ change.kind = "switch" /\ running.restore
             /\ restores' = [restores EXCEPT ![group] = RememberOrigin(@)]
    <3> DEFINE r == RememberOrigin(restores[group])
    <3>1. r \in Restore /\ (r.origin # None => r.origin # r.target /\ {r.origin, r.target} \subseteq Leaves)
      BY <2>2, RememberType
    <3>2. restores' = [restores EXCEPT ![group] = r]
      BY <2>2
    <3>3. active.enable /\ active.restore /\ group \in active.groups
      BY <2>2 DEF InForce, InGroup, Alive
    <3> HIDE DEF r
    <3>. QED BY <1>1, <3>1, <3>2, <3>3 DEF GoRestoresAllowed, Pending
  <2>. QED BY <2>1, <2>2
<1>3. hist' \in [Groups -> Hist]
  <2>1. (hist[group].touched /\ restores'[group].origin # None) \in BOOLEAN
    OBVIOUS
  <2>. QED BY <1>1, <2>1 DEF GoTypeOK, Hist
<1>4. cache' \in [Groups -> NodeOrNone] /\ failures' \in [Groups -> Failure]
  BY <1>1, Blank DEF GoTypeOK
<1>5. GoTypeOK'
  BY <1>2, <1>3, <1>4 DEF GoTypeOK, Return
<1>6. Attempt' /\ InForce'
  BY DEF Attempt, Return, InForce, InGroup, Alive
<1>. QED BY <1>2, <1>5, <1>6

-----------------------------------------------------------------------------
(* The steps of the calls *)

\* A call that goes on leaves well-typed calls.
LEMMA BecomeType ==
    ASSUME GoTypeOK, NEW c \in Clients, NEW next \in Calls, Become(c, next)
    PROVE  call' \in [Clients -> Calls]
BY DEF Become, GoTypeOK

\* What a call of each kind carries.
LEMMA CallTypes ==
    ASSUME GoTypeOK, NEW c \in Clients
    PROVE  /\ call[c].does = "apply" => call[c].settings \in Profiles
           /\ call[c].does \in {"set", "store"} =>
                /\ call[c].table \in Gens /\ call[c].group \in Groups /\ call[c].node \in Nodes
                /\ [call[c] EXCEPT !.does = "store"] \in Calls
<1>1. call[c] \in Calls
  BY DEF GoTypeOK
<1>2. CASE call[c].does = "apply"
  BY <1>1, <1>2 DEF Calls, Idle
<1>3. CASE call[c].does \in {"set", "store"}
  <2>1. call[c] \in [does: {"set", "store"}, table: Gens, group: Groups, node: Nodes]
    BY <1>1, <1>3 DEF Calls, Idle
  <2>. QED BY <1>3, <2>1 DEF Calls
<1>. QED BY <1>2, <1>3

\* A selection that moves leaves a history.
LEMMA MovedType ==
    ASSUME GoTypeOK, NEW g \in Groups, NEW t, NEW n \in NodeOrNone
    PROVE  Moved(hist[g], t, g, n) \in Hist
<1>1. hist[g] \in Hist
  BY DEF GoTypeOK
<1>2. (hist[g].touched \/ Pending(g) \/ (pc \in {"set", "cache"} /\ group = g)) \in BOOLEAN
  OBVIOUS
<1>. QED BY <1>1, <1>2 DEF Moved, Hist

LEMMA InstallGInv == ASSUME GInv, NEW c \in Clients, Install(c) PROVE GInv'
<1> USE DEF Install, GInv
<1>1. gen \in Gens /\ gen + 1 \in Gens /\ gen' = gen + 1
  BY GoConstantsOK DEF GoTypeOK, Gens
<1>2. PICK m \in [Groups -> MemberSets], s \in [Groups -> NodeOrNone] :
        /\ members' = [members EXCEPT ![gen + 1] = m]
        /\ selected' = [selected EXCEPT ![gen + 1] = s]
        /\ hist' = [g \in Groups |-> Moved(hist[g], gen, g, s[g])]
  OBVIOUS
<1>3. members' \in [Gens -> [Groups -> SUBSET Nodes]]
  <2>1. m \in [Groups -> SUBSET Nodes]
    BY GoConstantsOK
  <2>. QED BY <1>2, <2>1 DEF GoTypeOK
<1>4. selected' \in [Gens -> [Groups -> NodeOrNone]]
  BY <1>2 DEF GoTypeOK
<1>5. hist' \in [Groups -> Hist]
  BY <1>2, MovedType
<1>6. call' \in [Clients -> Calls]
  <2>1. PICK p \in Profiles : Become(c, [does |-> "apply", settings |-> p])
    OBVIOUS
  <2>2. [does |-> "apply", settings |-> p] \in Calls
    BY DEF Calls
  <2>. QED BY <2>1, <2>2, BecomeType
<1>7. GoTypeOK'
  BY <1>1, <1>3, <1>4, <1>5, <1>6 DEF GoTypeOK, engineVars, checkVars
<1>8. Attempt'
  <2>1. \A t \in Gens : t <= gen => t <= gen'
    BY <1>1 DEF Gens
  <2>. QED BY <2>1 DEF Attempt, checkVars, Change
<1>9. InForce'
  BY DEF InForce, InGroup, Alive, engineVars, checkVars
<1>. QED BY <1>7, <1>8, <1>9, AllowedStays DEF engineVars

LEMMA BeginGInv ==
    ASSUME GInv, NEW c \in Clients, NEW reload \in BOOLEAN, Begin(c, reload),
           configured' \in Profiles, override' \in Profiles \cup {None}
    PROVE  GInv'
<1> USE DEF Begin, GInv
<1>1. call' \in [Clients -> Calls]
  <2>1. [does |-> "join", reload |-> reload] \in Calls
    BY DEF Calls
  <2>. QED BY <2>1, BecomeType
<1>2. cancelled' \in BOOLEAN
  BY DEF Cancels, Alive
<1>3. GoTypeOK'
  BY <1>1, <1>2 DEF GoTypeOK, tunnelVars, checkVars
<1>4. Attempt' /\ InForce'
  BY DEF Attempt, InForce, InGroup, Alive, tunnelVars, checkVars
<1>. QED BY <1>3, <1>4, AllowedStays

LEMMA RestartGInv == ASSUME GInv, NEW c \in Clients, Restart(c) PROVE GInv'
<1> USE DEF Restart, GInv
<1>1. Effective \in Profiles
  BY EffectiveType
<1>2. restores' \in [Groups -> Restore]
  BY Blank DEF GoTypeOK
<1>3. failures' \in [Groups -> Failure]
  BY Blank
<1>4. hist' \in [Groups -> Hist]
  BY DEF GoTypeOK, Hist
<1>5. call' \in [Clients -> Calls]
  BY BecomeType DEF Calls
<1>6. GoTypeOK'
  BY <1>1, <1>2, <1>3, <1>4, <1>5 DEF GoTypeOK, tunnelVars
<1>7. Attempt'
  BY DEF Attempt
<1>8. InForce'
  BY DEF InForce, InGroup, Alive, Runs
<1>9. GoRestoresAllowed'
  BY Blank DEF GoRestoresAllowed, Pending, Keeps
<1>. QED BY <1>6, <1>7, <1>8, <1>9

LEMMA PatchSelectorGInv == ASSUME GInv, NEW c \in Clients, PatchSelector(c) PROVE GInv'
<1> USE DEF PatchSelector, GInv
<1>1. call' \in [Clients -> Calls]
  <2>1. PICK g \in Groups : \E n \in members[gen][g] :
          Become(c, [does |-> "set", table |-> gen, group |-> g, node |-> n])
    OBVIOUS
  <2>2. ASSUME NEW n \in members[gen][g]
        PROVE  [does |-> "set", table |-> gen, group |-> g, node |-> n] \in Calls
    BY DEF Calls, GoTypeOK
  <2>. QED BY <2>1, <2>2, BecomeType
<1>2. GoTypeOK'
  BY <1>1 DEF GoTypeOK, tunnelVars, engineVars, checkVars
<1>3. Attempt' /\ InForce'
  BY DEF Attempt, InForce, InGroup, Alive, tunnelVars, engineVars, checkVars
<1>. QED BY <1>2, <1>3, AllowedStays DEF engineVars

LEMMA SetSelectorGInv == ASSUME GInv, NEW c \in Clients, SetSelector(c) PROVE GInv'
<1> USE DEF SetSelector, GInv
<1>1. call[c].table \in Gens /\ call[c].group \in Groups /\ call[c].node \in NodeOrNone
      /\ [call[c] EXCEPT !.does = "store"] \in Calls
  BY CallTypes DEF NodeOrNone
<1>2. selected' \in [Gens -> [Groups -> NodeOrNone]]
  BY <1>1 DEF GoTypeOK
<1>3. Moved(hist[call[c].group], call[c].table, call[c].group, call[c].node) \in Hist
  BY <1>1, MovedType
<1>4. hist' \in [Groups -> Hist]
  BY <1>1, <1>3 DEF GoTypeOK
<1>5. call' \in [Clients -> Calls]
  BY <1>1, BecomeType
<1>6. GoTypeOK'
  BY <1>2, <1>4, <1>5 DEF GoTypeOK, engineVars, checkVars
<1>7. Attempt' /\ InForce'
  BY DEF Attempt, InForce, InGroup, Alive, engineVars, checkVars
<1>. QED BY <1>6, <1>7, AllowedStays DEF engineVars

LEMMA StoreSelectedGInv == ASSUME GInv, NEW c \in Clients, StoreSelected(c) PROVE GInv'
<1> USE DEF StoreSelected, GInv
<1>1. call[c].group \in Groups /\ call[c].node \in NodeOrNone
  BY CallTypes DEF NodeOrNone
<1>2. cache' \in [Groups -> NodeOrNone]
  BY <1>1 DEF GoTypeOK
<1>3. call' \in [Clients -> Calls]
  BY BecomeType DEF Calls
<1>4. GoTypeOK'
  BY <1>2, <1>3 DEF GoTypeOK, engineVars, checkVars
<1>5. Attempt' /\ InForce'
  BY DEF Attempt, InForce, InGroup, Alive, engineVars, checkVars
<1>. QED BY <1>4, <1>5, AllowedStays DEF engineVars

LEMMA CallGInv == ASSUME GInv, NEW c \in Clients, Call(c) PROVE GInv'
<1>1. CASE Install(c)
  BY <1>1, InstallGInv
<1>2. CASE Apply(c)
  <2>1. configured' \in Profiles /\ override' \in Profiles \cup {None} /\ Begin(c, TRUE)
    BY <1>2, CallTypes DEF Apply, GInv, GoTypeOK
  <2>. QED BY <2>1, BeginGInv
<1>3. CASE Patch(c)
  <2>1. configured' \in Profiles /\ override' \in Profiles \cup {None} /\ Begin(c, FALSE)
    BY <1>3 DEF Patch, GInv, GoTypeOK
  <2>. QED BY <2>1, BeginGInv
<1>4. CASE ClearOverride(c)
  <2>1. configured' \in Profiles /\ override' \in Profiles \cup {None} /\ Begin(c, FALSE)
    BY <1>4 DEF ClearOverride, GInv, GoTypeOK
  <2>. QED BY <2>1, BeginGInv
<1>. QED
  BY <1>1, <1>2, <1>3, <1>4, RestartGInv, PatchSelectorGInv, SetSelectorGInv, StoreSelectedGInv
     DEF Call

\* Stuttering keeps the invariant, and so does every step.
LEMMA NextGInv == GInv /\ [Next]_vars => GInv'
<1> SUFFICES ASSUME GInv, [Next]_vars PROVE GInv'
  OBVIOUS
<1>1. CASE CheckerStep
  BY <1>1, WakeGInv, EndRoundGInv, CheckRestoreGInv, ProbeOriginGInv, ObserveGInv,
     ProbeCurrentGInv, ScanGInv, CompareGInv, SetGInv, CacheGInv DEF CheckerStep
<1>2. CASE \E c \in Clients : Call(c)
  BY <1>2, CallGInv
<1>3. CASE UNCHANGED vars
  <2>1. GoTypeOK'
    BY <1>3 DEF GInv, GoTypeOK, vars, tunnelVars, engineVars, checkVars
  <2>2. Attempt' /\ InForce'
    BY <1>3 DEF GInv, Attempt, InForce, InGroup, Alive, vars, tunnelVars, engineVars, checkVars
  <2>. QED BY <1>3, <2>1, <2>2, AllowedStays DEF GInv, vars, engineVars
<1>. QED BY <1>1, <1>2, <1>3 DEF Next

\* What the checker of the Go core has in hand fits where it is, it runs under
\* the settings in force, and only they allow the restores that are pending.
THEOREM GoInvariant == Spec => []GInv
BY InitGInv, NextGInv, PTL DEF Spec

\* Type correctness of the Go engine, its checker and its calls.
THEOREM GoTyped == Spec => []GoTypeOK
BY GoInvariant, PTL DEF GInv

\* A restore is pending only for groups whose settings in force want one, between
\* two real nodes (restartLocked, rememberOrigin, checkRestore).
THEOREM GoRestoresKept == Spec => []GoRestoresAllowed
BY GoInvariant, PTL DEF GInv

-----------------------------------------------------------------------------
(* The second invariant *)

\* Automatic switches led to the selection, and nothing astray came in between.
Chained(g) == hist[g].auto /\ ~hist[g].lost

\* The restores of a group follow the history of its selections: the automatic
\* switches that nobody interfered with are the ones that will be undone.
Normal(g) ==
    /\ Chained(g) <=> Pending(g) /\ ~hist[g].touched
    /\ Chained(g) => restores[g].origin = hist[g].home /\ restores[g].target = Now(g)

\* A restore that has been taken out of the map and not been made yet.
Restoring == pc \in {"compare", "set"} /\ change.kind = "restore"

\* The selection of g and what is remembered about it do not agree yet.
Between(g) == group = g /\ (Restoring \/ pc = "cache")

\* The node to which the map of restores will lead after a switch.
OriginOf(r) == IF r.origin = None \/ r.target # change.from THEN change.from ELSE r.origin

\* Wherever the checker is not in between, the two agree.
Followed == \A g \in Groups : ~Between(g) => Normal(g)

\* A restore replaces the selection its chain of switches led to, and nothing
\* is pending any more when it is made.
Restored ==
    /\ pc = "probeOrigin" \/ (pc = "compare" /\ change.kind = "restore")
       => (Chained(group) /\ change.table = gen => Now(group) = change.from)
    /\ pc \in {"compare", "set", "cache"} /\ change.kind = "restore" => ~Pending(group)
    /\ pc = "cache" /\ change.kind = "restore" => ~Chained(group)

\* A switch that nobody interfered with replaces the selection it was decided for ...
Compared ==
    pc = "set" /\ change.kind = "switch" /\ change.table = gen /\ ~hist[group].touched
    => Now(group) = change.from

\* ... and what will be remembered of it is the first node of its chain.
Switched ==
    pc = "cache" /\ change.kind = "switch" =>
        /\ Chained(group) <=> ~hist[group].touched /\ running.restore /\ change.to # hist[group].home
        /\ ~hist[group].touched => /\ Now(group) = change.to
                                   /\ OriginOf(restores[group]) = hist[group].home

HInv == Followed /\ Restored /\ Compared /\ Switched

\* Nothing is pending and nobody has switched in a session that has just started.
LEMMA InitHInv == Init => HInv
<1> SUFFICES ASSUME Init PROVE HInv
  OBVIOUS
<1>1. ASSUME NEW g \in Groups PROVE ~Chained(g) /\ ~Pending(g)
  <2>1. ~Chained(g)
    <3>1. PICK s \in [Groups -> NodeOrNone] :
            hist = [h \in Groups |-> [home |-> s[h], auto |-> FALSE, touched |-> FALSE, lost |-> FALSE]]
      BY DEF Init
    <3>2. hist[g] = [home |-> s[g], auto |-> FALSE, touched |-> FALSE, lost |-> FALSE]
      BY <3>1
    <3>. QED BY <3>2 DEF Chained
  <2>2. restores[g] = NoRestore
    BY DEF Init
  <2>. QED BY <2>1, <2>2, Blank DEF Pending
<1>2. pc \in {"spawned", "dead"}
  BY DEF Init
<1>. QED BY <1>1, <1>2 DEF HInv, Followed, Normal, Chained, Restored, Compared, Switched

\* Steps that touch neither selections nor restores nor history keep the
\* invariant, as long as they stay clear of a change.
LEMMA ClearStays ==
    ASSUME HInv, UNCHANGED <<gen, selected, restores, hist>>,
           ~Restoring, pc \notin {"probeOrigin", "cache"},
           pc' \notin {"probeOrigin", "compare", "set", "cache"}
    PROVE  HInv'
<1>1. Followed'
  BY DEF HInv, Followed, Between, Normal, Chained, Restoring, Pending, Now
<1>. QED BY <1>1 DEF HInv, Restored, Compared, Switched

-----------------------------------------------------------------------------
(* The steps of the checker *)

LEMMA CheckRestoreHInv == ASSUME GInv, HInv, NEW g \in Groups, CheckRestore(g) PROVE HInv'
<1> USE DEF CheckRestore, tunnelVars
<1>1. CASE ~Pending(g)
  BY <1>1, ClearStays DEF Restoring
<1>2. CASE Pending(g) /\ ~Standing(g)
  <2> USE <1>2
  <2>1. Normal(g)
    BY DEF HInv, Followed, Between, Restoring
  <2>2. /\ restores' = [restores EXCEPT ![g] = NoRestore] /\ restores \in [Groups -> Restore]
        /\ hist \in [Groups -> Hist]
    BY DEF GInv, GoTypeOK
  <2>3. ~Chained(g)'
    <3>1. Chained(g)' <=> Chained(g) /\ hist[g].home \in Leaf(gen, g)
      BY <2>2 DEF Settle, Hist, Chained
    <3>2. Chained(g) => hist[g].home \notin Leaf(gen, g)
      BY <2>1 DEF Normal, Chained, Standing
    <3>. QED BY <3>1, <3>2
  <2>4. Normal(g)'
    BY <2>2, <2>3, Blank DEF Normal, Chained, Pending
  <2>5. ASSUME NEW h \in Groups, h # g PROVE Normal(h)'
    <3>1. Normal(h)
      BY DEF HInv, Followed, Between, Restoring
    <3>2. hist'[h] = hist[h] /\ restores'[h] = restores[h]
      BY <2>2, <2>5 DEF Settle
    <3>. QED BY <3>1, <3>2 DEF Normal, Chained, Pending, Now
  <2>. QED BY <2>4, <2>5 DEF HInv, Followed, Restored, Compared, Switched
<1>3. CASE Pending(g) /\ Standing(g)
  <2> USE <1>3
  <2>1. Followed'
    BY DEF HInv, Followed, Between, Normal, Chained, Restoring, Pending, Now
  <2>2. Now(group)' = change'.from /\ pc' = "probeOrigin"
    BY DEF Standing, Now
  <2>. QED BY <2>1, <2>2 DEF HInv, Restored, Compared, Switched
<1>. QED BY <1>1, <1>2, <1>3

LEMMA ProbeOriginHInv == ASSUME GInv, HInv, ProbeOrigin PROVE HInv'
<1> USE DEF ProbeOrigin, tunnelVars
<1>1. /\ restores \in [Groups -> Restore] /\ hist \in [Groups -> Hist] /\ group \in Groups
      /\ change.kind = "restore"
  BY DEF GInv, GoTypeOK, Attempt
<1>2. \A g \in Groups : Normal(g)
  BY DEF HInv, Followed, Between, Restoring
<1>3. CASE Return("observe") /\ UNCHANGED hist
           /\ \A g \in Groups : restores'[g].origin = restores[g].origin
                                /\ restores'[g].target = restores[g].target
  <2>1. \A g \in Groups : Normal(g)'
    BY <1>2, <1>3 DEF Normal, Chained, Pending, Now
  <2>. QED BY <1>3, <2>1 DEF HInv, Followed, Restored, Compared, Switched, Return
<1>4. CASE Go("compare") /\ Settle(group) /\ restores' = [restores EXCEPT ![group] = NoRestore]
  <2>1. ~Pending(group)'
    BY <1>1, <1>4, Blank DEF Pending
  <2>2. Chained(group)' => Chained(group)
    BY <1>1, <1>4 DEF Settle, Hist, Chained
  <2>3. Restored'
    BY <1>1, <1>4, <2>1, <2>2 DEF HInv, Restored, Go, Now
  <2>4. ASSUME NEW h \in Groups, h # group PROVE Normal(h)'
    <3>1. hist'[h] = hist[h] /\ restores'[h] = restores[h]
      BY <1>1, <1>4, <2>4 DEF Settle
    <3>. QED BY <1>2, <3>1 DEF Normal, Chained, Pending, Now
  <2>5. Followed'
    BY <1>1, <1>4, <2>4 DEF Followed, Between, Restoring, Go
  <2>. QED BY <1>1, <1>4, <2>3, <2>5 DEF HInv, Compared, Switched, Go
<1>5. ASSUME NEW n, restores' = [restores EXCEPT ![group].successes = n]
      PROVE  \A g \in Groups : restores'[g].origin = restores[g].origin
                               /\ restores'[g].target = restores[g].target
  BY <1>1, <1>5 DEF Restore
<1>. QED BY <1>3, <1>4, <1>5

LEMMA ObserveHInv == ASSUME GInv, HInv, Observe PROVE HInv'
BY ClearStays DEF Observe, tunnelVars, engineVars, Restoring, Return

LEMMA ProbeCurrentHInv == ASSUME GInv, HInv, ProbeCurrent PROVE HInv'
BY ClearStays DEF ProbeCurrent, tunnelVars, engineVars, Restoring, Return, Go

LEMMA ScanHInv == ASSUME GInv, HInv, Scan PROVE HInv'
<1> USE DEF Scan, tunnelVars, engineVars
<1>1. CASE pc' = "pick"
  BY <1>1, ClearStays DEF Restoring
<1>2. CASE pc' = "compare"
  <2>1. change'.kind = "switch"
    BY <1>2 DEF GInv, Attempt, Return, Change
  <2>2. Followed'
    BY <1>2, <2>1 DEF HInv, Followed, Between, Normal, Chained, Restoring, Pending, Now
  <2>. QED BY <1>2, <2>1, <2>2 DEF HInv, Restored, Compared, Switched
<1>. QED BY <1>1, <1>2 DEF Return

LEMMA CompareHInv == ASSUME GInv, HInv, Compare PROVE HInv'
<1> USE DEF Compare, tunnelVars, engineVars
<1>1. change \in Change /\ group \in Groups
  BY DEF GInv, GoTypeOK, Attempt
<1>2. CASE selected[change.table][group] = change.from
  <2> USE <1>2 DEF Go
  <2>1. Followed'
    BY DEF HInv, Followed, Between, Normal, Chained, Restoring, Pending, Now
  <2>2. Restored'
    BY DEF HInv, Restored, Pending
  <2>3. Compared'
    BY DEF Compared, Now
  <2>. QED BY <2>1, <2>2, <2>3 DEF HInv, Switched
<1>3. CASE selected[change.table][group] # change.from
  <2> USE <1>3 DEF Return
  <2>1. CASE change.kind = "restore"
    <3>1. ~Chained(group)' /\ ~Pending(group) /\ UNCHANGED restores
      <4>1. CASE change.table = gen
        BY <2>1, <4>1 DEF HInv, Restored, Chained, Now
      <4>2. CASE change.table # gen
        <5>1. hist \in [Groups -> Hist]
          BY DEF GInv, GoTypeOK
        <5>2. hist'[group] = Lost(hist[group])
          BY <1>1, <2>1, <4>2, <5>1
        <5>3. hist'[group].lost = hist[group].auto /\ hist'[group].auto = hist[group].auto
          BY <1>1, <5>1, <5>2 DEF Lost, Hist
        <5>. QED BY <2>1, <5>3 DEF HInv, Restored, Chained
      <4>. QED BY <4>1, <4>2
    <3>2. ASSUME NEW g \in Groups, g # group PROVE Normal(g)'
      <4>1. hist'[g] = hist[g] /\ Normal(g)
        BY <3>2 DEF HInv, Followed, Between, GInv, GoTypeOK
      <4>. QED BY <4>1 DEF Normal, Chained, Pending, Now
    <3>3. \A g \in Groups : Normal(g)'
      BY <3>1, <3>2 DEF Normal, Chained, Pending
    <3>. QED BY <2>1, <3>3 DEF HInv, Followed, Restored, Compared, Switched
  <2>2. CASE change.kind = "switch"
    BY <2>2, ClearStays DEF Restoring
  <2>. QED BY <1>1, <2>1, <2>2 DEF Change
<1>. QED BY <1>2, <1>3

\* What Set makes of the history of its group.
LEMMA SetHist ==
    ASSUME GInv, Set
    PROVE  /\ change.table = gen
              => hist'[group].home = IF change.kind = "switch" /\ ~Chained(group)
                                     THEN change.from ELSE hist[group].home
           /\ Chained(group)' <=> /\ change.kind = "switch" /\ running.restore /\ change.table = gen
                                    /\ ~hist[group].touched
                                    /\ change.to # IF Chained(group) THEN hist[group].home ELSE change.from
           /\ hist'[group].touched <=> hist[group].touched \/ change.table # gen
           /\ \A h \in Groups : h # group => hist'[h] = hist[h]
<1>1. hist \in [Groups -> Hist] /\ group \in Groups /\ group' = group
  BY DEF GInv, GoTypeOK, Set
<1>2. \A h \in Groups : h # group => hist'[h] = hist[h]
  BY <1>1 DEF Set
<1>3. CASE change.table = gen
  <2>1. hist'[group] = MovedByChecker(hist[group])
    BY <1>1, <1>3 DEF Set
  <2> DEFINE first == IF hist[group].auto /\ ~hist[group].lost THEN hist[group].home ELSE change.from
  <2>5. hist'[group] = [home |-> IF change.kind = "switch" THEN first ELSE hist[group].home,
                        auto |-> change.kind = "switch" /\ running.restore
                                 /\ ~hist[group].touched /\ change.to # first,
                        touched |-> hist[group].touched, lost |-> FALSE]
    BY <2>1 DEF MovedByChecker
  <2>2. /\ hist'[group].home = IF change.kind = "switch" THEN first ELSE hist[group].home
        /\ hist'[group].auto <=> /\ change.kind = "switch" /\ running.restore
                                 /\ ~hist[group].touched /\ change.to # first
        /\ hist'[group].touched = hist[group].touched
        /\ ~hist'[group].lost
    <3> HIDE DEF first
    <3> DEFINE now == change.kind = "switch" /\ running.restore
                      /\ ~hist[group].touched /\ change.to # first
    <3>1. hist'[group].auto = now
      BY <2>5
    <3>2. /\ hist'[group].home = IF change.kind = "switch" THEN first ELSE hist[group].home
          /\ hist'[group].touched = hist[group].touched
          /\ hist'[group].lost = FALSE
      <4> HIDE DEF now
      <4>. QED BY <2>5
    <3>3. hist'[group].auto <=> now
      BY <3>1, Zenon
    <3>. QED BY <3>2, <3>3, Zenon
  <2>3. first = IF Chained(group) THEN hist[group].home ELSE change.from
    BY DEF Chained
  <2> HIDE DEF first
  <2>4. Chained(group)' <=> hist'[group].auto
    BY <1>1, <2>2 DEF Chained
  <2>. QED BY <1>2, <1>3, <2>2, <2>3, <2>4
<1>4. CASE change.table # gen
  <2>1. hist'[group] = [Lost(hist[group]) EXCEPT !.touched = TRUE]
    BY <1>1, <1>4 DEF Set
  <2>2. /\ hist'[group].touched = TRUE /\ hist'[group].auto = hist[group].auto
        /\ hist'[group].lost = hist[group].auto
    BY <1>1, <2>1 DEF Lost, Hist
  <2>3. ~Chained(group)' /\ hist'[group].touched
    BY <1>1, <2>2 DEF Chained
  <2>. QED BY <1>2, <1>4, <2>3
<1>. QED BY <1>3, <1>4

LEMMA SetHInv == ASSUME GInv, HInv, Set PROVE HInv'
<1> USE DEF Set, Go, engineVars
<1>1. /\ change \in Change /\ change.table \in Gens /\ gen \in Gens /\ group \in Groups
      /\ selected \in [Gens -> [Groups -> NodeOrNone]]
  BY DEF GInv, GoTypeOK, Attempt, Change
<1>2. Followed'
  <2>1. ASSUME NEW h \in Groups, h # group PROVE Normal(h)'
    <3>1. Normal(h)
      BY <2>1 DEF HInv, Followed, Between
    <3>2. hist'[h] = hist[h] /\ selected'[gen][h] = selected[gen][h]
      BY <1>1, <2>1, SetHist
    <3>. QED BY <3>1, <3>2 DEF Normal, Chained, Pending, Now
  <2>. QED BY <2>1 DEF Followed, Between
<1>3. CASE change.kind = "restore"
  <2>1. ~Chained(group)'
    BY <1>3, SetHist
  <2>2. ~Pending(group)'
    BY <1>3 DEF HInv, Restored, Pending
  <2>. QED BY <1>2, <1>3, <2>1, <2>2 DEF HInv, Restored, Compared, Switched
<1>4. CASE change.kind = "switch"
  <2>1. Normal(group)
    BY <1>1, <1>4 DEF HInv, Followed, Between, Restoring
  <2>2. CASE hist'[group].touched
    BY <1>2, <1>4, <2>2, SetHist DEF HInv, Restored, Compared, Switched
  <2>3. CASE ~hist'[group].touched
    <3>1. ~hist[group].touched /\ change.table = gen
      BY <2>3, SetHist
    <3>2. Now(group) = change.from
      BY <1>4, <3>1 DEF HInv, Compared
    <3>3. Now(group)' = change.to
      BY <1>1, <3>1 DEF Now
    <3>4. hist'[group].home = IF Chained(group) THEN hist[group].home ELSE change.from
      BY <1>4, <3>1, SetHist
    <3>5. OriginOf(restores[group]) = hist'[group].home
      <4>1. CASE Chained(group)
        BY <2>1, <3>2, <3>4, <4>1 DEF Normal, Chained, Pending, OriginOf
      <4>2. CASE ~Chained(group)
        BY <2>1, <3>1, <3>4, <4>2 DEF Normal, Chained, Pending, OriginOf
      <4>. QED BY <4>1, <4>2
    <3>6. Chained(group)' <=> running.restore /\ change.to # hist'[group].home
      BY <1>4, <3>1, <3>4, SetHist
    <3>7. Switched'
      BY <2>3, <3>3, <3>5, <3>6 DEF Switched, OriginOf
    <3>. QED BY <1>2, <1>4, <3>7 DEF HInv, Restored, Compared
  <2>. QED BY <2>2, <2>3
<1>. QED BY <1>1, <1>3, <1>4 DEF Change

LEMMA CacheHInv == ASSUME GInv, HInv, Cache PROVE HInv'
<1> USE DEF Cache, Return
<1>1. /\ change \in Change /\ group \in Groups /\ restores \in [Groups -> Restore]
      /\ hist \in [Groups -> Hist]
  BY DEF GInv, GoTypeOK, Attempt
<1>2. /\ hist'[group].home = hist[group].home /\ Chained(group)' = Chained(group)
      /\ hist'[group].touched <=> hist[group].touched /\ Pending(group)'
      /\ \A h \in Groups : h # group => hist'[h] = hist[h] /\ restores'[h] = restores[h]
  BY <1>1 DEF Hist, Pending, Chained
<1>3. ASSUME NEW h \in Groups, h # group PROVE Normal(h)'
  <2>1. Normal(h)
    BY <1>3 DEF HInv, Followed, Between
  <2>. QED BY <1>2, <1>3, <2>1 DEF Normal, Chained, Pending, Now
<1>4. Normal(group)'
  <2>1. CASE change.kind = "restore"
    <3>1. ~Chained(group) /\ ~Pending(group) /\ UNCHANGED restores
      BY <2>1 DEF HInv, Restored
    <3>. QED BY <1>2, <3>1 DEF Normal, Chained, Pending
  <2>2. CASE change.kind = "switch" /\ hist[group].touched
    <3>1. ~Chained(group)
      BY <2>2 DEF HInv, Switched
    <3>. QED BY <1>2, <2>2, <3>1 DEF Normal, Chained
  <2>3. CASE change.kind = "switch" /\ ~hist[group].touched /\ ~running.restore
    <3>1. UNCHANGED restores /\ ~Chained(group)
      BY <2>3 DEF HInv, Switched
    <3>2. ~Pending(group)
      BY <1>1, <2>3 DEF GInv, InForce, GoRestoresAllowed
    <3>. QED BY <1>2, <3>1, <3>2 DEF Normal, Chained, Pending
  <2>4. CASE change.kind = "switch" /\ ~hist[group].touched /\ running.restore
    <3>1. /\ OriginOf(restores[group]) = hist[group].home /\ Now(group) = change.to
          /\ Chained(group) <=> change.to # hist[group].home
      BY <2>4 DEF HInv, Switched
    <3>2. restores'[group] = RememberOrigin(restores[group])
      BY <1>1, <2>4
    <3>3. CASE change.to = hist[group].home
      <4>1. restores'[group] = NoRestore
        BY <3>1, <3>2, <3>3 DEF RememberOrigin, OriginOf
      <4>. QED BY <1>2, <3>1, <3>3, <4>1, Blank DEF Normal, Chained, Pending
    <3>4. CASE change.to # hist[group].home
      <4>1. restores'[group] = [origin |-> hist[group].home, target |-> change.to, successes |-> 0]
        BY <3>1, <3>2, <3>4 DEF RememberOrigin, OriginOf
      <4>2. hist[group].home # None
        <5>1. OriginOf(restores[group]) \in Leaves
          BY <1>1, <2>4 DEF GInv, Attempt, GoRestoresAllowed, Pending, OriginOf
        <5>. QED BY <3>1, <5>1, Blank, GoConstantsOK
      <4>. QED BY <1>2, <2>4, <3>1, <3>4, <4>1, <4>2 DEF Normal, Chained, Pending, Now
    <3>. QED BY <3>3, <3>4
  <2>. QED BY <1>1, <2>1, <2>2, <2>3, <2>4 DEF Change
<1>. QED BY <1>3, <1>4 DEF HInv, Followed, Restored, Compared, Switched

-----------------------------------------------------------------------------
(* The steps of the calls *)

\* A selection that someone else moves takes its group out of the automatic
\* chain; one that is set to what it was changes nothing.
LEMMA MovedHInv ==
    ASSUME GInv, HInv, UNCHANGED <<restores, running, pc, group, change>>,
           gen' = gen \/ gen' = gen + 1,
           \A g \in Groups :
               \/ hist'[g] = hist[g] /\ selected'[gen'][g] = selected[gen][g]
               \/ /\ ~Chained(g)'
                  /\ hist'[g].touched <=> hist[g].touched \/ Pending(g)
                                          \/ (pc \in {"set", "cache"} /\ group = g)
    PROVE  HInv'
<1>1. group \in Groups /\ gen \in Nat
  BY DEF GInv, GoTypeOK, Gens
<1>2. pc \in {"probeOrigin", "compare", "set", "cache"}
      => change \in Change /\ change.table \in Gens /\ change.table <= gen
  BY DEF GInv, Attempt, Change
<1>3. ASSUME NEW g \in Groups, ~Between(g)' PROVE Normal(g)'
  <2>1. Normal(g)
    BY <1>3 DEF HInv, Followed, Between, Restoring
  <2>. QED BY <2>1 DEF Normal, Chained, Pending, Now
<1>4. Restored'
  <2>1. change.table = gen' /\ pc \in {"probeOrigin", "compare"} => change.table = gen
    BY <1>1, <1>2 DEF Gens
  <2>. QED BY <1>1, <2>1 DEF HInv, Restored, Pending, Chained, Now
<1>5. Compared'
  <2>1. change.table = gen' /\ pc = "set" => change.table = gen
    BY <1>1, <1>2 DEF Gens
  <2>. QED BY <1>1, <2>1 DEF HInv, Compared, Now
<1>6. Switched'
  <2>1. OriginOf(restores[group])' = OriginOf(restores[group])
    BY DEF OriginOf
  <2>. QED BY <1>1, <2>1 DEF HInv, Switched, Chained, Now
<1>. QED BY <1>3, <1>4, <1>5, <1>6 DEF HInv, Followed

\* What a move makes of a history.
LEMMA MovedHist ==
    ASSUME GInv, NEW g \in Groups, NEW n, n # selected[gen][g]
    PROVE  /\ ~Moved(hist[g], gen, g, n).auto
           /\ Moved(hist[g], gen, g, n).touched <=> hist[g].touched \/ Pending(g)
                                                  \/ (pc \in {"set", "cache"} /\ group = g)
BY DEF Moved

LEMMA InstallHInv == ASSUME GInv, HInv, NEW c \in Clients, Install(c) PROVE HInv'
<1>1. PICK s \in [Groups -> NodeOrNone] :
        /\ selected' = [selected EXCEPT ![gen + 1] = s]
        /\ hist' = [g \in Groups |-> Moved(hist[g], gen, g, s[g])]
  BY DEF Install
<1>2. /\ gen \in Gens /\ gen + 1 \in Gens /\ gen' = gen + 1
      /\ selected \in [Gens -> [Groups -> NodeOrNone]]
  BY GoConstantsOK DEF GInv, GoTypeOK, Gens, Install
<1>3. ASSUME NEW g \in Groups, s[g] = selected[gen][g]
      PROVE  hist'[g] = hist[g] /\ selected'[gen'][g] = selected[gen][g]
  BY <1>1, <1>2, <1>3 DEF Moved
<1>4. ASSUME NEW g \in Groups, s[g] # selected[gen][g]
      PROVE  /\ ~Chained(g)'
             /\ hist'[g].touched <=> hist[g].touched \/ Pending(g)
                                     \/ (pc \in {"set", "cache"} /\ group = g)
  BY <1>1, <1>4, MovedHist DEF Chained
<1>5. UNCHANGED <<restores, running, pc, group, change>>
  BY DEF Install, engineVars, checkVars
<1>. QED BY <1>2, <1>3, <1>4, <1>5, MovedHInv

LEMMA SetSelectorHInv == ASSUME GInv, HInv, NEW c \in Clients, SetSelector(c) PROVE HInv'
<1>1. PICK t \in Gens, h \in Groups, n \in NodeOrNone :
        t = call[c].table /\ h = call[c].group /\ n = call[c].node
  BY CallTypes DEF GInv, SetSelector, NodeOrNone
<1>2. /\ selected \in [Gens -> [Groups -> NodeOrNone]] /\ gen \in Gens
      /\ hist \in [Groups -> Hist]
  BY DEF GInv, GoTypeOK
<1>3. /\ selected' = [selected EXCEPT ![t][h] = n]
      /\ hist' = [hist EXCEPT ![h] = Moved(hist[h], t, h, n)]
  BY <1>1 DEF SetSelector
<1>4. UNCHANGED <<restores, running, pc, group, change, gen>>
  BY DEF SetSelector, engineVars, checkVars
<1>5. ASSUME NEW g \in Groups, g # h \/ t # gen \/ n = selected[t][h]
      PROVE  hist'[g] = hist[g] /\ selected'[gen'][g] = selected[gen][g]
  BY <1>1, <1>2, <1>3, <1>4, <1>5 DEF Moved
<1>6. CASE t = gen /\ n # selected[t][h]
  <2>1. hist'[h] = Moved(hist[h], gen, h, n) /\ n # selected[gen][h]
    BY <1>1, <1>2, <1>3, <1>6
  <2>2. /\ ~Chained(h)'
        /\ hist'[h].touched <=> hist[h].touched \/ Pending(h)
                                \/ (pc \in {"set", "cache"} /\ group = h)
    <3>1. /\ ~Moved(hist[h], gen, h, n).auto
          /\ Moved(hist[h], gen, h, n).touched <=> hist[h].touched \/ Pending(h)
                                                   \/ (pc \in {"set", "cache"} /\ group = h)
      BY <1>1, <2>1, MovedHist
    <3>. QED BY <2>1, <3>1 DEF Chained
  <2>3. \A g \in Groups :
           \/ hist'[g] = hist[g] /\ selected'[gen'][g] = selected[gen][g]
           \/ /\ ~Chained(g)'
              /\ hist'[g].touched <=> hist[g].touched \/ Pending(g)
                                      \/ (pc \in {"set", "cache"} /\ group = g)
    BY <1>5, <2>2
  <2>. QED BY <1>4, <2>3, MovedHInv
<1>7. CASE t # gen \/ n = selected[t][h]
  BY <1>4, <1>5, <1>7, MovedHInv
<1>. QED BY <1>6, <1>7

LEMMA RestartHInv == ASSUME GInv, HInv, NEW c \in Clients, Restart(c) PROVE HInv'
<1>1. pc = "dead" /\ pc' \in {"spawned", "dead"} /\ UNCHANGED <<gen, selected>>
  BY DEF Restart, Alive, tunnelVars
<1>2. hist \in [Groups -> Hist]
  BY DEF GInv, GoTypeOK
<1>3. ASSUME NEW g \in Groups PROVE Normal(g)'
  <2>1. Normal(g)
    BY <1>1 DEF HInv, Followed, Between, Restoring
  <2>2. CASE Keeps(Effective, g)
    <3>1. hist'[g] = hist[g] /\ restores'[g] = restores[g]
      BY <2>2 DEF Restart
    <3>. QED BY <1>1, <2>1, <3>1 DEF Normal, Chained, Pending, Now
  <2>3. CASE ~Keeps(Effective, g)
    <3>1. restores'[g] = NoRestore /\ ~Chained(g)'
      BY <1>2, <2>3 DEF Restart, Hist, Chained
    <3>. QED BY <3>1, Blank DEF Normal, Chained, Pending
  <2>. QED BY <2>2, <2>3
<1>. QED BY <1>1, <1>3 DEF HInv, Followed, Restored, Compared, Switched

\* Whoever leaves selections, restores, history and the checker's step alone
\* keeps the invariant.
LEMMA IdleHInv ==
    ASSUME HInv, UNCHANGED <<gen, selected, restores, hist, running, pc, group, change>>
    PROVE  HInv'
<1>1. Followed'
  BY DEF HInv, Followed, Between, Normal, Chained, Restoring, Pending, Now
<1>2. Restored' /\ Compared'
  BY DEF HInv, Restored, Compared, Chained, Pending, Now
<1>3. Switched'
  BY DEF HInv, Switched, OriginOf, Chained, Now
<1>. QED BY <1>1, <1>2, <1>3 DEF HInv

LEMMA CallHInv == ASSUME GInv, HInv, NEW c \in Clients, Call(c) PROVE HInv'
<1>1. CASE Apply(c) \/ Patch(c) \/ ClearOverride(c)
  BY <1>1, IdleHInv DEF Apply, Patch, ClearOverride, Begin, tunnelVars, checkVars
<1>2. CASE PatchSelector(c) \/ StoreSelected(c)
  BY <1>2, IdleHInv DEF PatchSelector, StoreSelected, tunnelVars, engineVars, checkVars
<1>. QED BY <1>1, <1>2, InstallHInv, SetSelectorHInv, RestartHInv DEF Call

LEMMA NextHInv == GInv /\ HInv /\ [Next]_vars => HInv'
<1> SUFFICES ASSUME GInv, HInv, [Next]_vars PROVE HInv'
  OBVIOUS
<1>1. CASE Wake \/ EndRound
  BY <1>1, ClearStays DEF Wake, EndRound, tunnelVars, Restoring
<1>2. CASE CheckerStep
  BY <1>1, <1>2, CheckRestoreHInv, ProbeOriginHInv, ObserveHInv, ProbeCurrentHInv, ScanHInv,
     CompareHInv, SetHInv, CacheHInv DEF CheckerStep
<1>3. CASE \E c \in Clients : Call(c)
  BY <1>3, CallHInv
<1>4. CASE UNCHANGED vars
  BY <1>4, IdleHInv DEF vars, tunnelVars, engineVars, checkVars
<1>. QED BY <1>2, <1>3, <1>4 DEF Next

\* The pending restores follow the history of the selections, whatever calls
\* and reloads come in between.
THEOREM GoHistoryInvariant == Spec => [](GInv /\ HInv)
<1>1. Init => GInv /\ HInv
  BY InitGInv, InitHInv
<1>2. GInv /\ HInv /\ [Next]_vars => GInv' /\ HInv'
  BY NextGInv, NextHInv
<1>. QED BY <1>1, <1>2, PTL DEF Spec

\* Where only automatic switches moved a group, its pending restore leads to the
\* node the first of them left (rememberOrigin), across reloads and patches.
THEOREM GoOriginStays == Spec => []GoOriginIsHome
<1>1. HInv => GoOriginIsHome
  BY DEF HInv, Followed, Between, Restoring, Normal, Changing, GoOriginIsHome
<1>. QED BY <1>1, GoHistoryInvariant, PTL

\* While a selection is the one automatic switches led to, and the settings in
\* force restore its group, the restore is pending and stands for it.
THEOREM GoSwitchIsUndone == Spec => []SwitchIsUndone
<1>1. HInv => SwitchIsUndone
  BY DEF HInv, Followed, Between, Restoring, Normal, Chained, Changing, SwitchIsUndone
<1>. QED BY <1>1, GoHistoryInvariant, PTL

-----------------------------------------------------------------------------
(* The restarts *)

PhaseOf(p) == CASE p \in {"dead", "spawned"} -> "stopped"
                [] p = "sleep" -> "waiting"
                [] OTHER -> "checking"

\* The call that waits is the one that holds engine.lifecycle, it has cancelled the
\* checker, and no checker ends otherwise; the settings change under the lock only.
LInv ==
    /\ \A c \in Clients : call[c].does = "join" <=> lifecycle = c
    /\ cancelled => lifecycle # None
    /\ RestartHeard
    /\ Alive => Runs(active)
    /\ lifecycle = None /\ ~Alive => ~Runs(active)
    /\ lifecycle = None => active = Effective
    /\ phase = PhaseOf(pc)

\* A step of the checker follows its phase, and ends it only when it is cancelled.
LEMMA CheckerLInv == ASSUME GInv, LInv, CheckerStep PROVE LInv'
<1>1. UNCHANGED <<configured, override, active, lifecycle, cancelled, call>> /\ Alive
  BY DEF CheckerStep, Wake, EndRound, CheckRestore, ProbeOrigin, Observe, ProbeCurrent, Scan,
         Compare, Set, Cache, engineVars, Alive
<1>2. CASE Wake \/ EndRound
  <2>1. phase' = PhaseOf(pc')
    BY <1>2 DEF Wake, EndRound, PhaseOf
  <2>2. pc' = "dead" => cancelled
    BY <1>2 DEF Wake, EndRound
  <2>. QED BY <1>1, <2>1, <2>2 DEF LInv, RestartHeard, Alive, Effective
<1>3. CASE ~(Wake \/ EndRound)
  <2>1. /\ phase' = phase
        /\ pc \notin {"dead", "spawned", "sleep"} /\ pc' \notin {"dead", "spawned", "sleep"}
    BY <1>3 DEF CheckerStep, CheckRestore, ProbeOrigin, Observe, ProbeCurrent, Scan, Compare,
                Set, Cache, Go, Return, engineVars
  <2>. QED BY <1>1, <2>1 DEF LInv, RestartHeard, Alive, Effective, PhaseOf
<1>. QED BY <1>2, <1>3

\* A selection, and a reload that has only installed its table, restart nothing.
LEMMA SelectionLInv ==
    ASSUME GInv, LInv, NEW c \in Clients,
           Install(c) \/ PatchSelector(c) \/ SetSelector(c) \/ StoreSelected(c)
    PROVE  LInv'
<1>1. UNCHANGED <<engineVars, lifecycle, pc, cancelled>>
  BY DEF Install, PatchSelector, SetSelector, StoreSelected
<1>2. call[c].does # "join"
  BY DEF Install, PatchSelector, SetSelector, StoreSelected, Free, Idle
<1>3. call'[c].does # "join" /\ \A d \in Clients \ {c} : call'[d] = call[d]
  <2>. USE DEF GInv, GoTypeOK, Become
  <2>1. CASE Install(c)
    <3>1. PICK p \in Profiles : Become(c, [does |-> "apply", settings |-> p])
      BY <2>1 DEF Install
    <3>. QED BY <3>1
  <2>2. CASE PatchSelector(c)
    <3>1. PICK g \in Groups : \E n \in members[gen][g] :
             Become(c, [does |-> "set", table |-> gen, group |-> g, node |-> n])
      BY <2>2 DEF PatchSelector
    <3>2. PICK n \in members[gen][g] :
             Become(c, [does |-> "set", table |-> gen, group |-> g, node |-> n])
      BY <3>1
    <3>. QED BY <3>2
  <2>3. CASE SetSelector(c)
    <3>1. call[c] \in [does : {"set", "store"}, table : Gens, group : Groups, node : Nodes]
      BY <2>3 DEF SetSelector, Calls, Idle
    <3>2. call' = [call EXCEPT ![c] = [call[c] EXCEPT !.does = "store"]]
      BY <2>3 DEF SetSelector
    <3>. QED BY <3>1, <3>2
  <2>4. CASE StoreSelected(c)
    BY <2>4 DEF StoreSelected, Idle
  <2>. QED BY <2>1, <2>2, <2>3, <2>4
<1>4. \A d \in Clients : call'[d].does = "join" <=> call[d].does = "join"
  BY <1>2, <1>3
<1>. QED BY <1>1, <1>4 DEF LInv, RestartHeard, Alive, Effective, engineVars

\* Who begins a restart takes the lock and cancels the checker there is.
LEMMA BeginLInv ==
    ASSUME GInv, LInv, NEW c \in Clients, Apply(c) \/ Patch(c) \/ ClearOverride(c) PROVE LInv'
<1>1. PICK reload : Begin(c, reload)
  BY DEF Apply, Patch, ClearOverride
<1>2. /\ lifecycle = None /\ lifecycle' = c /\ c # None /\ cancelled' = Alive
      /\ UNCHANGED <<active, phase, pc>>
  BY <1>1, GoConstantsOK DEF Begin, Cancels
<1>3. \A d \in Clients : call'[d] = IF d = c THEN [does |-> "join", reload |-> reload] ELSE call[d]
  BY <1>1 DEF Begin, Become, GInv, GoTypeOK
<1>4. \A d \in Clients : call[d].does # "join"
  BY <1>2, GoConstantsOK DEF LInv
<1>5. \A d \in Clients : call'[d].does = "join" <=> lifecycle' = d
  BY <1>2, <1>3, <1>4
<1>. QED BY <1>2, <1>5 DEF LInv, RestartHeard, Alive

\* A restart that has waited installs the settings with the checker they ask for.
LEMMA RestartLInv == ASSUME GInv, LInv, NEW c \in Clients, Restart(c) PROVE LInv'
<1>1. /\ call[c].does = "join" /\ lifecycle = c /\ lifecycle' = None /\ cancelled' = FALSE
      /\ active' = Effective /\ phase' = "stopped"
      /\ pc' = IF Runs(Effective) THEN "spawned" ELSE "dead"
      /\ UNCHANGED <<configured, override>>
  BY DEF Restart, LInv
<1>2. \A d \in Clients : call'[d].does # "join"
  <2>1. \A d \in Clients : d # c => call[d].does # "join"
    BY <1>1 DEF LInv
  <2>2. \A d \in Clients : call'[d] = IF d = c THEN Idle ELSE call[d]
    BY DEF Restart, Become, GInv, GoTypeOK
  <2>. QED BY <2>1, <2>2 DEF Idle
<1>3. \A d \in Clients : lifecycle' # d
  BY <1>1, GoConstantsOK
<1>4. phase' = PhaseOf(pc')
  BY <1>1 DEF PhaseOf
<1>. QED BY <1>1, <1>2, <1>3, <1>4 DEF LInv, RestartHeard, Alive, Effective

\* Restarts exclude each other and leave no gap between settings, checker and phase.
THEOREM GoLifecycleInvariant == Spec => []LInv
<1>1. Init => LInv
  <2>. SUFFICES ASSUME Init PROVE LInv
    OBVIOUS
  <2>1. \A c \in Clients : call[c].does # "join" /\ lifecycle # c
    BY GoConstantsOK DEF Init, Idle
  <2>. QED BY <2>1 DEF Init, LInv, RestartHeard, Alive, Effective, PhaseOf
<1>2. GInv /\ LInv /\ [Next]_vars => LInv'
  <2>. SUFFICES ASSUME GInv, LInv, [Next]_vars PROVE LInv'
    OBVIOUS
  <2>1. CASE \E c \in Clients : Call(c)
    BY <2>1, SelectionLInv, BeginLInv, RestartLInv DEF Call
  <2>2. CASE UNCHANGED vars
    BY <2>2 DEF vars, engineVars, LInv, RestartHeard, Alive, Effective
  <2>. QED BY <2>1, <2>2, CheckerLInv DEF Next
<1>. QED BY <1>1, <1>2, GoInvariant, PTL DEF Spec

\* What Get() reports is what runs, whenever no restart is under way.
THEOREM GoServiceIsConsistent == Spec => []GoServiceConsistent
<1>1. LInv => GoServiceConsistent
  BY DEF LInv, GoServiceConsistent, Effective, Runs, PhaseOf
<1>. QED BY <1>1, GoLifecycleInvariant, PTL

\* No restart waits for a checker that was not told to end.
THEOREM GoRestartIsHeard == Spec => []RestartHeard
<1>1. LInv => RestartHeard
  BY DEF LInv
<1>. QED BY <1>1, GoLifecycleInvariant, PTL

-----------------------------------------------------------------------------
(* A cancelled checker ends *)

\* How many steps a checker takes at most that finds its context done.
StepsLeft(p) == CASE p = "dead" -> 0
                  [] p = "pick" -> 1
                  [] p \in {"observe", "set"} -> 3
                  [] p \in {"probeOrigin", "compare"} -> 4
                  [] OTHER -> 2

\* Each of its steps is one of them, and nothing else moves it.
DyingFast ==
    cancelled /\ Alive =>
        \/ CheckerStep /\ StepsLeft(pc') < StepsLeft(pc)
        \/ UNCHANGED <<pc, cancelled>>

\* The old checker ends within four of its own steps once restartLocked waits for
\* it: it looks at its context before it sleeps, probes or scans again, and a
\* change it is making is the last one.
THEOREM GoCancelIsQuick == Spec => [][DyingFast]_vars
<1>1. GInv /\ [Next]_vars => [DyingFast]_vars
  <2> SUFFICES ASSUME GInv, Next, cancelled, Alive PROVE DyingFast
    BY DEF DyingFast
  <2>1. CheckerStep => \/ pc \in {"spawned", "sleep", "probeCurrent", "scan", "cache"} /\ pc' \in {"pick", "dead"}
                       \/ pc = "pick" /\ pc' = "dead"
                       \/ pc = "probeOrigin" /\ pc' = "observe"
                       \/ pc = "observe" /\ pc' \in {"pick", "probeCurrent"}
                       \/ pc = "compare" /\ pc' \in {"set", "observe", "pick"}
                       \/ pc = "set" /\ pc' = "cache"
    <3>1. CASE Wake \/ EndRound \/ \E g \in Groups : CheckRestore(g)
      BY <3>1 DEF Wake, EndRound, CheckRestore
    <3>2. CASE ProbeOrigin \/ ProbeCurrent \/ Scan
      BY <3>2 DEF ProbeOrigin, ProbeCurrent, Scan, Return
    <3>3. CASE Observe \/ Set \/ Cache
      BY <3>3 DEF Observe, Set, Cache, Return, Go
    <3>4. CASE Compare
      BY <3>4 DEF Compare, Return, Go
    <3>. QED BY <3>1, <3>2, <3>3, <3>4 DEF CheckerStep
  <2>2. CheckerStep => StepsLeft(pc') < StepsLeft(pc)
    BY <2>1 DEF StepsLeft
  <2>3. ASSUME NEW c \in Clients, Call(c) PROVE UNCHANGED <<pc, cancelled>>
    BY <2>3 DEF Call, Install, Apply, Patch, ClearOverride, Begin, Cancels, Restart, PatchSelector,
                SetSelector, StoreSelected
  <2>. QED BY <2>2, <2>3 DEF Next, DyingFast
<1>. QED BY <1>1, GoInvariant, PTL DEF Spec
=============================================================================

----------------------------- MODULE AutoSwitch -----------------------------
(***************************************************************************)
(* Automatic node switching of the Rust core: the checker task of          *)
(* autoswitch/checker.rs, the service that starts and stops it             *)
(* (autoswitch/mod.rs), and the control API requests that run beside it    *)
(* (control.rs, engine.rs).                                                *)
(*                                                                         *)
(* Three kinds of process interleave:                                      *)
(*   - the checker: one task, or none.  Between two .await points it       *)
(*     cannot be aborted, but requests on other threads can act;           *)
(*   - Clients: control requests.  Each mutating request holds the         *)
(*     `mutations` lock from its first step to its last;                   *)
(*   - the engine, which starts the session, suspends its checker before   *)
(*     a reload and stops it, and takes only the `lifecycle` lock.         *)
(* A behaviour is the life of one session, that is of one Service: a       *)
(* reload ends it, and the next one begins with what it saved (Saved).     *)
(*                                                                         *)
(* Abstracted: delays, event texts, progress and group statuses (what GET  *)
(* reports besides the settings and the phase), the order in which a round *)
(* visits its groups (any order here), and how a scan finds the fastest    *)
(* member (any healthy member of the best tier here; module ScanPool has   *)
(* the scan itself).                                                       *)
(***************************************************************************)
EXTENDS Naturals

CONSTANTS
    Groups,      \* names of the groups a profile may list
    Nodes,       \* names of the members a group may have
    Leaves,      \* the members that are real servers (is_leaf)
    None,        \* "no node", "no lock holder", "no override"
    Clients,     \* control requests that may be in flight at once
    Profiles,    \* the normalized settings a config or a PATCH may carry
    Default,     \* the settings of a service nobody has configured yet
    MemberSets,  \* the member sets a group may get; {}: no such selector
    Weathers,    \* the reachability of nodes: functions to ProbeKinds
    RestoreSuccesses, \* consecutive healthy checks before a restore (3)
    BackoffCap,  \* longest pause between scans, in failing rounds (8)
    MaxGen,      \* bound: route tables installed in one behaviour
    WithStart    \* bound: whether behaviours begin with the start of the session

ProbeKinds == {"up", "down", "flaky"}

\* What options.rs calls Settings, after normalized(): only what the control
\* flow depends on.  `preferred` is the set of names preferred-filter matches.
Settings == [enable: BOOLEAN, restore: BOOLEAN, groups: SUBSET Groups,
             threshold: Nat \ {0}, preferred: SUBSET Nodes]

ASSUME ConstantsOK ==
    /\ None \notin Nodes \cup Clients \cup Profiles \cup {Default}
    /\ {"checker", "engine"} \cap (Clients \cup {None}) = {}
    /\ Leaves \subseteq Nodes
    /\ Profiles \subseteq Settings
    /\ Default \in Settings /\ ~Default.enable
    /\ MemberSets \subseteq SUBSET Nodes
    /\ Weathers \subseteq [Nodes -> ProbeKinds]
    /\ RestoreSuccesses \in Nat \ {0}
    /\ BackoffCap \in Nat \ {0}
    /\ MaxGen \in Nat \ {0}
    /\ WithStart \in BOOLEAN

VARIABLES
    \* the tunnel: what the data plane routes by
    gen,        \* identity of the installed route table (Arc::ptr_eq)
    members,    \* live member names of each group
    selected,   \* each group's current selection
    weather,    \* which nodes answer probes
    \* the service
    configured, override, \* Lifecycle
    settings, phase,      \* State: the active settings and the reported phase
    restores,             \* State.restores
    saved,                \* the reload_state its start has been given, until taken over
    mutations, lifecycle, \* holders of the two locks
    \* the checker task
    pc, cancelled,        \* where it is; whether it was aborted
    todo, group,          \* groups left in this round; the one being checked
    kind, from, to,       \* the selection change being attempted
    seen,                 \* the route table the current check read
    generation,           \* Checker.generation; 0: none yet
    failures,             \* Checker.failures
    candidates,           \* members a scan is probing
    \* the requests and the engine
    request, engine,
    \* history, read by no guard
    hist, streak

tunnelVars  == <<gen, members, selected>>
serviceVars == <<configured, override, settings, phase, saved>>
checkVars   == <<todo, group, kind, from, to, seen, generation, candidates>>
histVars    == <<hist, streak>>
vars == <<tunnelVars, weather, serviceVars, restores, mutations, lifecycle, pc,
          cancelled, checkVars, failures, request, engine, histVars>>

-----------------------------------------------------------------------------
(* Data *)

NodeOrNone == Nodes \cup {None}

Restore   == [origin: NodeOrNone, target: NodeOrNone, successes: 0 .. RestoreSuccesses - 1]
NoRestore == [origin |-> None, target |-> None, successes |-> 0]
Pending(g) == restores[g].origin # None

Failure   == [node: NodeOrNone, count: Nat, backoff: 0 .. BackoffCap, skip: 0 .. BackoffCap]
\* What PATCH lets through, and what a service that is suspended may save.
Patched == {s \in Profiles : s.enable => s.groups # {}}

\* Wrong: switching everything off keeps the pending restores.
KeepsIfRestore(s, g) == s.restore /\ g \in s.groups

Keeps(s, g) == s.enable /\ s.restore /\ g \in s.groups

\* Restores that settings s allow.
RestoresFor(s) ==
    {r \in [Groups -> Restore] :
        \A g \in Groups : \/ r[g] = NoRestore
                          \/ /\ Keeps(s, g) /\ r[g].origin # r[g].target
                             /\ {r[g].origin, r[g].target} \subseteq Leaves}

Saved ==
    (UNION {[override: {o}, restores: RestoresFor(o)] : o \in Patched})
    \cup (UNION {[override: {None}, restores: RestoresFor(s)] : s \in Profiles})

NewFailure(n) == [node |-> n, count |-> 0, backoff |-> 0, skip |-> 0]
NoFailure == NewFailure(None)

\* Wrong: an abort would not reach a task that waits for a lock.
AwaitPointsButLocks == {"spawned", "sleep", "probeOrigin", "probeCurrent", "scan",
                        "committed"}

\* Where the task waits for the runtime: an abort takes effect here only.
AwaitPoints == {"spawned", "sleep", "probeOrigin", "probeCurrent", "scan",
                "lock", "configLock", "committed"}

\* Where it computes: it reaches the next await point whatever happens.
RunPoints   == {"pick", "observe", "set", "remember"}
Alive       == pc # "dead"
\* select() holds the mutations lock from its first lock to its return.
InSelect    == pc \in {"configLock", "set", "committed"}

\* The session's life: start_inner() once the controllers serve its router, reload()
\* and stop().
Starting     == {"serving", "seeding", "seeded", "applying"}
EngineStages == Starting \cup {"up", "suspending", "suspended", "stopping", "stopped", "down"}
\* Restores it has taken over wait for the end of the first apply().
TakingOver   == {"seeded", "applying"}
\* The engine holds the lifecycle lock and waits for the end of the task.
Joining      == {"applying", "suspending", "stopping"}

RequestStages == {"idle", "select", "patch", "put", "rebuild", "apply", "abort", "join"}

\* history of a group: home is the node a restore should bring back, touched
\* says the selection was changed by someone else since the pending restore was
\* made, fresh that a manual choice came after the checker last read the group,
\* lost that a pending restore vanished although the selection stood still.
Hist   == [home: NodeOrNone, touched: BOOLEAN, fresh: BOOLEAN, lost: BOOLEAN]
\* history of failing checks: consecutive failed checks of node, consecutive
\* scans that found nothing (2: or more), failing rounds without a scan since the
\* last of them, and how many such rounds the scan before had after it.
Streak == [node: NodeOrNone, fails: Nat, scans: 0 .. 2, quiet: Nat, last: Nat]
NoStreak == [node |-> None, fails |-> 0, scans |-> 0, quiet |-> 0, last |-> 0]

TypeOK ==
    /\ gen \in 1 .. MaxGen
    /\ members \in [Groups -> SUBSET Nodes]
    /\ selected \in [Groups -> NodeOrNone]
    /\ weather \in Weathers
    /\ configured \in Profiles \cup {Default}
    /\ override \in Profiles \cup {None}
    /\ settings \in Profiles \cup {Default}
    /\ phase \in {"stopped", "checking", "waiting"}
    /\ restores \in [Groups -> Restore]
    /\ saved \in Saved \cup {None}
    /\ mutations \in Clients \cup {None, "checker"}
    /\ lifecycle \in Clients \cup {None, "engine"}
    /\ pc \in AwaitPoints \cup RunPoints \cup {"dead"}
    /\ cancelled \in BOOLEAN
    /\ todo \in SUBSET Groups
    /\ group \in Groups
    /\ kind \in {"switch", "restore"}
    /\ from \in NodeOrNone /\ to \in NodeOrNone
    /\ seen \in 0 .. MaxGen
    /\ generation \in 0 .. MaxGen
    /\ failures \in [Groups -> Failure]
    /\ candidates \in SUBSET Nodes
    /\ request \in [Clients -> RequestStages]
    /\ engine \in EngineStages
    /\ hist \in [Groups -> Hist]
    /\ streak \in [Groups -> Streak]

\* Wrong: requests and the checker do not exclude each other.
MutationsIgnored == TRUE

\* An AsyncMutex is granted only while nobody holds it.
MutationsFree == mutations = None

-----------------------------------------------------------------------------
(* Selection changes made by others than the checker *)

Leaf(g) == members[g] \cap Leaves

\* What current() may answer once group members are m: a selection that is
\* still a member stays, otherwise the group falls back to some member.
Settled(m) ==
    {s \in [Groups -> NodeOrNone] :
        \A g \in Groups : IF m[g] = {} THEN s[g] = None
                          ELSE IF selected[g] \in m[g] THEN s[g] = selected[g]
                          ELSE s[g] \in m[g]}

AtHome(n) == [home |-> n, touched |-> FALSE, fresh |-> FALSE, lost |-> FALSE]

\* history: groups whose selection becomes another one have a new home.
MovedByOthers(s, manual) ==
    hist' = [g \in Groups |->
                IF s[g] = selected[g] THEN hist[g]
                ELSE [home |-> s[g], touched |-> TRUE, fresh |-> manual, lost |-> FALSE]]

InstallRoutes ==
    /\ gen < MaxGen
    /\ gen' = gen + 1
    /\ members' \in [Groups -> MemberSets]
    /\ selected' \in Settled(members')
    /\ MovedByOthers(selected', FALSE)

\* A provider refresh replaces the live members of a group of the installed
\* table.  It takes neither lock, and never turns a selector into no selector.
ProviderRefresh(g) ==
    /\ engine # "down" /\ members[g] # {}
    /\ \E m \in MemberSets \ {{}} : members' = [members EXCEPT ![g] = m]
    /\ selected' \in Settled(members')
    /\ MovedByOthers(selected', FALSE)
    /\ UNCHANGED <<gen, weather, serviceVars, restores, mutations, lifecycle, pc,
                   cancelled, checkVars, failures, request, engine, streak>>

ChangeWeather ==
    /\ engine # "down"
    /\ weather' \in Weathers \ {weather}
    /\ UNCHANGED <<tunnelVars, serviceVars, restores, mutations, lifecycle, pc,
                   cancelled, checkVars, failures, request, engine, histVars>>

-----------------------------------------------------------------------------
(* The checker: one round *)

Healthy(n) == IF weather[n] = "flaky" THEN BOOLEAN ELSE {weather[n] = "up"}

LowerOf(a, b)  == IF a < b THEN a ELSE b
HigherOf(a, b) == IF a < b THEN b ELSE a

\* The task goes on with p, holding no node of the check it leaves.
LeaveCheck(p) ==
    /\ pc' = p
    /\ from' = None /\ to' = None /\ kind' = "switch" /\ seen' = 0 /\ candidates' = {}

\* run() after a sleep, and round() up to its loop.
StartRound ==
    /\ pc \in {"spawned", "sleep"} /\ ~cancelled
    /\ pc' = "pick"
    /\ phase' = "checking"
    /\ generation' = gen
    /\ todo' = settings.groups
    /\ IF generation \notin {0, gen}
       THEN /\ failures' = [g \in Groups |-> NoFailure]
            /\ streak' = [g \in Groups |-> NoStreak]
       ELSE UNCHANGED <<failures, streak>>
    /\ UNCHANGED <<tunnelVars, weather, configured, override, settings, saved, restores,
                   mutations, lifecycle, cancelled, group, kind, from, to, seen,
                   candidates, request, engine, hist>>

EndRound ==
    /\ pc = "pick" /\ todo = {}
    /\ pc' = "sleep"
    /\ phase' = "waiting"
    /\ UNCHANGED <<tunnelVars, weather, configured, override, settings, saved, restores,
                   mutations, lifecycle, cancelled, checkVars, failures, request,
                   engine, histVars>>

\* check_restore up to its probe: drop a restore whose group was changed by
\* someone else or whose origin is gone, probe the origin of any other.
CheckRestore(g) ==
    /\ pc = "pick" /\ g \in todo
    /\ todo' = todo \ {g} /\ group' = g
    /\ \/ /\ ~Pending(g)
          /\ pc' = "observe"
          /\ hist' = IF hist[g].lost THEN [hist EXCEPT ![g] = AtHome(selected[g])] ELSE hist
          /\ UNCHANGED <<restores, kind, from, to, seen>>
       \/ /\ Pending(g)
          /\ ~(selected[g] = restores[g].target /\ restores[g].origin \in Leaf(g))
          /\ restores' = [restores EXCEPT ![g] = NoRestore]
          /\ pc' = "observe"
          /\ hist' = [hist EXCEPT ![g] = AtHome(selected[g])]
          /\ UNCHANGED <<kind, from, to, seen>>
       \/ /\ Pending(g)
          /\ selected[g] = restores[g].target /\ restores[g].origin \in Leaf(g)
          /\ pc' = "probeOrigin"
          /\ kind' = "restore" /\ from' = restores[g].target /\ to' = restores[g].origin
          /\ seen' = gen
          /\ hist' = [hist EXCEPT ![g].fresh = FALSE]
          /\ UNCHANGED restores
    /\ UNCHANGED <<tunnelVars, weather, serviceVars, mutations, lifecycle, cancelled,
                   generation, failures, candidates, request, engine, streak>>

\* Wrong: the count is taken from the record but never advanced.
SuccessesKept(r, ok) == IF ok THEN r.successes ELSE 0

\* Consecutive healthy checks of the origin, given the last result.
Successes(r, ok) == IF ok THEN r.successes + 1 ELSE 0

\* The restore as the check has read it, of which it keeps a copy.  The engine may have
\* put another in its place since (SeedRestores); the count of the copy is any, then.
Checked(g) ==
    IF engine \notin TakingOver THEN {restores[g]}
    ELSE {[origin |-> to, target |-> from, successes |-> n] : n \in 0 .. RestoreSuccesses - 1}

RestoreDue(n) == n >= RestoreSuccesses

\* check_restore after its probe.  The last success takes the restore out of
\* the state before select() waits for its locks.
ProbeOrigin ==
    /\ pc = "probeOrigin" /\ ~cancelled
    /\ \E ok \in Healthy(to), r \in Checked(group) :
         LET n == Successes(r, ok) IN
         IF ~RestoreDue(n)
         THEN /\ restores' = [restores EXCEPT ![group] = [r EXCEPT !.successes = n]]
              /\ LeaveCheck("observe")
         ELSE /\ restores' = [restores EXCEPT ![group] = NoRestore]
              /\ pc' = "lock"
              /\ UNCHANGED <<kind, from, to, seen, candidates>>
    /\ UNCHANGED <<tunnelVars, weather, serviceVars, mutations, lifecycle, cancelled,
                   todo, group, generation, failures, request, engine, histVars>>

\* check_group up to its probe: no selector, no leaf selected, or new traffic
\* through the selection (possible unless the node is down) end the check;
\* otherwise the selection is probed.
Observe ==
    /\ pc = "observe"
    /\ hist' = [hist EXCEPT ![group].fresh = FALSE]
    /\ \/ /\ ~(selected[group] \in Leaf(group) /\ weather[selected[group]] = "down")
          /\ failures' = [failures EXCEPT ![group] = NoFailure]
          /\ streak' = [streak EXCEPT ![group] = NoStreak]
          /\ LeaveCheck("pick")
       \/ /\ selected[group] \in Leaf(group)
          /\ pc' = "probeCurrent"
          /\ kind' = "switch" /\ from' = selected[group] /\ seen' = gen
          /\ UNCHANGED <<to, candidates, failures, streak>>
    /\ UNCHANGED <<tunnelVars, weather, serviceVars, restores, mutations, lifecycle,
                   cancelled, todo, group, generation, request, engine>>

\* Wrong: failures of the node selected before count for this one.
FailureOfGroup(g, n) == [failures[g] EXCEPT !.node = n]

\* The failure record a failing check continues.
FailureOf(g, n) == IF failures[g].node = n THEN failures[g] ELSE NewFailure(n)

Counted(f) == IF f.count < settings.threshold THEN [f EXCEPT !.count = @ + 1] ELSE f

\* Wrong: once a scan found nothing there is no other.
WaitForever(f) == f.count < settings.threshold \/ f.backoff > 0

MustWait(f) == f.count < settings.threshold \/ f.skip > 0

Waited(f) == [f EXCEPT !.skip = IF @ > 0 THEN @ - 1 ELSE 0]

\* history: one more failing check of n; `waits` when no scan follows it.
Failing(g, n, waits) ==
    LET s == IF streak[g].node = n THEN streak[g] ELSE [NoStreak EXCEPT !.node = n] IN
    [s EXCEPT !.fails = LowerOf(@ + 1, settings.threshold),
              !.quiet = IF waits /\ s.scans > 0 THEN LowerOf(@ + 1, BackoffCap + 1) ELSE @]

\* The members replacement() will probe: those of the group the check read.
Scannable(g, n) ==
    LET m == IF seen = gen THEN {members[g]} ELSE MemberSets IN
    {(x \cap Leaves) \ {n} : x \in m}

\* check_group from the probe of the selection to the scan.
ProbeCurrent ==
    /\ pc = "probeCurrent" /\ ~cancelled
    /\ \/ /\ TRUE \in Healthy(from)
          /\ failures' = [failures EXCEPT ![group] = NoFailure]
          /\ streak' = [streak EXCEPT ![group] = NoStreak]
          /\ LeaveCheck("pick")
       \/ /\ FALSE \in Healthy(from)
          /\ LET f == Counted(FailureOf(group, from)) IN
             /\ streak' = [streak EXCEPT ![group] = Failing(group, from, MustWait(f))]
             /\ IF MustWait(f)
                THEN /\ failures' = [failures EXCEPT ![group] = Waited(f)]
                     /\ LeaveCheck("pick")
                ELSE /\ failures' = [failures EXCEPT ![group] = f]
                     /\ pc' = "scan"
                     /\ candidates' \in Scannable(group, from)
                     /\ UNCHANGED <<kind, from, to, seen>>
    /\ UNCHANGED <<tunnelVars, weather, serviceVars, restores, mutations, lifecycle,
                   cancelled, todo, group, generation, request, engine, hist>>

\* What a scan may find: a healthy member, a preferred one if there is one.
Found(good) == IF good \cap settings.preferred # {} THEN good \cap settings.preferred ELSE good

\* Wrong: doubles from zero.
DoubledBackoff(b) == LowerOf(2 * b, BackoffCap)

NextBackoff(b) == LowerOf(HigherOf(2 * b, 1), BackoffCap)

BackedOff(f) ==
    [f EXCEPT !.backoff = NextBackoff(f.backoff), !.skip = NextBackoff(f.backoff)]

\* history: one more scan found nothing.
FoundNothing(s) == [s EXCEPT !.scans = LowerOf(@ + 1, 2), !.quiet = 0, !.last = s.quiet]

\* The end of replacement().
Scan ==
    /\ pc = "scan" /\ ~cancelled
    /\ \E good \in SUBSET candidates :
         /\ \A n \in candidates : (n \in good) \in Healthy(n)
         /\ IF good = {}
            THEN /\ failures' = [failures EXCEPT ![group] = BackedOff(failures[group])]
                 /\ streak' = [streak EXCEPT ![group] = FoundNothing(streak[group])]
                 /\ LeaveCheck("pick")
            ELSE /\ failures' = [failures EXCEPT ![group] = NoFailure]
                 /\ streak' = [streak EXCEPT ![group] = NoStreak]
                 /\ to' \in Found(good)
                 /\ pc' = "lock" /\ candidates' = {}
                 /\ UNCHANGED <<kind, from, seen>>
    /\ UNCHANGED <<tunnelVars, weather, serviceVars, restores, mutations, lifecycle,
                   cancelled, todo, group, generation, request, engine, hist>>

-----------------------------------------------------------------------------
(* The checker: select() and what follows it *)

Lock ==
    /\ pc = "lock" /\ ~cancelled
    /\ MutationsFree
    /\ mutations' = "checker" /\ pc' = "configLock"
    /\ UNCHANGED <<tunnelVars, weather, serviceVars, restores, lifecycle, cancelled,
                   checkVars, failures, request, engine, histVars>>

\* select() gave up: check_group ends, check_restore hands over to it.
GiveUp ==
    /\ mutations' = None
    /\ LeaveCheck(IF kind = "switch" THEN "pick" ELSE "observe")
    /\ hist' = IF kind = "restore" /\ selected[group] = from
               THEN [hist EXCEPT ![group].lost = TRUE] ELSE hist

\* Wrong: a selection made meanwhile is overwritten.
SameTable(g) == members[g] # {} /\ gen = seen

\* Wrong: the table may be another than the one that was probed.
SameSelection(g) == members[g] # {} /\ selected[g] = from

\* select() compares the group object; the gen of its table stands for it here, since
\* a new table is built with new groups.
Unchanged(g) == members[g] # {} /\ gen = seen /\ selected[g] = from

Compare ==
    /\ pc = "configLock" /\ ~cancelled
    /\ \/ /\ Unchanged(group)
          /\ pc' = "set"
          /\ UNCHANGED <<mutations, kind, from, to, seen, candidates, hist>>
       \/ /\ ~Unchanged(group)
          /\ GiveUp
    /\ UNCHANGED <<tunnelVars, weather, serviceVars, restores, lifecycle, cancelled,
                   todo, group, generation, failures, request, engine, streak>>

\* history: an automatic switch keeps the home, or leaves it.  Only a switch
\* from a selection someone else made, for which no restore is pending, makes
\* that selection a new home.  Without `restore` the new node is the home.
Switched(h) ==
    IF ~settings.restore THEN AtHome(to)
    ELSE IF h.touched /\ restores[group].target # from
         THEN [h EXCEPT !.home = from, !.touched = FALSE, !.fresh = FALSE]
         ELSE [h EXCEPT !.fresh = FALSE]

Set ==
    /\ pc = "set"
    /\ \/ /\ to \in members[group]
          /\ selected' = [selected EXCEPT ![group] = to]
          /\ pc' = "committed"
          /\ hist' = [hist EXCEPT ![group] = IF kind = "switch" THEN Switched(@) ELSE AtHome(to)]
          /\ UNCHANGED <<mutations, kind, from, to, seen, candidates>>
       \/ /\ to \notin members[group]
          /\ GiveUp
          /\ UNCHANGED selected
    /\ UNCHANGED <<gen, members, weather, serviceVars, restores, lifecycle, cancelled,
                   todo, group, generation, failures, request, engine, streak>>

\* select() closes the connections through the group and returns.
Return ==
    /\ pc = "committed" /\ ~cancelled
    /\ mutations' = None /\ pc' = "remember"
    /\ UNCHANGED <<tunnelVars, weather, serviceVars, restores, lifecycle, cancelled,
                   checkVars, failures, request, engine, histVars>>

\* Wrong: every switch makes the node it leaves the origin.
RememberLast(g) ==
    IF ~settings.restore THEN restores
    ELSE [restores EXCEPT ![g] = [origin |-> from, target |-> to, successes |-> 0]]

\* Wrong: a second switch keeps the record of the first as it is.
RememberFirst(g) ==
    IF ~settings.restore \/ restores[g].target = from THEN restores
    ELSE [restores EXCEPT ![g] = [origin |-> from, target |-> to, successes |-> 0]]

\* remember_origin
RememberOrigin(g) ==
    LET origin == IF restores[g].target = from THEN restores[g].origin ELSE from IN
    IF ~settings.restore THEN restores
    ELSE [restores EXCEPT ![g] = IF origin = to THEN NoRestore
                                 ELSE [origin |-> origin, target |-> to, successes |-> 0]]

Remember ==
    /\ pc = "remember"
    /\ \/ /\ kind = "switch"
          /\ restores' = RememberOrigin(group)
          /\ UNCHANGED <<failures, streak>>
       \/ /\ kind = "restore"
          /\ failures' = [failures EXCEPT ![group] = NoFailure]
          /\ streak' = [streak EXCEPT ![group] = NoStreak]
          /\ UNCHANGED restores
    /\ LeaveCheck("pick")
    /\ UNCHANGED <<tunnelVars, weather, serviceVars, mutations, lifecycle, cancelled,
                   todo, group, generation, request, engine, hist>>

\* history: what an abort cuts short.  A restore that select() had not made,
\* and a switch not yet remembered, leave the group away from home for good.
CutShort ==
    \/ kind = "restore" /\ pc \in {"lock", "configLock"} /\ selected[group] = from
    \/ kind = "switch" /\ pc = "committed" /\ selected[group] # hist[group].home

\* An aborted task ends at an await point and drops what it holds.
Die ==
    /\ cancelled /\ pc \in AwaitPoints
    /\ LeaveCheck("dead")
    /\ cancelled' = FALSE
    /\ mutations' = IF mutations = "checker" THEN None ELSE mutations
    /\ todo' = {} /\ generation' = 0
    /\ failures' = [g \in Groups |-> NoFailure]
    /\ streak' = [g \in Groups |-> NoStreak]
    /\ hist' = IF CutShort THEN [hist EXCEPT ![group].lost = TRUE] ELSE hist
    /\ UNCHANGED <<tunnelVars, weather, serviceVars, restores, lifecycle, group,
                   request, engine>>

-----------------------------------------------------------------------------
(* Control requests: extend() holds `mutations` around all of them *)

\* Every path out of a request drops the locks it holds.
Done(c) ==
    /\ request' = [request EXCEPT ![c] = "idle"]
    /\ mutations' = None

checkerVars == <<pc, checkVars, failures, streak>>

Begin(c) ==
    /\ request[c] = "idle" /\ MutationsFree /\ engine # "down"
    /\ mutations' = c
    /\ \E what \in {"select", "patch", "put", "rebuild"} :
         request' = [request EXCEPT ![c] = what]
    /\ UNCHANGED <<tunnelVars, weather, serviceVars, restores, lifecycle, checkerVars,
                   cancelled, engine, hist>>

\* An error response: unknown node, invalid settings, a config that does not
\* parse or needs a restart.  Nothing was changed.
Reject(c) ==
    /\ request[c] \in {"select", "patch", "put", "rebuild"}
    /\ Done(c)
    /\ UNCHANGED <<tunnelVars, weather, serviceVars, restores, lifecycle, checkerVars,
                   cancelled, engine, hist>>

\* PUT /proxies/{group}.  Choosing the node already selected is no change.
ManualSelect(c) ==
    /\ request[c] = "select"
    /\ \E g \in Groups : \E n \in members[g] :
         /\ selected' = [selected EXCEPT ![g] = n]
         /\ IF n = selected[g] THEN hist' = [hist EXCEPT ![g].fresh = TRUE]
            ELSE MovedByOthers(selected', TRUE)
    /\ Done(c)
    /\ UNCHANGED <<gen, members, weather, serviceVars, restores, lifecycle, checkerVars,
                   cancelled, engine>>

\* Any other handler that installs a route table without apply().
Rebuild(c) ==
    /\ request[c] = "rebuild"
    /\ InstallRoutes
    /\ Done(c)
    /\ UNCHANGED <<weather, serviceVars, restores, lifecycle, checkerVars, cancelled,
                   engine>>

\* PUT /configs: the handler installs the new routes, then apply() follows.
PutConfig(c) ==
    /\ request[c] = "put"
    /\ InstallRoutes
    /\ request' = [request EXCEPT ![c] = "apply"]
    /\ UNCHANGED <<weather, serviceVars, restores, mutations, lifecycle, checkerVars,
                   cancelled, engine>>

\* apply(): store the configured settings, then restart.
Apply(c) ==
    /\ request[c] = "apply" /\ lifecycle = None
    /\ configured' \in Profiles
    /\ lifecycle' = c
    /\ request' = [request EXCEPT ![c] = "abort"]
    /\ UNCHANGED <<tunnelVars, weather, override, settings, phase, saved, restores, mutations,
                   checkerVars, cancelled, engine, hist>>

\* patch(): validated settings become the override, then restart.
Patch(c) ==
    /\ request[c] = "patch" /\ lifecycle = None
    /\ override' \in Patched
    /\ lifecycle' = c
    /\ request' = [request EXCEPT ![c] = "abort"]
    /\ UNCHANGED <<tunnelVars, weather, configured, settings, phase, saved, restores, mutations,
                   checkerVars, cancelled, engine, hist>>

\* restart() aborts the task, if there is one ...
Abort(c) ==
    /\ request[c] = "abort"
    /\ cancelled' = Alive
    /\ request' = [request EXCEPT ![c] = "join"]
    /\ UNCHANGED <<tunnelVars, weather, serviceVars, restores, mutations, lifecycle,
                   checkerVars, engine, hist>>

\* Wrong: a reload puts the configured settings over the PATCHed ones.
ConfiguredOnly == configured

Effective == IF override = None THEN configured ELSE override

Runs(s) == s.enable /\ s.groups # {}

\* ... waits until it has ended, and installs the effective settings.
Restarted ==
    /\ ~Alive
    /\ settings' = Effective
    /\ phase' = "stopped"
    /\ restores' = [g \in Groups |-> IF Keeps(Effective, g) THEN restores[g] ELSE NoRestore]
    /\ pc' = IF Runs(Effective) THEN "spawned" ELSE "dead"
    /\ lifecycle' = None
    /\ UNCHANGED <<tunnelVars, weather, configured, override, saved, checkVars, failures,
                   streak, cancelled>>

Restart(c) ==
    /\ request[c] = "join"
    /\ Restarted
    /\ Done(c)
    /\ hist' = [g \in Groups |-> IF Keeps(Effective, g) THEN hist[g] ELSE AtHome(selected[g])]
    /\ UNCHANGED engine

Request(c) ==
    \/ Begin(c) \/ Reject(c) \/ ManualSelect(c) \/ Rebuild(c) \/ PutConfig(c)
    \/ Apply(c) \/ Patch(c) \/ Abort(c) \/ Restart(c)

-----------------------------------------------------------------------------
(* The engine: no `mutations` lock, and requests come from before the first  *)
(* apply() until the runtime is dropped                                     *)

\* restore_reload_state(): the override, under a lock it gives back at once ...
SeedOverride ==
    /\ engine = "serving" /\ saved # None /\ lifecycle = None
    /\ override' = saved.override
    /\ engine' = "seeding"
    /\ UNCHANGED <<tunnelVars, weather, configured, settings, phase, saved, restores, mutations,
                   lifecycle, checkerVars, cancelled, request, hist>>

\* ... and the restores.
SeedRestores ==
    /\ engine = "seeding" /\ saved # None
    /\ restores' = saved.restores /\ saved' = None
    /\ engine' = "seeded"
    /\ UNCHANGED <<tunnelVars, weather, configured, override, settings, phase, mutations,
                   lifecycle, checkerVars, cancelled, request, hist>>

\* apply() of the profile, which aborts a task that a PATCH has started already.
ApplyFirst ==
    /\ engine = "seeded" \/ (engine = "serving" /\ saved = None)
    /\ lifecycle = None /\ lifecycle' = "engine"
    /\ configured' \in Profiles
    /\ cancelled' = Alive
    /\ engine' = "applying"
    /\ UNCHANGED <<tunnelVars, weather, override, settings, phase, saved, restores, mutations,
                   checkerVars, request, hist>>

\* history: the session begins with restores r and nobody's selections but these.
Begun(r) ==
    [g \in Groups |-> IF r[g].origin = None THEN AtHome(selected[g])
                      ELSE [AtHome(r[g].origin) EXCEPT !.touched = selected[g] # r[g].target]]

AppliedFirst ==
    /\ engine = "applying"
    /\ Restarted
    /\ engine' = "up"
    /\ hist' = Begun(restores')
    /\ UNCHANGED <<mutations, request>>

\* suspend_for_reload(): it ends the task, and tells nobody but its caller.
SuspendBegin ==
    /\ engine = "up" /\ lifecycle = None
    /\ engine' = "suspending" /\ lifecycle' = "engine"
    /\ cancelled' = Alive
    /\ UNCHANGED <<tunnelVars, weather, serviceVars, restores, mutations, checkerVars,
                   request, hist>>

\* What the next session saves of this one is [override, restores] here.
SuspendEnd ==
    /\ engine = "suspending" /\ ~Alive
    /\ engine' = "suspended" /\ lifecycle' = None
    /\ UNCHANGED <<tunnelVars, weather, serviceVars, restores, mutations, checkerVars,
                   cancelled, request, hist>>

\* stop(), also of a session that is to be loaded anew.
StopBegin ==
    /\ engine \in {"up", "suspended"} /\ lifecycle = None
    /\ engine' = "stopping" /\ lifecycle' = "engine"
    /\ cancelled' = Alive
    /\ UNCHANGED <<tunnelVars, weather, serviceVars, restores, mutations, checkerVars,
                   request, hist>>

StopEnd ==
    /\ engine = "stopping" /\ ~Alive
    /\ engine' = "stopped" /\ lifecycle' = None
    /\ phase' = "stopped"
    /\ UNCHANGED <<tunnelVars, weather, configured, override, settings, saved, restores,
                   mutations, checkerVars, cancelled, request, hist>>

\* drop_runtime() ends every task of the session: the requests that lingered,
\* and the checker one of them may have started since.  A start ends here too
\* when the second controller cannot be bound.
DropRuntime ==
    /\ engine \in {"serving", "stopped"} /\ pc \in AwaitPoints \cup {"dead"}
    /\ engine' = "down"
    /\ LeaveCheck("dead")
    /\ cancelled' = FALSE /\ mutations' = None /\ lifecycle' = None
    /\ todo' = {} /\ generation' = 0
    /\ failures' = [g \in Groups |-> NoFailure]
    /\ streak' = [g \in Groups |-> NoStreak]
    /\ hist' = IF CutShort THEN [hist EXCEPT ![group].lost = TRUE] ELSE hist
    /\ request' = [c \in Clients |-> "idle"]
    /\ UNCHANGED <<tunnelVars, weather, serviceVars, restores, group>>

Ended == engine = "down" /\ UNCHANGED vars

-----------------------------------------------------------------------------

\* A session whose controllers have just begun to serve: nothing is configured yet.
Serving ==
    /\ engine = "serving"
    /\ configured = Default /\ override = None /\ settings = Default
    /\ saved \in Saved \cup {None}
    /\ restores = [g \in Groups |-> NoRestore]

\* A session whose start has gone through undisturbed.
Started ==
    /\ engine = "up"
    /\ saved = None
    /\ \E begun \in Saved \cup {[override |-> None, restores |-> [g \in Groups |-> NoRestore]]} :
         /\ configured \in Profiles /\ override = begun.override
         /\ settings = Effective
         /\ restores = [g \in Groups |-> IF Keeps(settings, g) THEN begun.restores[g] ELSE NoRestore]

Init ==
    /\ gen = 1
    /\ members \in [Groups -> MemberSets]
    /\ selected \in [Groups -> NodeOrNone]
    /\ \A g \in Groups : IF members[g] = {} THEN selected[g] = None
                         ELSE selected[g] \in members[g]
    /\ weather \in Weathers
    /\ IF WithStart THEN Serving ELSE Started
    /\ phase = "stopped"
    /\ mutations = None /\ lifecycle = None
    /\ pc = IF Runs(settings) THEN "spawned" ELSE "dead"
    /\ cancelled = FALSE
    /\ todo = {} /\ group \in Groups
    /\ kind = "switch" /\ from = None /\ to = None
    /\ seen = 0 /\ generation = 0
    /\ failures = [g \in Groups |-> NoFailure]
    /\ candidates = {}
    /\ request = [c \in Clients |-> "idle"]
    /\ hist = Begun(restores)
    /\ streak = [g \in Groups |-> NoStreak]

CheckerStep ==
    \/ StartRound \/ EndRound \/ (\E g \in Groups : CheckRestore(g))
    \/ ProbeOrigin \/ Observe \/ ProbeCurrent \/ Scan
    \/ Lock \/ Compare \/ Set \/ Return \/ Remember \/ Die

Environment ==
    \/ \E g \in Groups : ProviderRefresh(g)
    \/ ChangeWeather

\* What the engine has begun and goes on with.
EngineStep == SeedOverride \/ SeedRestores \/ ApplyFirst \/ AppliedFirst \/ SuspendEnd \/ StopEnd

Next ==
    \/ CheckerStep
    \/ \E c \in Clients : Request(c)
    \/ EngineStep \/ SuspendBegin \/ StopBegin \/ DropRuntime \/ Ended
    \/ Environment

Spec == Init /\ [][Next]_vars

\* The runtime polls the checker and every begun request until they wait, a
\* probe ends within its timeout, a sleep within its interval.  Requests need
\* not begin, the engine need not stop, the environment need not change.
FairSpec ==
    /\ Spec
    /\ WF_vars(CheckerStep)
    /\ \A c \in Clients : WF_vars(Request(c) /\ request[c] # "idle")
    /\ WF_vars(EngineStep)

-----------------------------------------------------------------------------
(* Safety *)

\* Who holds the mutations lock: the checker exactly inside select(), a request
\* from its first step to its last, and never two of them (the comment on
\* Service.mutations in autoswitch/mod.rs).
LockInv ==
    /\ InSelect <=> mutations = "checker"
    /\ \A c \in Clients : request[c] # "idle" <=> mutations = c

\* While no restart, suspension or stop is under way, what GET reports is what runs:
\* there is a checker iff the active settings ask for one (while the engine is
\* up), they are the ones in effect (once the first apply() has returned), and the
\* phase is that of the task.  From the end of suspend_for_reload() to the stop of
\* the session GET reports the phase of the task it ended, unless a PATCH has
\* started another.
ServiceConsistent ==
    lifecycle = None /\ engine # "down" =>
        /\ Alive => settings.enable /\ settings.groups # {}
        /\ ~Alive /\ engine = "up" => ~(settings.enable /\ settings.groups # {})
        /\ override # None /\ engine \notin Starting => settings = override
        /\ Alive \/ engine # "suspended" =>
           phase = CASE pc \in {"dead", "spawned"} -> "stopped"
                     [] pc = "sleep" -> "waiting"
                     [] OTHER -> "checking"

\* A pending restore leads back from another leaf, and exists only for a group
\* for which the settings in effect ask for restores: a disabled or unlisted
\* group is never switched back, however the switch-off raced a round.  Those
\* that a session takes over are settled by its first apply().
RestoresAllowed ==
    \A g \in Groups : Pending(g) =>
        /\ engine \notin TakingOver =>
              settings.enable /\ settings.restore /\ g \in settings.groups
        /\ restores[g].origin # restores[g].target
        /\ {restores[g].origin, restores[g].target} \subseteq Leaves

\* The checker is between its decision to change g and the end of that change.
MidChange(g) == group = g /\ pc \in {"lock", "configLock", "set", "committed", "remember"}

\* After any chain of automatic switches the pending restore leads back to the
\* node the group held before the first of them (the comment on rememberOrigin),
\* as long as nobody else changed the selection in between.  A session that a
\* reload started goes on with the origins it has taken over.
OriginIsHome ==
    \A g \in Groups : engine \notin TakingOver /\ Pending(g)
                      /\ ~hist[g].touched /\ ~hist[g].lost /\ ~MidChange(g)
        => restores[g].origin = hist[g].home

AwayFromHome(g) == selected[g] # hist[g].home /\ ~hist[g].touched

\* With restores enabled, a group that automatic switches moved away from home
\* has a pending restore for the node it now holds, unless an abort or a new
\* route table cut a restore or switch short.
SwitchesRemembered ==
    \A g \in Groups :
        engine \notin TakingOver /\ Keeps(settings, g)
            /\ AwayFromHome(g) /\ ~hist[g].lost /\ ~MidChange(g)
        => Pending(g) /\ restores[g].target = selected[g]

Processes == Clients \cup {"checker", "engine"}

\* p cannot go on before q does: a request waits for the holder of a lock it needs
\* next, restart(), suspend_for_reload() and stop() for the end of the task, the task
\* for the lock that select() takes first, unless it is aborted there.
WaitsFor(p, q) ==
    \/ p \in Clients /\ request[p] = "idle" /\ mutations = q
    \/ p \in Clients /\ request[p] \in {"apply", "patch"} /\ lifecycle = q
    \/ p \in Clients /\ request[p] = "join" /\ Alive /\ q = "checker"
    \/ p = "engine" /\ engine \in {"serving", "seeded", "up", "suspended"} /\ lifecycle = q
    \/ p = "engine" /\ engine \in Joining /\ Alive /\ q = "checker"
    \/ p = "checker" /\ pc = "lock" /\ mutations = q /\ ~(cancelled /\ pc \in AwaitPoints)

\* Nobody waits for himself, be it through others: restart() holds both locks while
\* it waits for a task that may wait for one of them.  (A request in flight holds
\* `mutations`, so that no cycle has more than the three.)
NoWaitCycle ==
    \A p, q, r \in Processes : WaitsFor(p, q) /\ WaitsFor(q, r) => r # p /\ ~WaitsFor(r, p)

-----------------------------------------------------------------------------
(* What a step may never do *)

Commits == pc = "set" /\ pc' = "committed"

\* A manual choice made after the checker read the group wins: the automatic
\* change goes through only if that choice is the very node it meant to leave.
ManualWins == [][Commits /\ hist[group].fresh => selected[group] = from]_vars

\* A selection is changed only in the route table whose nodes were probed.
NoStaleTable == [][Commits => gen = seen /\ to \in members[group] /\ to \in Leaves]_vars

StartsScan == pc = "probeCurrent" /\ pc' = "scan"

\* No scan, hence no switch, before failure-threshold consecutive checks found
\* this very node failing, in one checker's life and one route table.
ThresholdHeld ==
    [][StartsScan => /\ streak'[group].node = from
                     /\ streak'[group].fails >= settings.threshold]_vars

\* Failing rounds owed after an empty scan: one after the first, after any other
\* twice as many as before it, up to the cap: 1, 2, 4, then 8.
Owed(s) == IF s.scans = 1 THEN 1 ELSE LowerOf(2 * s.last, BackoffCap)

\* Empty scans of one failing node are spaced by exactly that many rounds, as
\* long as no probe of it succeeds and no restore moves the group away from it.
ScanPacing ==
    [][StartsScan => \/ streak'[group].scans = 0
                     \/ streak'[group].quiet = Owed(streak'[group])]_vars

-----------------------------------------------------------------------------
(* Statements of the documentation that the code does not keep *)

\* rust/README.md: "Reloads preserve pending restores"; go/README.md: "Pending
\* restores survive hot reloads while `restore` stays enabled".  A reload (a
\* restart without an override) that ends with restores still enabled leaves a
\* pending restore for every group automatic switches had moved from home.
PendingRestoreSurvives ==
    [][\A c \in Clients, g \in Groups :
          /\ request[c] = "join" /\ request'[c] = "idle"
          /\ override = None /\ engine = "up"
          /\ Keeps(settings, g) /\ Keeps(settings', g) /\ AwayFromHome(g)
          => Pending(g)']_vars

\* go/README.md: "Any other selection change abandons the restore."  NOT so of
\* a change away and back: see the README.
OtherChangeAbandons == [][Commits /\ kind = "restore" => ~hist[group].touched]_vars

-----------------------------------------------------------------------------
(* Liveness *)

\* Every request that begins ends: restart() waits for a checker that may be
\* waiting for the very lock the request holds.
RequestsFinish == \A c \in Clients : request[c] # "idle" ~> request[c] = "idle"

Calm == \A c \in Clients : request[c] = "idle"

Replaceable(g) ==
    /\ Alive /\ g \in settings.groups
    /\ selected[g] \in Leaf(g) /\ weather[selected[g]] = "down"
    /\ \E n \in Leaf(g) : weather[n] = "up"

\* A failing selection with a healthy alternative does not last once requests
\* leave the checker alone: backoff delays scans but never ends them.
FailedReplaced == \A g \in Groups : ~<>[](Calm /\ Replaceable(g))

Restorable(g) ==
    /\ Alive /\ Pending(g) /\ selected[g] = restores[g].target
    /\ weather[restores[g].origin] = "up" /\ restores[g].origin \in Leaf(g)

\* A pending restore whose origin stays healthy does not stay pending.
OriginRestored == \A g \in Groups : ~<>[](Calm /\ Restorable(g))

=============================================================================

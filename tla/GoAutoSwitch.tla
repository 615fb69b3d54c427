---------------------------- MODULE GoAutoSwitch ----------------------------
(***************************************************************************)
(* Automatic node switching of the Go core: the checker goroutine and the  *)
(* engine of native/autoswitch/autoswitch.go, with the manual selections   *)
(* of native/tunnel/proxies.go and the hot reloads of the executor.        *)
(*                                                                         *)
(* Unlike the Rust core nothing excludes a manual selection from a switch, *)
(* and a checker is not aborted: its context is cancelled, and it goes on  *)
(* until it looks at the context again.  A hot reload installs new         *)
(* selector objects first and restarts the checker afterwards, so a check  *)
(* may end on an object that routes nothing any more.                      *)
(*                                                                         *)
(* Abstracted: delays, events and statuses; which nodes answer (any probe  *)
(* may succeed or fail); the scan (GoScan has it): any other leaf member,  *)
(* or none.  Provider refreshes leave the members of a table alone here.   *)
(***************************************************************************)
EXTENDS Naturals

CONSTANTS
    Groups,      \* names of the groups a profile may list
    Nodes,       \* names of the members a group may have
    Leaves,      \* the members that are real servers (isLeaf)
    None,        \* "no node", "no lock holder", "no override"
    Clients,     \* control calls that may be in flight at once
    Profiles,    \* the normalized settings a config or a Patch may carry
    MemberSets,  \* the member sets a group may get; {}: no such selector
    RestoreSuccesses, \* consecutive healthy checks before a restore (3)
    MaxBackoff,  \* longest pause between scans, in failing rounds (8)
    MaxGen       \* bound: proxy tables installed in one behaviour

\* option.Settings after Normalized(): what the control flow depends on.
Settings == [enable: BOOLEAN, restore: BOOLEAN, groups: SUBSET Groups, threshold: Nat \ {0}]

ASSUME GoConstantsOK ==
    /\ None \notin Nodes \cup Clients \cup Profiles
    /\ Leaves \subseteq Nodes
    /\ Profiles \subseteq Settings
    /\ MemberSets \subseteq SUBSET Nodes
    /\ RestoreSuccesses \in Nat \ {0}
    /\ MaxBackoff \in Nat \ {0}
    /\ MaxGen \in Nat \ {0}

VARIABLES
    \* the tunnel and the cache file
    gen,        \* the proxy table in use
    members,    \* members of each group, by table
    selected,   \* current node of each selector object, by table
    cache,      \* the selection stored for each group
    \* the engine
    configured, override, active, phase, restores,
    lifecycle,  \* who holds engine.lifecycle
    \* the checker
    pc, cancelled, running, \* where it is; its context is done; its settings
    todo, group,            \* groups left in this round; the one being checked
    change,     \* the change it attempts, if any: the locals of its functions
    failures,               \* checker.failures
    \* the calls: what each is doing, to which group of which table, with what
    call,
    hist        \* history, read by no guard

tunnelVars == <<gen, members, selected, cache>>
engineVars == <<configured, override, active, phase, restores>>
checkVars  == <<todo, group, change>>
vars == <<tunnelVars, engineVars, lifecycle, pc, cancelled, running, checkVars, failures, call, hist>>

NodeOrNone == Nodes \cup {None}
Gens       == 1 .. MaxGen

Restore   == [origin: NodeOrNone, target: NodeOrNone, successes: 0 .. RestoreSuccesses - 1]
NoRestore == [origin |-> None, target |-> None, successes |-> 0]
Pending(g) == restores[g].origin # None

\* A switch away from a node, or a restore, on the selector object of a table.
Change   == [table: Gens, kind: {"switch", "restore"}, from: Nodes, to: NodeOrNone]
NoChange == [kind |-> "none"]

Failure   == [node: NodeOrNone, count: Nat, backoff: 0 .. MaxBackoff, skip: 0 .. MaxBackoff]
NoFailure == [node |-> None, count |-> 0, backoff |-> 0, skip |-> 0]

\* A call at rest, or between two of its steps.
Idle   == [does |-> "nothing"]
Calls  == {Idle} \cup [does: {"apply"}, settings: Profiles] \cup [does: {"join"}, reload: BOOLEAN]
          \cup [does: {"set", "store"}, table: Gens, group: Groups, node: Nodes]

\* History of a group.  home: the node its chain of automatic switches left
\* first.  auto: such a chain, under settings that restore, led to the current
\* selection.  touched: someone else moved the selection while a restore was
\* pending or a switch was being made, or the switch was made on a table no
\* longer in use.  lost: it is auto, and a change that ended on such a table took
\* the pending restore or wrote over it.
Hist == [home: NodeOrNone, auto: BOOLEAN, touched: BOOLEAN, lost: BOOLEAN]

Alive == pc # "dead"

GoTypeOK ==
    /\ gen \in Gens
    /\ members \in [Gens -> [Groups -> SUBSET Nodes]]
    /\ selected \in [Gens -> [Groups -> NodeOrNone]]
    /\ cache \in [Groups -> NodeOrNone]
    /\ configured \in Profiles /\ override \in Profiles \cup {None} /\ active \in Profiles
    /\ phase \in {"stopped", "checking", "waiting"}
    /\ restores \in [Groups -> Restore]
    /\ lifecycle \in Clients \cup {None}
    /\ pc \in {"dead", "spawned", "sleep", "pick", "probeOrigin", "observe",
               "probeCurrent", "scan", "compare", "set", "cache"}
    /\ cancelled \in BOOLEAN /\ running \in Profiles
    /\ todo \subseteq Groups /\ group \in Groups
    /\ change \in Change \cup {NoChange}
    /\ failures \in [Groups -> Failure]
    /\ call \in [Clients -> Calls]
    /\ hist \in [Groups -> Hist]

-----------------------------------------------------------------------------
(* The checker *)

\* On to the next step of a function, or out of it: its locals are gone.
Go(p)      == pc' = p /\ UNCHANGED change
Return(p)  == pc' = p /\ change' = NoChange

Now(g)     == selected[gen][g]
Leaf(t, g) == members[t][g] \cap Leaves

\* history: the pending restore of g is over.
Settle(g) == hist' = [hist EXCEPT ![g].touched = FALSE,
                                  ![g].auto = @ /\ hist[g].home \in Leaf(gen, g)]

\* run(): the timer and the context may both be ready.
Wake ==
    /\ pc \in {"spawned", "sleep"}
    /\ \/ /\ pc' = "pick" /\ phase' = "checking" /\ todo' = running.groups
       \/ /\ cancelled
          /\ pc' = "dead" /\ phase' = "stopped" /\ UNCHANGED todo
    /\ UNCHANGED <<tunnelVars, configured, override, active, restores, lifecycle, cancelled,
                   running, group, change, failures, call, hist>>

EndRound ==
    /\ pc = "pick" /\ (cancelled \/ todo = {})
    /\ IF cancelled THEN pc' = "dead" /\ phase' = "stopped"
                    ELSE pc' = "sleep" /\ phase' = "waiting"
    /\ todo' = {}
    /\ UNCHANGED <<tunnelVars, configured, override, active, restores, lifecycle, cancelled,
                   running, group, change, failures, call, hist>>

\* Wrong: the restore stands while the selection is still the old one.
StandingAtOrigin(g) == Now(g) = restores[g].origin /\ restores[g].origin \in Leaf(gen, g)

\* The pending restore of g can go on: nobody changed the selection since.
Standing(g) == Now(g) = restores[g].target /\ restores[g].origin \in Leaf(gen, g)

\* checkRestore up to its probe.
CheckRestore(g) ==
    /\ pc = "pick" /\ g \in todo /\ ~cancelled
    /\ todo' = todo \ {g} /\ group' = g
    /\ \/ /\ ~Pending(g)
          /\ pc' = "observe"
          /\ UNCHANGED <<restores, change, hist>>
       \/ /\ Pending(g) /\ ~Standing(g)
          /\ restores' = [restores EXCEPT ![g] = NoRestore]
          /\ pc' = "observe"
          /\ Settle(g)
          /\ UNCHANGED change
       \/ /\ Pending(g) /\ Standing(g)
          /\ pc' = "probeOrigin"
          /\ change' = [table |-> gen, kind |-> "restore",
                        from |-> restores[g].target, to |-> restores[g].origin]
          /\ UNCHANGED <<restores, hist>>
    /\ UNCHANGED <<tunnelVars, configured, override, active, phase, lifecycle, cancelled,
                   running, failures, call>>

\* checkRestore after its probe.  A cancelled context or an early success ends
\* it without a restore, and checkGroup follows.
ProbeOrigin ==
    /\ pc = "probeOrigin"
    /\ \/ /\ cancelled
          /\ Return("observe")
          /\ UNCHANGED <<restores, hist>>
       \/ /\ ~cancelled
          /\ restores' = [restores EXCEPT ![group].successes = 0]
          /\ Return("observe")
          /\ UNCHANGED hist
       \/ /\ ~cancelled /\ restores[group].successes + 1 < RestoreSuccesses
          /\ restores' = [restores EXCEPT ![group].successes = @ + 1]
          /\ Return("observe")
          /\ UNCHANGED hist
       \/ /\ ~cancelled /\ restores[group].successes + 1 >= RestoreSuccesses
          /\ restores' = [restores EXCEPT ![group] = NoRestore]
          /\ Go("compare")
          /\ Settle(group)
    /\ UNCHANGED <<tunnelVars, configured, override, active, phase, lifecycle, cancelled,
                   running, todo, group, failures, call>>

\* checkGroup up to its probe.  New traffic through the node may prove it works.
Observe ==
    /\ pc = "observe"
    /\ \/ /\ Return("pick")
          /\ failures' = [failures EXCEPT ![group] = NoFailure]
       \/ /\ Now(group) \in Leaf(gen, group)
          /\ pc' = "probeCurrent"
          /\ change' = [table |-> gen, kind |-> "switch", from |-> Now(group), to |-> None]
          /\ UNCHANGED failures
    /\ UNCHANGED <<tunnelVars, engineVars, lifecycle, cancelled, running, todo, group, call, hist>>

FailureOf(g, n) == IF failures[g].node = n THEN failures[g] ELSE [NoFailure EXCEPT !.node = n]
Counted(f)  == IF f.count < running.threshold THEN [f EXCEPT !.count = @ + 1] ELSE f
MustWait(f) == f.count < running.threshold \/ f.skip > 0
Waited(f)   == [f EXCEPT !.skip = IF @ > 0 /\ f.count >= running.threshold THEN @ - 1 ELSE @]

\* checkGroup from its probe to the scan.
ProbeCurrent ==
    /\ pc = "probeCurrent"
    /\ \/ cancelled /\ Return("pick") /\ UNCHANGED failures
       \/ /\ ~cancelled
          /\ failures' = [failures EXCEPT ![group] = NoFailure]
          /\ Return("pick")
       \/ /\ ~cancelled
          /\ LET f == Counted(FailureOf(group, change.from)) IN
             /\ failures' = [failures EXCEPT ![group] = IF MustWait(f) THEN Waited(f) ELSE f]
             /\ IF MustWait(f) THEN Return("pick") ELSE Go("scan")
    /\ UNCHANGED <<tunnelVars, engineVars, lifecycle, cancelled, running, todo, group, call, hist>>

NextBackoff(b) == IF b = 0 THEN 1 ELSE IF b * 2 < MaxBackoff THEN b * 2 ELSE MaxBackoff

\* findReplacement, and what checkGroup does with its result.
Scan ==
    /\ pc = "scan"
    /\ \/ cancelled /\ Return("pick") /\ UNCHANGED failures
       \/ /\ ~cancelled
          /\ failures' = [failures EXCEPT
                ![group].backoff = NextBackoff(@), ![group].skip = NextBackoff(failures[group].backoff)]
          /\ Return("pick")
       \/ /\ ~cancelled
          /\ \E n \in Leaf(change.table, group) \ {change.from} : change' = [change EXCEPT !.to = n]
          /\ failures' = [failures EXCEPT ![group] = NoFailure]
          /\ pc' = "compare"
    /\ UNCHANGED <<tunnelVars, engineVars, lifecycle, cancelled, running, todo, group,
                   call, hist>>

\* history: the group in use stays where it is, without its pending restore.
Lost(h) == [h EXCEPT !.lost = h.auto]

\* selector.Now(): a change that came before it wins.
Compare ==
    /\ pc = "compare"
    /\ \/ /\ selected[change.table][group] = change.from
          /\ Go("set")
          /\ UNCHANGED hist
       \/ /\ selected[change.table][group] # change.from
          /\ Return(IF change.kind = "restore" THEN "observe" ELSE "pick")
          /\ hist' = IF change.kind = "restore" /\ change.table # gen
                     THEN [hist EXCEPT ![group] = Lost(@)] ELSE hist
    /\ UNCHANGED <<tunnelVars, engineVars, lifecycle, cancelled, running, todo, group,
                   failures, call>>

\* history: an automatic change of the group in use.
MovedByChecker(h) ==
    LET first == IF h.auto /\ ~h.lost THEN h.home ELSE change.from
    IN  [home    |-> IF change.kind = "switch" THEN first ELSE h.home,
         auto    |-> change.kind = "switch" /\ running.restore /\ ~h.touched /\ change.to # first,
         touched |-> h.touched,
         lost    |-> FALSE]

\* selector.Set(): nothing keeps the selection as it was compared.
Set ==
    /\ pc = "set"
    /\ selected' = [selected EXCEPT ![change.table][group] = change.to]
    /\ Go("cache")
    /\ hist' = [hist EXCEPT ![group] = IF change.table = gen THEN MovedByChecker(@)
                                       ELSE [Lost(@) EXCEPT !.touched = TRUE]]
    /\ UNCHANGED <<gen, members, cache, engineVars, lifecycle, cancelled, running, todo, group,
                   failures, call>>

\* Wrong: a chain of switches keeps its last selection.
RememberLast(r) == [origin |-> change.from, target |-> change.to, successes |-> 0]

\* What rememberOrigin makes of the pending restore r.
RememberOrigin(r) ==
    LET origin == IF r.origin = None \/ r.target # change.from THEN change.from ELSE r.origin
    IN  IF origin = change.to THEN NoRestore ELSE [origin |-> origin, target |-> change.to, successes |-> 0]

\* The cache file, the connections, and rememberOrigin after a switch.
Cache ==
    /\ pc = "cache"
    /\ cache' = [cache EXCEPT ![group] = change.to]
    /\ IF change.kind = "switch" /\ running.restore
       THEN restores' = [restores EXCEPT ![group] = RememberOrigin(@)]
       ELSE UNCHANGED restores
    /\ hist' = [hist EXCEPT ![group].touched = @ /\ restores'[group].origin # None]
    /\ failures' = IF change.kind = "restore" THEN [failures EXCEPT ![group] = NoFailure] ELSE failures
    /\ Return("pick")
    /\ UNCHANGED <<gen, members, selected, configured, override, active, phase, lifecycle,
                   cancelled, running, todo, group, call>>

CheckerStep ==
    \/ Wake \/ EndRound \/ (\E g \in Groups : CheckRestore(g)) \/ ProbeOrigin
    \/ Observe \/ ProbeCurrent \/ Scan \/ Compare \/ Set \/ Cache

-----------------------------------------------------------------------------
(* Calls: settings, hot reloads, and manual selections *)

Free(c) == call[c] = Idle
Become(c, next) == call' = [call EXCEPT ![c] = next]

\* history: someone else than the checker gives g the selection n, on table t;
\* that moves the group if the table is in use.
Moved(h, t, g, n) ==
    IF t # gen \/ n = selected[t][g] THEN h
    ELSE [home |-> n, auto |-> FALSE, lost |-> FALSE,
          touched |-> h.touched \/ Pending(g) \/ (pc \in {"set", "cache"} /\ group = g)]

\* The executor installs a new proxy table, its selections from the cache file
\* where they still exist.  The executor's own mutex excludes another reload.
Install(c) ==
    /\ Free(c) /\ gen < MaxGen
    /\ \A d \in Clients : call[d].does = "join" => ~call[d].reload
    /\ \A d \in Clients : call[d].does # "apply"
    /\ gen' = gen + 1
    /\ \E m \in [Groups -> MemberSets], s \in [Groups -> NodeOrNone] :
         /\ \A g \in Groups : IF m[g] = {} THEN s[g] = None
                              ELSE IF cache[g] \in m[g] THEN s[g] = cache[g] ELSE s[g] \in m[g]
         /\ members' = [members EXCEPT ![gen + 1] = m]
         /\ selected' = [selected EXCEPT ![gen + 1] = s]
         /\ hist' = [g \in Groups |-> Moved(hist[g], gen, g, s[g])]
    /\ \E p \in Profiles : Become(c, [does |-> "apply", settings |-> p])
    /\ UNCHANGED <<cache, engineVars, lifecycle, pc, cancelled, running, checkVars, failures>>

\* Wrong: the restart waits for a checker that nobody told to stop.
NeverCancels == FALSE

\* e.cancel(), if there is a checker.
Cancels == Alive

\* restartLocked up to its wait.
Begin(c, reload) ==
    /\ lifecycle = None /\ lifecycle' = c
    /\ cancelled' = Cancels
    /\ Become(c, [does |-> "join", reload |-> reload])
    /\ UNCHANGED <<tunnelVars, active, phase, restores, pc, running, checkVars, failures, hist>>

Apply(c) ==
    /\ call[c].does = "apply"
    /\ configured' = call[c].settings
    /\ Begin(c, TRUE)
    /\ UNCHANGED override

Patch(c) ==
    /\ Free(c)
    /\ override' \in Profiles
    /\ Begin(c, FALSE)
    /\ UNCHANGED configured

ClearOverride(c) ==
    /\ Free(c) /\ override # None
    /\ override' = None
    /\ Begin(c, FALSE)
    /\ UNCHANGED configured

\* Wrong: a reload puts the configured settings over the PATCHed ones.
ConfiguredOnly == configured

Effective == IF override = None THEN configured ELSE override

Runs(s) == s.enable /\ s.groups # {}

\* Wrong: switching everything off keeps the pending restores.
KeepsIfRestore(s, g) == s.restore /\ g \in s.groups

Keeps(s, g) == s.enable /\ s.restore /\ g \in s.groups

\* restartLocked after its wait for e.done.
Restart(c) ==
    /\ call[c].does = "join" /\ ~Alive
    /\ active' = Effective /\ running' = Effective
    /\ phase' = "stopped"
    /\ restores' = [g \in Groups |-> IF Keeps(Effective, g) THEN restores[g] ELSE NoRestore]
    /\ pc' = IF Runs(Effective) THEN "spawned" ELSE "dead"
    /\ cancelled' = FALSE /\ todo' = {}
    /\ failures' = [g \in Groups |-> NoFailure]
    /\ lifecycle' = None /\ Become(c, Idle)
    /\ hist' = [g \in Groups |-> IF Keeps(Effective, g) THEN hist[g]
                                 ELSE [hist[g] EXCEPT !.auto = FALSE, !.touched = FALSE, !.lost = FALSE]]
    /\ UNCHANGED <<tunnelVars, configured, override, group, change>>

\* PatchSelector up to s.Set(name): it looks the selector up ...
PatchSelector(c) ==
    /\ Free(c)
    /\ \E g \in Groups : \E n \in members[gen][g] :
         Become(c, [does |-> "set", table |-> gen, group |-> g, node |-> n])
    /\ UNCHANGED <<tunnelVars, engineVars, lifecycle, pc, cancelled, running, checkVars, failures, hist>>

\* ... sets it ...
SetSelector(c) ==
    /\ call[c].does = "set"
    /\ LET s == call[c] IN
       /\ selected' = [selected EXCEPT ![s.table][s.group] = s.node]
       /\ hist' = [hist EXCEPT ![s.group] = Moved(@, s.table, s.group, s.node)]
       /\ Become(c, [s EXCEPT !.does = "store"])
    /\ UNCHANGED <<gen, members, cache, engineVars, lifecycle, pc, cancelled, running,
                   checkVars, failures>>

\* ... and stores the selection.
StoreSelected(c) ==
    /\ call[c].does = "store"
    /\ cache' = [cache EXCEPT ![call[c].group] = call[c].node]
    /\ Become(c, Idle)
    /\ UNCHANGED <<gen, members, selected, engineVars, lifecycle, pc, cancelled, running,
                   checkVars, failures, hist>>

Call(c) ==
    \/ Install(c) \/ Apply(c) \/ Patch(c) \/ ClearOverride(c) \/ Restart(c)
    \/ PatchSelector(c) \/ SetSelector(c) \/ StoreSelected(c)

-----------------------------------------------------------------------------

\* A session whose first configuration has just been applied.
Init ==
    /\ gen = 1
    /\ \E m \in [Groups -> MemberSets], s \in [Groups -> NodeOrNone] :
         /\ \A g \in Groups : IF m[g] = {} THEN s[g] = None ELSE s[g] \in m[g]
         /\ members = [t \in Gens |-> m] /\ selected = [t \in Gens |-> s]
         /\ cache = s
         /\ hist = [g \in Groups |-> [home |-> s[g], auto |-> FALSE, touched |-> FALSE, lost |-> FALSE]]
    /\ configured \in Profiles /\ override = None
    /\ active = configured /\ running = configured /\ phase = "stopped"
    /\ restores = [g \in Groups |-> NoRestore]
    /\ lifecycle = None
    /\ pc = IF Runs(configured) THEN "spawned" ELSE "dead"
    /\ cancelled = FALSE /\ todo = {} /\ group \in Groups
    /\ change = NoChange
    /\ failures = [g \in Groups |-> NoFailure]
    /\ call = [c \in Clients |-> Idle]

Next == CheckerStep \/ \E c \in Clients : Call(c)

Spec == Init /\ [][Next]_vars

\* Goroutines are scheduled, probes end within their timeout, timers fire; a
\* call that began goes on, and sync.Mutex starves nobody who waits for it.
\* Nobody has to begin a call.
FairSpec ==
    /\ Spec
    /\ WF_vars(CheckerStep)
    /\ \A c \in Clients : SF_vars(call[c] # Idle /\ Call(c))

-----------------------------------------------------------------------------
(* Properties *)

\* The checker is changing the selection of g, or about to.
Changing(g) == pc \in {"compare", "set", "cache"} /\ group = g

\* A restore is pending only for groups whose settings in force want one, between
\* two real nodes (restartLocked drops the others; rememberOrigin and
\* checkRestore keep the map in order).
GoRestoresAllowed ==
    \A g \in Groups : Pending(g) =>
        /\ active.enable /\ active.restore /\ g \in active.groups
        /\ restores[g].origin # restores[g].target
        /\ {restores[g].origin, restores[g].target} \subseteq Leaves

\* While no restart is under way, what Get() reports is what runs: the override, or
\* what the last reload configured; a checker if and only if these settings ask for
\* one; and the phase it is in.  restartLocked waits for the old checker in between,
\* which goes on until it looks at its context.
GoServiceConsistent ==
    lifecycle = None =>
        /\ override # None => active = override
        /\ override = None => active = configured
        /\ Alive <=> active.enable /\ active.groups # {}
        /\ phase = CASE pc \in {"dead", "spawned"} -> "stopped"
                     [] pc = "sleep" -> "waiting"
                     [] OTHER -> "checking"

\* Every restart that waits for the old checker has told it to end.
RestartHeard == \A c \in Clients : call[c].does = "join" /\ Alive => cancelled

\* As long as only automatic switches moved a group, its pending restore leads to
\* the node the first of them left (rememberOrigin: "so a replacement that fails
\* in turn still restores the node the user chose"), whatever reloads, patches
\* and further switches came since.
GoOriginIsHome ==
    \A g \in Groups : Pending(g) /\ ~hist[g].touched /\ ~Changing(g)
                      => restores[g].origin = hist[g].home

\* Such a move is forgotten in one case only, `lost`: a restore or a further
\* switch that ended on a table a reload had meanwhile replaced.  In every other,
\* while the selection is the one automatic switches led to and the settings in
\* force still restore the group, the restore is pending and stands for exactly
\* that selection, so the next rounds go on with it (restores "outlives checker
\* restarts so a hot reload keeps the original selections").
SwitchIsUndone ==
    \A g \in Groups : hist[g].auto /\ ~hist[g].lost /\ ~Changing(g)
                      => Pending(g) /\ restores[g].target = Now(g)

\* Every reload, patch and selection returns: whatever the old checker is doing,
\* a restart that waits for it ("<-e.done", with engine.lifecycle held) gets rid
\* of it.
CallsReturn == \A c \in Clients : call[c] # Idle ~> call[c] = Idle

\* "Compare and set: a manual selection made during the scan always wins": what a
\* switch or a restore replaces is the selection it compared with.
ManualAlwaysWins ==
    [][pc = "set" /\ pc' = "cache" => selected[change.table][group] = change.from]_vars

=============================================================================

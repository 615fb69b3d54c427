-------------------------- MODULE AutoSwitchProofs --------------------------
(***************************************************************************)
(* Theorems about AutoSwitch, for every value of its constants.  Each is   *)
(* proved from invariants proved before it:                                *)
(*   TypeOK  <-  LockInv  <-  Compared    gives ManualWins                 *)
(*   TypeOK  <-  RestoreInv               gives RestoresAllowed and, with  *)
(*                                        Compared, NoStaleTable           *)
(*   TypeOK  <-  RestoreInv  <-  HistoryInv                                *)
(*                                        gives OriginIsHome and           *)
(*                                        SwitchesRemembered               *)
(*   TypeOK  <-  RestoreInv  <-  CountInv  gives ThresholdHeld             *)
(*   TypeOK  <-  LifecycleInv             gives ServiceConsistent          *)
(*   LockInv, LifecycleInv  <-  Asked     gives NoWaitCycle                *)
(*   TypeOK  gives DyingFast, that an aborted task only nears its end      *)
(*   RestoreInv, CountInv  <-  PauseInv   gives ScanPacing                 *)
(*   TypeOK, RestoreInv, LifecycleInv     give SuspendsWhole, that what a  *)
(*                                        reload carries over is of Saved  *)
(***************************************************************************)
EXTENDS AutoSwitch, TLAPS

-----------------------------------------------------------------------------
(* Type correctness *)

\* The values that stand for nothing have the types of what they stand in for.
LEMMA NoneTypes ==
    /\ None \in NodeOrNone
    /\ NoRestore \in Restore
    /\ NoFailure \in Failure
    /\ NoStreak \in Streak
    /\ \A n \in NodeOrNone : NewFailure(n) \in Failure
    /\ \A n \in NodeOrNone : AtHome(n) \in Hist
BY ConstantsOK
   DEF NoRestore, Restore, NodeOrNone, NoStreak, Streak, NoFailure, NewFailure, Failure,
       AtHome, Hist

\* What a reload saves are restores between different leaves.
LEMMA SavedTypes ==
    ASSUME NEW s \in Saved
    PROVE  /\ s.override \in Profiles \cup {None}
           /\ s.restores \in [Groups -> Restore]
           /\ \A g \in Groups : \/ s.restores[g] = NoRestore
                               \/ /\ s.restores[g].origin # s.restores[g].target
                                  /\ {s.restores[g].origin, s.restores[g].target} \subseteq Leaves
<1>1. PICK o, p : s \in [override : {o}, restores : RestoresFor(p)] /\ o \in Profiles \cup {None}
  <2>1. CASE s \in UNION {[override : {o}, restores : RestoresFor(o)] : o \in Patched}
    <3>1. PICK o \in Patched : s \in [override : {o}, restores : RestoresFor(o)]
      BY <2>1
    <3>. QED BY <3>1 DEF Patched
  <2>2. CASE s \in UNION {[override : {None}, restores : RestoresFor(p)] : p \in Profiles}
    <3>1. PICK p \in Profiles : s \in [override : {None}, restores : RestoresFor(p)]
      BY <2>2
    <3>. QED BY <3>1
  <2>. QED BY <2>1, <2>2 DEF Saved
<1>2. s.override = o /\ s.restores \in RestoresFor(p)
  BY <1>1
<1>. QED BY <1>1, <1>2 DEF RestoresFor

\* The override a reload saves is one that PATCH let through.
LEMMA SavedOverride == ASSUME NEW s \in Saved PROVE s.override \in Patched \cup {None}
<1>1. CASE s \in UNION {[override : {o}, restores : RestoresFor(o)] : o \in Patched}
  <2>1. PICK o \in Patched : s \in [override : {o}, restores : RestoresFor(o)]
    BY <1>1
  <2>. QED BY <2>1
<1>2. CASE s \in UNION {[override : {None}, restores : RestoresFor(p)] : p \in Profiles}
  <2>1. PICK p \in Profiles : s \in [override : {None}, restores : RestoresFor(p)]
    BY <1>2
  <2>. QED BY <2>1
<1>. QED BY <1>1, <1>2 DEF Saved

\* The history a session begins with is well typed.
LEMMA BegunTypes ==
    ASSUME NEW r, \A g \in Groups : r[g].origin \in NodeOrNone /\ selected[g] \in NodeOrNone
    PROVE  Begun(r) \in [Groups -> Hist]
<1>1. ASSUME NEW h \in Hist, NEW b \in BOOLEAN PROVE [h EXCEPT !.touched = b] \in Hist
  BY DEF Hist
<1>. QED BY <1>1, NoneTypes DEF Begun

\* A session that has just started has well-typed state.
LEMMA InitTypeOK == Init => TypeOK
<1> SUFFICES ASSUME Init PROVE TypeOK
  OBVIOUS
<1>1. members \in [Groups -> SUBSET Nodes]
  BY ConstantsOK DEF Init
<1>2. failures \in [Groups -> Failure] /\ streak \in [Groups -> Streak]
  BY NoneTypes DEF Init
<1>3. /\ restores \in [Groups -> Restore]
      /\ configured \in Profiles \cup {Default}
      /\ override \in Profiles \cup {None}
      /\ settings \in Profiles \cup {Default}
      /\ saved \in Saved \cup {None}
      /\ engine \in EngineStages
  <2>1. CASE Serving
    BY <2>1, NoneTypes DEF Serving, EngineStages, Starting
  <2>2. CASE Started
    <3>1. PICK begun \in Saved \cup {[override |-> None, restores |-> [g \in Groups |-> NoRestore]]} :
             /\ configured \in Profiles /\ override = begun.override
             /\ settings = Effective
             /\ restores = [g \in Groups |-> IF Keeps(settings, g) THEN begun.restores[g]
                                             ELSE NoRestore]
      BY <2>2 DEF Started
    <3>2. begun.override \in Profiles \cup {None} /\ begun.restores \in [Groups -> Restore]
      BY SavedTypes, NoneTypes
    <3>. QED BY <2>2, <3>1, <3>2, NoneTypes DEF Started, Effective, EngineStages
  <2>. QED BY <2>1, <2>2 DEF Init
<1>10. hist \in [Groups -> Hist]
  <2>1. \A g \in Groups : restores[g].origin \in NodeOrNone /\ selected[g] \in NodeOrNone
    BY <1>3 DEF Init, Restore
  <2>. QED BY <2>1, BegunTypes DEF Init
<1>4. pc \in AwaitPoints \cup RunPoints \cup {"dead"}
  BY DEF Init, AwaitPoints
<1>5. request \in [Clients -> RequestStages]
  BY DEF Init, RequestStages
<1>6. gen \in 1 .. MaxGen /\ seen \in 0 .. MaxGen /\ generation \in 0 .. MaxGen
  BY ConstantsOK DEF Init
<1>7. selected \in [Groups -> NodeOrNone] /\ weather \in Weathers
  BY DEF Init
<1>8. /\ phase \in {"stopped", "checking", "waiting"}
      /\ mutations \in Clients \cup {None, "checker"}
      /\ lifecycle \in Clients \cup {None, "engine"}
      /\ cancelled \in BOOLEAN
  BY DEF Init
<1>9. /\ todo \in SUBSET Groups
      /\ group \in Groups
      /\ kind \in {"switch", "restore"}
      /\ from \in NodeOrNone /\ to \in NodeOrNone
      /\ candidates \in SUBSET Nodes
  BY NoneTypes DEF Init
<1>. QED
  BY <1>1, <1>2, <1>3, <1>4, <1>5, <1>6, <1>7, <1>8, <1>9, <1>10 DEF TypeOK

\* check_restore up to its probe keeps the types.
LEMMA CheckRestoreTypeOK == ASSUME TypeOK, NEW g \in Groups, CheckRestore(g) PROVE TypeOK'
<1>1. restores' \in [Groups -> Restore]
  BY NoneTypes DEF TypeOK, CheckRestore
<1>2. restores[g].target \in NodeOrNone /\ restores[g].origin \in NodeOrNone
  BY DEF TypeOK, Restore
<1>3. from' \in NodeOrNone /\ to' \in NodeOrNone
  BY <1>2 DEF TypeOK, CheckRestore
<1>4. hist' \in [Groups -> Hist]
  <2>1. [hist EXCEPT ![g].fresh = FALSE] \in [Groups -> Hist]
    BY DEF TypeOK, Hist
  <2>2. [hist EXCEPT ![g] = AtHome(selected[g])] \in [Groups -> Hist]
    BY NoneTypes DEF TypeOK
  <2>. QED BY <2>1, <2>2 DEF TypeOK, CheckRestore
<1>5. /\ pc' \in AwaitPoints \cup RunPoints
      /\ seen' \in 0 .. MaxGen /\ kind' \in {"switch", "restore"}
  BY ConstantsOK DEF TypeOK, CheckRestore, AwaitPoints, RunPoints
<1>. QED
  BY <1>1, <1>3, <1>4, <1>5 DEF TypeOK, CheckRestore, tunnelVars, serviceVars

\* check_group up to its probe keeps the types.
LEMMA ObserveTypeOK == ASSUME TypeOK, Observe PROVE TypeOK'
<1>1. hist' \in [Groups -> Hist]
  BY DEF TypeOK, Observe, Hist
<1>2. failures' \in [Groups -> Failure] /\ streak' \in [Groups -> Streak]
  BY NoneTypes DEF TypeOK, Observe
<1>3. /\ from' \in NodeOrNone /\ to' \in NodeOrNone /\ kind' \in {"switch", "restore"}
      /\ seen' \in 0 .. MaxGen /\ candidates' \in SUBSET Nodes
      /\ pc' \in AwaitPoints \cup RunPoints
  BY NoneTypes, ConstantsOK DEF Observe, LeaveCheck, TypeOK, AwaitPoints, RunPoints
<1>. QED
  BY <1>1, <1>2, <1>3 DEF TypeOK, Observe, tunnelVars, serviceVars

\* check_restore after its probe keeps the types: the stored number of
\* successes stays below the number that takes the restore out of the state.
LEMMA ProbeOriginTypeOK == ASSUME TypeOK, ProbeOrigin PROVE TypeOK'
<1>1. restores' \in [Groups -> Restore]
  <2>1. ASSUME NEW r \in Restore, NEW n \in Nat, n < RestoreSuccesses
        PROVE [restores EXCEPT ![group] = [r EXCEPT !.successes = n]] \in [Groups -> Restore]
    <3>1. [r EXCEPT !.successes = n] \in Restore
      BY <2>1, ConstantsOK DEF Restore
    <3>. QED BY <3>1 DEF TypeOK
  <2>2. [restores EXCEPT ![group] = NoRestore] \in [Groups -> Restore]
    BY NoneTypes DEF TypeOK
  <2>3. ASSUME NEW r \in Restore, NEW ok PROVE Successes(r, ok) \in Nat
    BY ConstantsOK DEF Successes, Restore
  <2>4. Checked(group) \subseteq Restore
    BY DEF Checked, TypeOK, Restore
  <2>5. PICK ok \in Healthy(to), r \in Checked(group) :
         \/ /\ ~RestoreDue(Successes(r, ok))
            /\ restores' = [restores EXCEPT ![group] = [r EXCEPT !.successes = Successes(r, ok)]]
         \/ restores' = [restores EXCEPT ![group] = NoRestore]
    BY DEF ProbeOrigin
  <2>. QED BY <2>1, <2>2, <2>3, <2>4, <2>5, ConstantsOK DEF RestoreDue
<1>2. pc' \in AwaitPoints \cup RunPoints \cup {"dead"}
  BY DEF ProbeOrigin, LeaveCheck, AwaitPoints, RunPoints
<1>3. /\ from' \in NodeOrNone /\ to' \in NodeOrNone /\ kind' \in {"switch", "restore"}
      /\ seen' \in 0 .. MaxGen /\ candidates' \in SUBSET Nodes
  BY NoneTypes, ConstantsOK DEF ProbeOrigin, LeaveCheck, TypeOK
<1>. QED
  BY <1>1, <1>2, <1>3 DEF TypeOK, ProbeOrigin, tunnelVars, serviceVars, histVars

\* check_group between its probe and its scan keeps the types: counting a
\* failure and waiting out a backoff leave a failure record.
LEMMA ProbeCurrentTypeOK == ASSUME TypeOK, ProbeCurrent PROVE TypeOK'
<1> DEFINE f == Counted(FailureOf(group, from))
<1>1. f \in Failure
  <2>1. FailureOf(group, from) \in Failure
    BY NoneTypes DEF TypeOK, FailureOf
  <2>2. ASSUME NEW x \in Failure PROVE Counted(x) \in Failure
    BY ConstantsOK DEF Failure, Counted
  <2>. QED BY <2>1, <2>2
<1>2. Waited(f) \in Failure
  <2>1. ASSUME NEW x \in Failure PROVE Waited(x) \in Failure
    BY ConstantsOK DEF Failure, Waited
  <2>. QED BY <1>1, <2>1
<1>3. failures' \in [Groups -> Failure]
  <2>1. \/ failures' = [failures EXCEPT ![group] = NoFailure]
        \/ failures' = [failures EXCEPT ![group] = Waited(f)]
        \/ failures' = [failures EXCEPT ![group] = f]
    BY DEF ProbeCurrent
  <2>. QED BY <1>1, <1>2, <2>1, NoneTypes DEF TypeOK
<1>4. ASSUME NEW b PROVE Failing(group, from, b) \in Streak
  <2> DEFINE s == IF streak[group].node = from THEN streak[group]
                  ELSE [NoStreak EXCEPT !.node = from]
             m == LowerOf(s.fails + 1, settings.threshold)
             n == IF b /\ s.scans > 0 THEN LowerOf(s.quiet + 1, BackoffCap + 1)
                  ELSE s.quiet
  <2>1. s \in Streak
    BY NoneTypes DEF TypeOK, Streak
  <2>2. settings.threshold \in Nat /\ BackoffCap \in Nat
    BY ConstantsOK DEF TypeOK, Settings
  <2> HIDE DEF s
  <2>3. m \in Nat /\ n \in Nat
    BY <2>1, <2>2 DEF Streak, LowerOf
  <2>4. ASSUME NEW x \in Streak, NEW i \in Nat, NEW j \in Nat
        PROVE  [x EXCEPT !.fails = i, !.quiet = j] \in Streak
    BY DEF Streak
  <2>5. [s EXCEPT !.fails = m, !.quiet = n] \in Streak
    BY <2>1, <2>3, <2>4
  <2>6. Failing(group, from, b) = [s EXCEPT !.fails = m, !.quiet = n]
    BY DEF s, Failing
  <2>. QED BY <2>5, <2>6
<1>5. streak' \in [Groups -> Streak]
  <2>1. \/ streak' = [streak EXCEPT ![group] = NoStreak]
        \/ streak' = [streak EXCEPT ![group] = Failing(group, from, MustWait(f))]
    BY DEF ProbeCurrent
  <2>. QED BY <1>4, <2>1, NoneTypes DEF TypeOK
<1>6. \/ LeaveCheck("pick")
      \/ /\ pc' = "scan" /\ candidates' \in Scannable(group, from)
         /\ UNCHANGED <<kind, from, to, seen>>
  BY DEF ProbeCurrent
<1>7. \A x \in Scannable(group, from) : x \subseteq Nodes
  BY ConstantsOK DEF TypeOK, Scannable
<1>8. /\ from' \in NodeOrNone /\ to' \in NodeOrNone /\ kind' \in {"switch", "restore"}
      /\ seen' \in 0 .. MaxGen /\ candidates' \in SUBSET Nodes
      /\ pc' \in AwaitPoints \cup RunPoints
  BY <1>6, <1>7, NoneTypes, ConstantsOK DEF LeaveCheck, TypeOK, AwaitPoints, RunPoints
<1>. QED
  BY <1>3, <1>5, <1>8 DEF TypeOK, ProbeCurrent, tunnelVars, serviceVars

\* The end of a scan keeps the types: the backoff never exceeds its cap.
LEMMA ScanTypeOK == ASSUME TypeOK, Scan PROVE TypeOK'
<1>1. ASSUME NEW b \in Nat PROVE NextBackoff(b) \in 0 .. BackoffCap
  BY ConstantsOK DEF NextBackoff, LowerOf, HigherOf
<1>2. BackedOff(failures[group]) \in Failure
  <2>1. ASSUME NEW x \in Failure, NEW n \in 0 .. BackoffCap
        PROVE  [x EXCEPT !.backoff = n, !.skip = n] \in Failure
    BY DEF Failure
  <2>2. failures[group] \in Failure /\ failures[group].backoff \in Nat
    BY ConstantsOK DEF TypeOK, Failure
  <2>. QED BY <1>1, <2>1, <2>2 DEF BackedOff
<1>3. FoundNothing(streak[group]) \in Streak
  <2>1. ASSUME NEW x \in Streak, NEW n \in 0 .. 2, NEW q \in Nat
        PROVE  [x EXCEPT !.scans = n, !.quiet = 0, !.last = q] \in Streak
    BY DEF Streak
  <2>2. /\ streak[group] \in Streak /\ streak[group].quiet \in Nat
        /\ LowerOf(streak[group].scans + 1, 2) \in 0 .. 2
    BY DEF TypeOK, Streak, LowerOf
  <2>. QED BY <2>1, <2>2 DEF FoundNothing
<1>4. failures' \in [Groups -> Failure] /\ streak' \in [Groups -> Streak]
  BY <1>2, <1>3, NoneTypes DEF Scan, TypeOK
<1>6. /\ from' \in NodeOrNone /\ kind' \in {"switch", "restore"} /\ seen' \in 0 .. MaxGen
      /\ candidates' \in SUBSET Nodes
  BY NoneTypes, ConstantsOK DEF Scan, LeaveCheck, TypeOK
<1>7. to' \in NodeOrNone
  BY NoneTypes DEF Scan, LeaveCheck, TypeOK, Found, NodeOrNone
<1>8. pc' \in AwaitPoints \cup RunPoints \cup {"dead"}
  BY DEF Scan, LeaveCheck, AwaitPoints, RunPoints
<1>. QED
  BY <1>4, <1>6, <1>7, <1>8 DEF TypeOK, Scan, tunnelVars, serviceVars

\* The steps of select() keep the types.
LEMMA SelectTypeOK == ASSUME TypeOK, Lock \/ Compare \/ Set \/ Return PROVE TypeOK'
<1>1. CASE Lock
  BY <1>1 DEF Lock, TypeOK, tunnelVars, serviceVars, checkVars, histVars, AwaitPoints
<1>2. ASSUME NEW h \in Hist, NEW b \in BOOLEAN, NEW n \in NodeOrNone
      PROVE  /\ [h EXCEPT !.lost = b] \in Hist
             /\ [h EXCEPT !.fresh = b] \in Hist
             /\ [h EXCEPT !.home = n, !.touched = b, !.fresh = b] \in Hist
  BY DEF Hist
<1>3. [hist EXCEPT ![group].lost = TRUE] \in [Groups -> Hist]
  BY DEF TypeOK, Hist
<1>4. CASE Compare
  <2>1. hist' \in [Groups -> Hist]
    BY <1>3, <1>4 DEF Compare, GiveUp, TypeOK
  <2>2. /\ from' \in NodeOrNone /\ to' \in NodeOrNone /\ kind' \in {"switch", "restore"}
        /\ seen' \in 0 .. MaxGen /\ candidates' \in SUBSET Nodes
        /\ pc' \in AwaitPoints \cup RunPoints
        /\ mutations' \in Clients \cup {None, "checker"}
    BY <1>4, NoneTypes, ConstantsOK
       DEF Compare, GiveUp, LeaveCheck, TypeOK, AwaitPoints, RunPoints
  <2>. QED
    BY <1>4, <2>1, <2>2 DEF Compare, TypeOK, tunnelVars, serviceVars
<1>5. CASE Set
  <2>1. Switched(hist[group]) \in Hist
    BY <1>2, NoneTypes DEF Switched, TypeOK
  <2>2. hist' \in [Groups -> Hist]
    BY <1>3, <1>5, <2>1, NoneTypes DEF Set, GiveUp, TypeOK
  <2>3. selected' \in [Groups -> NodeOrNone]
    BY <1>5 DEF Set, TypeOK
  <2>4. /\ from' \in NodeOrNone /\ to' \in NodeOrNone /\ kind' \in {"switch", "restore"}
        /\ seen' \in 0 .. MaxGen /\ candidates' \in SUBSET Nodes
        /\ pc' \in AwaitPoints \cup RunPoints
        /\ mutations' \in Clients \cup {None, "checker"}
    BY <1>5, NoneTypes, ConstantsOK
       DEF Set, GiveUp, LeaveCheck, TypeOK, AwaitPoints, RunPoints
  <2>. QED
    BY <1>5, <2>2, <2>3, <2>4 DEF Set, TypeOK, serviceVars
<1>6. CASE Return
  BY <1>6 DEF Return, TypeOK, tunnelVars, serviceVars, checkVars, histVars, RunPoints
<1>. QED BY <1>1, <1>4, <1>5, <1>6

\* remember_origin, and the reset after a restore, keep the types.
LEMMA RememberTypeOK == ASSUME TypeOK, Remember PROVE TypeOK'
<1>1. ASSUME NEW n \in NodeOrNone, NEW m \in NodeOrNone
      PROVE  [origin |-> n, target |-> m, successes |-> 0] \in Restore
  BY ConstantsOK DEF Restore
<1>2. RememberOrigin(group) \in [Groups -> Restore]
  <2> DEFINE origin == IF restores[group].target = from THEN restores[group].origin
                       ELSE from
  <2>1. origin \in NodeOrNone
    BY DEF TypeOK, Restore
  <2>. QED BY <1>1, <2>1, NoneTypes DEF RememberOrigin, TypeOK
<1>3. /\ restores' \in [Groups -> Restore] /\ failures' \in [Groups -> Failure]
      /\ streak' \in [Groups -> Streak]
  BY <1>2, NoneTypes DEF Remember, TypeOK
<1>4. /\ from' \in NodeOrNone /\ to' \in NodeOrNone /\ kind' \in {"switch", "restore"}
      /\ seen' \in 0 .. MaxGen /\ candidates' \in SUBSET Nodes
      /\ pc' \in AwaitPoints \cup RunPoints
  BY NoneTypes, ConstantsOK DEF Remember, LeaveCheck, RunPoints
<1>. QED
  BY <1>3, <1>4 DEF Remember, TypeOK, tunnelVars, serviceVars

\* The end of the task, aborted or dropped with its runtime, keeps the types.
LEMMA DieTypeOK == ASSUME TypeOK, Die \/ DropRuntime PROVE TypeOK'
<1>1. [hist EXCEPT ![group].lost = TRUE] \in [Groups -> Hist]
  BY DEF TypeOK, Hist
<1>2. hist' \in [Groups -> Hist]
  BY <1>1 DEF Die, DropRuntime, TypeOK
<1>3. failures' \in [Groups -> Failure] /\ streak' \in [Groups -> Streak]
  BY NoneTypes DEF Die, DropRuntime
<1>4. /\ from' \in NodeOrNone /\ to' \in NodeOrNone /\ kind' \in {"switch", "restore"}
      /\ seen' \in 0 .. MaxGen /\ candidates' \in SUBSET Nodes
      /\ generation' \in 0 .. MaxGen /\ pc' = "dead" /\ todo' \in SUBSET Groups
  BY NoneTypes, ConstantsOK DEF Die, DropRuntime, LeaveCheck
<1>5. CASE Die
  BY <1>2, <1>3, <1>4, <1>5 DEF Die, TypeOK, tunnelVars, serviceVars
<1>6. CASE DropRuntime
  BY <1>2, <1>3, <1>4, <1>6
     DEF DropRuntime, TypeOK, tunnelVars, serviceVars, RequestStages, EngineStages
<1>. QED BY <1>5, <1>6

\* The ends of a round keep the types.
LEMMA RoundTypeOK == ASSUME TypeOK, StartRound \/ EndRound PROVE TypeOK'
<1>1. CASE StartRound
  BY <1>1, ConstantsOK, NoneTypes
     DEF StartRound, TypeOK, tunnelVars, RunPoints, Settings
<1>2. CASE EndRound
  BY <1>2 DEF EndRound, TypeOK, tunnelVars, checkVars, histVars, AwaitPoints
<1>. QED BY <1>1, <1>2

\* Recording a selection change made by others keeps the history's type.
LEMMA MovedTypeOK ==
    ASSUME TypeOK, NEW s \in [Groups -> NodeOrNone], NEW manual \in BOOLEAN,
           MovedByOthers(s, manual)
    PROVE  hist' \in [Groups -> Hist]
BY DEF MovedByOthers, TypeOK, Hist

\* Installing a route table keeps the types of the tunnel's state.
LEMMA InstallTypeOK ==
    ASSUME TypeOK, InstallRoutes
    PROVE  /\ gen' \in 1 .. MaxGen
           /\ members' \in [Groups -> SUBSET Nodes]
           /\ selected' \in [Groups -> NodeOrNone]
           /\ hist' \in [Groups -> Hist]
<1>1. selected' \in [Groups -> NodeOrNone]
  BY DEF InstallRoutes, Settled
<1>2. hist' \in [Groups -> Hist]
  BY <1>1, MovedTypeOK DEF InstallRoutes
<1>. QED
  BY <1>1, <1>2, ConstantsOK DEF InstallRoutes, TypeOK

\* Provider refreshes and changes of the weather keep the types.
LEMMA EnvironmentTypeOK == ASSUME TypeOK, Environment PROVE TypeOK'
<1>1. ASSUME NEW g \in Groups, ProviderRefresh(g) PROVE TypeOK'
  <2>1. selected' \in [Groups -> NodeOrNone]
    BY <1>1 DEF ProviderRefresh, Settled
  <2>2. hist' \in [Groups -> Hist]
    BY <1>1, <2>1, MovedTypeOK DEF ProviderRefresh
  <2>3. members' \in [Groups -> SUBSET Nodes]
    BY <1>1, ConstantsOK DEF ProviderRefresh, TypeOK
  <2>. QED
    BY <1>1, <2>1, <2>2, <2>3 DEF ProviderRefresh, TypeOK, serviceVars, checkVars
<1>2. CASE ChangeWeather
  BY <1>2 DEF ChangeWeather, TypeOK, tunnelVars, serviceVars, checkVars, histVars
<1>. QED BY <1>1, <1>2 DEF Environment

\* What restart() installs is well typed.
LEMMA RestartedTypeOK ==
    ASSUME TypeOK, Restarted
    PROVE  /\ settings' \in Profiles \cup {Default} /\ restores' \in [Groups -> Restore]
           /\ pc' \in AwaitPoints \cup {"dead"} /\ phase' \in {"stopped", "checking", "waiting"}
           /\ lifecycle' = None
           /\ UNCHANGED <<gen, members, selected, weather, configured, override, saved, cancelled,
                          todo, group, kind, from, to, seen, generation, failures, candidates,
                          streak>>
<1>1. settings' \in Profiles \cup {Default}
  BY DEF Restarted, Effective, TypeOK
<1>2. restores' \in [Groups -> Restore]
  BY NoneTypes DEF Restarted, TypeOK
<1>3. pc' \in AwaitPoints \cup {"dead"}
  BY DEF Restarted, AwaitPoints
<1>. QED BY <1>1, <1>2, <1>3 DEF Restarted, tunnelVars, checkVars

\* Every step of the engine keeps the types.
LEMMA EngineTypeOK == ASSUME TypeOK, EngineStep \/ SuspendBegin \/ StopBegin PROVE TypeOK'
<1> USE DEF EngineStages, Starting
<1>1. CASE SeedOverride
  <2>1. override' \in Profiles \cup {None}
    BY <1>1, SavedTypes DEF SeedOverride, TypeOK
  <2>. QED
    BY <1>1, <2>1 DEF SeedOverride, TypeOK, tunnelVars, checkerVars, checkVars
<1>2. CASE SeedRestores
  <2>1. restores' \in [Groups -> Restore]
    BY <1>2, SavedTypes DEF SeedRestores, TypeOK
  <2>. QED
    BY <1>2, <2>1 DEF SeedRestores, TypeOK, tunnelVars, checkerVars, checkVars
<1>3. CASE ApplyFirst
  BY <1>3 DEF ApplyFirst, Alive, TypeOK, tunnelVars, checkerVars, checkVars
<1>4. CASE AppliedFirst
  <2>1. hist' \in [Groups -> Hist]
    <3>1. restores' \in [Groups -> Restore]
      BY <1>4, RestartedTypeOK DEF AppliedFirst
    <3>2. \A g \in Groups : restores'[g].origin \in NodeOrNone /\ selected[g] \in NodeOrNone
      BY <3>1 DEF TypeOK, Restore
    <3>. QED BY <1>4, <3>2, BegunTypes DEF AppliedFirst
  <2>. QED BY <1>4, <2>1, RestartedTypeOK DEF AppliedFirst, TypeOK
<1>5. CASE SuspendBegin \/ SuspendEnd \/ StopBegin \/ StopEnd
  BY <1>5
     DEF SuspendBegin, SuspendEnd, StopBegin, StopEnd, Alive, TypeOK, tunnelVars, serviceVars,
         checkerVars, checkVars
<1>. QED BY <1>1, <1>2, <1>3, <1>4, <1>5 DEF EngineStep

\* Every step of a control request keeps the types.
LEMMA RequestTypeOK == ASSUME TypeOK, NEW c \in Clients, Request(c) PROVE TypeOK'
<1>1. /\ mutations' \in Clients \cup {None, "checker"}
      /\ lifecycle' \in Clients \cup {None, "engine"}
      /\ request' \in [Clients -> RequestStages]
  BY DEF Request, Begin, Reject, ManualSelect, Rebuild, PutConfig, Apply, Patch, Abort,
         Restart, Restarted, Done, TypeOK, RequestStages
<1>2. CASE Begin(c) \/ Reject(c)
  BY <1>1, <1>2
     DEF Begin, Reject, TypeOK, tunnelVars, serviceVars, checkerVars, checkVars
<1>3. CASE ManualSelect(c)
  <2>1. PICK g \in Groups : \E n \in members[g] :
           /\ selected' = [selected EXCEPT ![g] = n]
           /\ IF n = selected[g] THEN hist' = [hist EXCEPT ![g].fresh = TRUE]
              ELSE MovedByOthers(selected', TRUE)
    BY <1>3 DEF ManualSelect
  <2>2. selected' \in [Groups -> NodeOrNone]
    BY <2>1 DEF TypeOK, NodeOrNone
  <2>3. [hist EXCEPT ![g].fresh = TRUE] \in [Groups -> Hist]
    BY DEF TypeOK, Hist
  <2>4. hist' \in [Groups -> Hist]
    BY <2>1, <2>2, <2>3, MovedTypeOK
  <2>. QED
    BY <1>1, <1>3, <2>2, <2>4
       DEF ManualSelect, TypeOK, serviceVars, checkerVars, checkVars
<1>4. CASE Rebuild(c) \/ PutConfig(c)
  <2>1. InstallRoutes
    BY <1>4 DEF Rebuild, PutConfig
  <2>. QED
    BY <1>1, <1>4, <2>1, InstallTypeOK
       DEF Rebuild, PutConfig, TypeOK, serviceVars, checkerVars, checkVars
<1>5. CASE Apply(c) \/ Patch(c)
  BY <1>1, <1>5
     DEF Apply, Patch, Patched, TypeOK, tunnelVars, checkerVars, checkVars
<1>6. CASE Abort(c)
  BY <1>1, <1>6
     DEF Abort, Alive, TypeOK, tunnelVars, serviceVars, checkerVars, checkVars
<1>7. CASE Restart(c)
  <2>1. hist' \in [Groups -> Hist]
    BY <1>7, NoneTypes DEF Restart, TypeOK
  <2>. QED
    BY <1>1, <1>7, <2>1, RestartedTypeOK DEF Restart, TypeOK
<1>. QED BY <1>2, <1>3, <1>4, <1>5, <1>6, <1>7 DEF Request

\* Every reachable state is well typed.
THEOREM TypeCorrect == Spec => []TypeOK
<1>1. ASSUME TypeOK, [Next]_vars PROVE TypeOK'
  <2>1. CASE CheckerStep
    BY <1>1, <2>1, RoundTypeOK, CheckRestoreTypeOK, ProbeOriginTypeOK, ObserveTypeOK,
       ProbeCurrentTypeOK, ScanTypeOK, SelectTypeOK, RememberTypeOK, DieTypeOK
       DEF CheckerStep
  <2>2. CASE \E c \in Clients : Request(c)
    BY <1>1, <2>2, RequestTypeOK
  <2>3. CASE EngineStep \/ SuspendBegin \/ StopBegin
    BY <1>1, <2>3, EngineTypeOK
  <2>4. CASE DropRuntime
    BY <1>1, <2>4, DieTypeOK
  <2>5. CASE Environment
    BY <1>1, <2>5, EnvironmentTypeOK
  <2>6. CASE UNCHANGED vars
    BY <1>1, <2>6 DEF vars, TypeOK, tunnelVars, serviceVars, checkVars, histVars
  <2>. QED BY <1>1, <2>1, <2>2, <2>3, <2>4, <2>5, <2>6 DEF Next, Ended
<1>. QED BY <1>1, InitTypeOK, PTL DEF Spec

-----------------------------------------------------------------------------
(* The locks *)

\* A session starts with nobody holding the mutations lock.
LEMMA InitLockInv == Init => LockInv
BY ConstantsOK DEF Init, LockInv, InSelect

\* A request takes the mutations lock only when it is free and gives it back
\* only when it ends; none of its steps touches the checker's hold on it.
LEMMA RequestLockInv == ASSUME TypeOK, LockInv, NEW c \in Clients, Request(c)
                       PROVE  LockInv'
<1>1. (~InSelect /\ mutations # "checker") \/ Begin(c)
  BY ConstantsOK
     DEF LockInv, InSelect, Request, Reject, ManualSelect, Rebuild, PutConfig, Apply,
         Patch, Abort, Restart
<1>2. CASE Begin(c)
  BY <1>2, ConstantsOK DEF Begin, MutationsFree, LockInv, InSelect, checkerVars, TypeOK
<1>3. CASE Reject(c) \/ ManualSelect(c) \/ Rebuild(c)
  <2>1. Done(c) /\ UNCHANGED pc /\ mutations = c
    BY <1>3 DEF Reject, ManualSelect, Rebuild, checkerVars, LockInv
  <2>. QED BY <2>1, ConstantsOK DEF Done, LockInv, InSelect, TypeOK
<1>4. CASE PutConfig(c) \/ Apply(c) \/ Patch(c) \/ Abort(c)
  BY <1>4, ConstantsOK
     DEF PutConfig, Apply, Patch, Abort, LockInv, InSelect, checkerVars, TypeOK
<1>5. CASE Restart(c)
  <2>1. Done(c) /\ pc = "dead" /\ pc' \in {"spawned", "dead"} /\ mutations = c
    BY <1>5 DEF Restart, Restarted, Alive, LockInv
  <2>. QED BY <2>1, ConstantsOK DEF Done, LockInv, InSelect, TypeOK
<1>. QED BY <1>2, <1>3, <1>4, <1>5 DEF Request

\* The checker holds the mutations lock exactly inside select(): on every path
\* out of it, and when it is aborted there, the lock is dropped.
LEMMA CheckerLockInv == ASSUME TypeOK, LockInv, CheckerStep PROVE LockInv'
<1>1. UNCHANGED request
  BY DEF CheckerStep, StartRound, EndRound, CheckRestore, ProbeOrigin, Observe,
         ProbeCurrent, Scan, Lock, Compare, Set, Return, Remember, Die
<1>2. CASE StartRound \/ EndRound \/ \E g \in Groups : CheckRestore(g)
  BY <1>1, <1>2 DEF StartRound, EndRound, CheckRestore, LockInv, InSelect
<1>3. CASE ProbeOrigin \/ Observe \/ ProbeCurrent \/ Scan \/ Remember
  BY <1>1, <1>3
     DEF ProbeOrigin, Observe, ProbeCurrent, Scan, Remember, LeaveCheck, LockInv,
         InSelect
<1>4. CASE Lock
  BY <1>1, <1>4, ConstantsOK DEF Lock, MutationsFree, LockInv, InSelect
<1>5. CASE Compare \/ Set \/ Return
  BY <1>1, <1>5, ConstantsOK
     DEF Compare, Set, Return, GiveUp, LeaveCheck, LockInv, InSelect
<1>6. CASE Die
  BY <1>1, <1>6, ConstantsOK DEF Die, LeaveCheck, LockInv, InSelect
<1>. QED BY <1>2, <1>3, <1>4, <1>5, <1>6 DEF CheckerStep

\* The mutations lock excludes: the checker inside select() and the requests
\* of the control API are never between their first and last step together (the
\* comment on Service.mutations).
THEOREM LockCorrect == Spec => []LockInv
<1>1. ASSUME TypeOK, LockInv, [Next]_vars PROVE LockInv'
  <2>1. CASE SeedOverride \/ SeedRestores \/ ApplyFirst \/ SuspendBegin \/ SuspendEnd
               \/ StopBegin \/ StopEnd \/ Environment
    BY <1>1, <2>1
       DEF SeedOverride, SeedRestores, ApplyFirst, SuspendBegin, SuspendEnd, StopBegin, StopEnd,
           Environment, ProviderRefresh, ChangeWeather, LockInv, InSelect, checkerVars
  <2>4. CASE AppliedFirst
    <3>1. pc = "dead" /\ pc' \in {"spawned", "dead"} /\ UNCHANGED <<mutations, request>>
      BY <2>4 DEF AppliedFirst, Restarted, Alive
    <3>. QED BY <1>1, <3>1 DEF LockInv, InSelect
  <2>2. CASE DropRuntime
    BY <1>1, <2>2, ConstantsOK DEF DropRuntime, LeaveCheck, LockInv, InSelect
  <2>3. CASE UNCHANGED vars
    BY <1>1, <2>3 DEF vars, LockInv, InSelect
  <2>. QED
    BY <1>1, <2>1, <2>2, <2>3, <2>4, CheckerLockInv, RequestLockInv DEF Next, EngineStep, Ended
<1>. QED BY <1>1, InitLockInv, TypeCorrect, PTL DEF Spec

-----------------------------------------------------------------------------
(* What select() compared stays true until it acts *)

\* The checker is about to change the selection it compared under both locks.
Compared ==
    pc = "set" => /\ gen = seen
                  /\ hist[group].fresh => selected[group] = from

\* A provider refresh that moves the selection is no manual choice.
LEMMA MovedKeepsCompared ==
    ASSUME TypeOK, MovedByOthers(selected', FALSE), UNCHANGED <<group, from>>,
           hist[group].fresh => selected[group] = from
    PROVE  hist'[group].fresh => selected'[group] = from
BY DEF MovedByOthers, TypeOK

\* Between the comparison in select() and the change that follows it, no
\* request gets in: the comparison stays true, though a refresh may move the
\* selection.
THEOREM ComparedHolds == Spec => []Compared
<1>1. Init => Compared
  BY DEF Init, Compared
<1>2. ASSUME TypeOK, LockInv, Compared, [Next]_vars PROVE Compared'
  <2>1. CASE CheckerStep
    BY <1>2, <2>1
       DEF CheckerStep, StartRound, EndRound, CheckRestore, ProbeOrigin, Observe,
           ProbeCurrent, Scan, Lock, Compare, Unchanged, Set, GiveUp, Return, Remember,
           Die, LeaveCheck, Compared, tunnelVars
  <2>2. ASSUME NEW c \in Clients, Request(c) PROVE Compared'
    <3>1. pc # "set"
      BY <1>2, <2>2, ConstantsOK
         DEF LockInv, InSelect, Request, Begin, MutationsFree, Reject, ManualSelect,
             Rebuild, PutConfig, Apply, Patch, Abort, Restart
    <3>2. pc' # "set"
      BY <2>2, <3>1
         DEF Request, Begin, Reject, ManualSelect, Rebuild, PutConfig, Apply, Patch,
             Abort, Restart, Restarted, checkerVars
    <3>. QED BY <3>2 DEF Compared
  <2>3. CASE SeedOverride \/ SeedRestores \/ ApplyFirst \/ SuspendBegin \/ SuspendEnd
               \/ StopBegin \/ StopEnd \/ ChangeWeather
    BY <1>2, <2>3
       DEF SeedOverride, SeedRestores, ApplyFirst, SuspendBegin, SuspendEnd, StopBegin, StopEnd,
           ChangeWeather, Compared, tunnelVars, checkerVars, checkVars, histVars
  <2>7. CASE AppliedFirst
    BY <2>7 DEF AppliedFirst, Restarted, Compared
  <2>4. CASE \E g \in Groups : ProviderRefresh(g)
    BY <1>2, <2>4, MovedKeepsCompared DEF ProviderRefresh, Compared, checkVars
  <2>5. CASE DropRuntime
    BY <2>5 DEF DropRuntime, LeaveCheck, Compared
  <2>6. CASE UNCHANGED vars
    BY <1>2, <2>6 DEF vars, tunnelVars, checkVars, histVars, Compared
  <2>. QED
    BY <1>2, <2>1, <2>2, <2>3, <2>4, <2>5, <2>6, <2>7 DEF Next, EngineStep, Ended, Environment
<1>. QED BY <1>1, <1>2, TypeCorrect, LockCorrect, PTL DEF Spec

\* A manual choice made after the checker read the group is never overwritten
\* by an automatic change (select() compares under both locks).
THEOREM ManualChoiceWins == Spec => ManualWins
<1>1. ASSUME Compared, [Next]_vars
      PROVE  [Commits /\ hist[group].fresh => selected[group] = from]_vars
  BY <1>1 DEF Compared, Commits
<1>. QED BY <1>1, ComparedHolds, PTL DEF Spec, ManualWins

-----------------------------------------------------------------------------
(* Pending restores, and the nodes of a change in progress *)

\* Where `group` is the group being checked, and where a change of it is decided.
CheckPoints == {"probeOrigin", "observe", "probeCurrent", "scan", "lock", "configLock",
                "set", "committed", "remember"}
ChangePoints == {"lock", "configLock", "set", "committed", "remember"}

\* RestoresAllowed, and what makes it inductive: restores are kept apart from their
\* absence, a task runs only for settings that ask for one, a round visits only
\* listed groups, and the nodes of a change in progress are two different leaves.
RestoreInv ==
    /\ RestoresAllowed
    /\ \A g \in Groups : ~Pending(g) => restores[g].target = None
    /\ IF Alive THEN Runs(settings) ELSE todo = {}
    /\ todo \subseteq settings.groups
    /\ pc \in CheckPoints => group \in settings.groups
    /\ kind = "switch" /\ pc \in {"probeCurrent", "scan"} \cup ChangePoints
       => from \in Leaves
    /\ pc = "probeOrigin" => kind = "restore" /\ from \in Leaves
    /\ pc = "probeOrigin" /\ engine \notin TakingOver => Pending(group)
    /\ pc \in {"probeCurrent", "scan"} => kind = "switch"
    /\ pc = "scan" => candidates \subseteq Leaves \ {from}
    /\ pc \in {"probeOrigin"} \cup ChangePoints => to \in Leaves \ {from}

\* A session starts with restores that its settings allow, or with none.
LEMMA InitRestore == Init => RestoreInv
<1> SUFFICES ASSUME Init PROVE RestoreInv
  OBVIOUS
<1>1. \A g \in Groups : \/ restores[g] = NoRestore
                         \/ /\ Keeps(settings, g) /\ restores[g].origin # restores[g].target
                            /\ {restores[g].origin, restores[g].target} \subseteq Leaves
  <2>1. CASE Serving
    BY <2>1 DEF Serving
  <2>2. CASE Started
    <3>1. PICK begun \in Saved \cup {[override |-> None, restores |-> [g \in Groups |-> NoRestore]]} :
             restores = [g \in Groups |-> IF Keeps(settings, g) THEN begun.restores[g] ELSE NoRestore]
      BY <2>2 DEF Started
    <3>2. \A g \in Groups : \/ begun.restores[g] = NoRestore
                             \/ /\ begun.restores[g].origin # begun.restores[g].target
                                /\ {begun.restores[g].origin, begun.restores[g].target} \subseteq Leaves
      <4>1. CASE begun \in Saved
        BY <4>1, SavedTypes
      <4>2. CASE begun = [override |-> None, restores |-> [g \in Groups |-> NoRestore]]
        BY <4>2
      <4>. QED BY <4>1, <4>2
    <3>. QED BY <3>1, <3>2
  <2>. QED BY <2>1, <2>2 DEF Init
<1>2. RestoresAllowed /\ \A g \in Groups : ~Pending(g) => restores[g].target = None
  BY <1>1, ConstantsOK DEF RestoresAllowed, Pending, NoRestore, Keeps
<1>. QED BY <1>2 DEF Init, RestoreInv, Alive, Runs, CheckPoints, ChangePoints

\* What restart() leaves of the restores is what its settings allow.
LEMMA RestartedRestore == ASSUME TypeOK, RestoreInv, Restarted PROVE RestoreInv'
<1>1. ASSUME NEW g \in Groups
      PROVE  restores'[g] = NoRestore \/ (restores'[g] = restores[g] /\ Keeps(settings', g))
  BY DEF Restarted, Keeps
<1>2. RestoresAllowed' /\ \A g \in Groups : restores'[g].origin = None => restores'[g].target = None
  BY <1>1, ConstantsOK DEF RestoreInv, RestoresAllowed, Pending, NoRestore, Keeps
<1>3. /\ pc' = IF Runs(settings') THEN "spawned" ELSE "dead"
      /\ todo = {} /\ todo' = {}
  BY DEF Restarted, RestoreInv, checkVars
<1>. QED BY <1>2, <1>3 DEF RestoreInv, Pending, Alive, CheckPoints, ChangePoints

\* What the engine does to the restores of a session.
LEMMA EngineRestore ==
    ASSUME TypeOK, RestoreInv, EngineStep \/ SuspendBegin \/ StopBegin PROVE RestoreInv'
<1>1. CASE SeedRestores
  <2>1. \A g \in Groups : \/ restores'[g] = NoRestore
                           \/ /\ restores'[g].origin # restores'[g].target
                              /\ {restores'[g].origin, restores'[g].target} \subseteq Leaves
    BY <1>1, SavedTypes DEF SeedRestores, TypeOK
  <2>2. RestoresAllowed' /\ \A g \in Groups : restores'[g].origin = None => restores'[g].target = None
    BY <1>1, <2>1, ConstantsOK DEF SeedRestores, RestoresAllowed, Pending, NoRestore, TakingOver
  <2>. QED BY <1>1, <2>2
    DEF SeedRestores, RestoreInv, Pending, Alive, Runs, CheckPoints, ChangePoints, checkerVars,
        checkVars, TakingOver
<1>2. CASE AppliedFirst
  BY <1>2, RestartedRestore DEF AppliedFirst
<1>3. CASE SeedOverride \/ ApplyFirst \/ SuspendBegin \/ SuspendEnd \/ StopBegin \/ StopEnd
  <2>1. UNCHANGED <<restores, settings, pc, checkVars>>
    BY <1>3 DEF SeedOverride, ApplyFirst, SuspendBegin, SuspendEnd, StopBegin, StopEnd,
                checkerVars, serviceVars
  <2>2. engine \in TakingOver => engine' \in TakingOver
    BY <1>3 DEF SeedOverride, ApplyFirst, SuspendBegin, SuspendEnd, StopBegin, StopEnd, TakingOver
  <2>. QED BY <2>1, <2>2
    DEF RestoreInv, RestoresAllowed, Pending, Alive, Runs, CheckPoints, ChangePoints, checkVars
<1>. QED BY <1>1, <1>2, <1>3 DEF EngineStep

\* What a check makes of the restore it has read: another count, or none.
LEMMA CheckedPicked ==
    ASSUME TypeOK, ProbeOrigin
    PROVE  \E r \in Checked(group) :
              \/ \E n \in Nat : restores' = [restores EXCEPT ![group] = [r EXCEPT !.successes = n]]
              \/ restores' = [restores EXCEPT ![group] = NoRestore]
<1>1. PICK ok \in Healthy(to), r \in Checked(group) :
        \/ restores' = [restores EXCEPT ![group] = [r EXCEPT !.successes = Successes(r, ok)]]
        \/ restores' = [restores EXCEPT ![group] = NoRestore]
  BY DEF ProbeOrigin
<1>2. r \in Restore
  BY DEF Checked, TypeOK, Restore
<1>3. Successes(r, ok) \in Nat
  BY <1>2, ConstantsOK DEF Successes, Restore
<1>. QED BY <1>1, <1>3

\* What the checker carries through a round is consistent with the settings
\* that started it, whatever requests, refreshes and aborts come between.
THEOREM RestoreInvHolds == Spec => []RestoreInv
<1>1. Init => RestoreInv
  BY InitRestore
<1>2. ASSUME TypeOK, RestoreInv, [Next]_vars PROVE RestoreInv'
  <2>1. CASE StartRound \/ EndRound
    BY <1>2, <2>1
       DEF StartRound, EndRound, RestoreInv, RestoresAllowed, Pending, Alive, Runs,
           CheckPoints, ChangePoints, checkVars, AwaitPoints
  <2>2. ASSUME NEW g \in Groups, CheckRestore(g) PROVE RestoreInv'
    BY <1>2, <2>2
       DEF CheckRestore, RestoreInv, RestoresAllowed, Pending, NoRestore, Alive, Runs,
           CheckPoints, ChangePoints, serviceVars, TypeOK, Leaf
  <2>3. CASE ProbeOrigin
    <3>1. \/ LeaveCheck("observe")
          \/ pc' = "lock" /\ UNCHANGED <<kind, from, to, seen, candidates>>
      BY <2>3 DEF ProbeOrigin
    <3>2. \A g \in Groups : \/ restores'[g] = NoRestore
                            \/ /\ restores'[g].origin = restores[g].origin
                               /\ restores'[g].target = restores[g].target
                            \/ /\ engine \in TakingOver
                               /\ restores'[g].origin = to /\ restores'[g].target = from
      <4>1. PICK r \in Checked(group) :
            \/ \E n \in Nat : restores' = [restores EXCEPT ![group] = [r EXCEPT !.successes = n]]
            \/ restores' = [restores EXCEPT ![group] = NoRestore]
        BY <1>2, <2>3, CheckedPicked
      <4>2. r \in Restore
        BY <1>2 DEF Checked, TypeOK, Restore
      <4>3. \A n \in Nat : /\ [r EXCEPT !.successes = n].origin = r.origin
                          /\ [r EXCEPT !.successes = n].target = r.target
        BY <4>2 DEF Restore
      <4>4. \/ r = restores[group]
            \/ engine \in TakingOver /\ r.origin = to /\ r.target = from
        BY DEF Checked
      <4>. QED BY <1>2, <4>1, <4>3, <4>4 DEF TypeOK
    <3>3. to \in Leaves \ {from} /\ from \in Leaves /\ to # None /\ UNCHANGED <<engine, settings>>
      BY <1>2, <2>3, ConstantsOK DEF ProbeOrigin, RestoreInv, serviceVars
    <3>5. RestoresAllowed'
      BY <1>2, <3>2, <3>3 DEF RestoreInv, RestoresAllowed, Pending, NoRestore
    <3>4. (\A g \in Groups : ~Pending(g) => restores[g].target = None)'
      BY <1>2, <3>2, <3>3 DEF RestoreInv, Pending, NoRestore
    <3>. QED
      BY <1>2, <2>3, <3>1, <3>5, <3>4
         DEF ProbeOrigin, LeaveCheck, RestoreInv, Alive, Runs, CheckPoints,
             ChangePoints, serviceVars
  <2>4. CASE Observe
    BY <1>2, <2>4
       DEF Observe, LeaveCheck, RestoreInv, RestoresAllowed, Pending, NoRestore, Alive,
           Runs, CheckPoints, ChangePoints, serviceVars, TypeOK, Leaf
  <2>5. CASE ProbeCurrent
    <3>1. \/ LeaveCheck("pick")
          \/ /\ pc' = "scan" /\ candidates' \in Scannable(group, from)
             /\ UNCHANGED <<kind, from, to, seen>>
      BY <2>5 DEF ProbeCurrent
    <3>2. \A x \in Scannable(group, from) : x \subseteq Leaves \ {from}
      BY DEF Scannable
    <3>. QED
     BY <1>2, <2>5, <3>1, <3>2
       DEF ProbeCurrent, LeaveCheck, RestoreInv, RestoresAllowed, Pending, NoRestore,
           Alive, Runs, CheckPoints, ChangePoints, serviceVars, TypeOK, Scannable
  <2>6. CASE Scan
    BY <1>2, <2>6
       DEF Scan, LeaveCheck, RestoreInv, RestoresAllowed, Pending, NoRestore, Alive,
           Runs, CheckPoints, ChangePoints, serviceVars, TypeOK, Found
  <2>7. CASE Lock \/ Compare \/ Set \/ Return
    BY <1>2, <2>7
       DEF Lock, Compare, Set, Return, GiveUp, LeaveCheck, RestoreInv, RestoresAllowed,
           Pending, NoRestore, Alive, Runs, CheckPoints, ChangePoints, serviceVars,
           checkVars
  <2>8. CASE Remember
    <3>1. ASSUME kind = "switch"
          PROVE  \/ restores' = restores
                 \/ /\ settings.restore
                    /\ \/ restores' = [restores EXCEPT ![group] = NoRestore]
                       \/ \E origin \in Leaves \ {to} :
                            restores' = [restores EXCEPT ![group] = [origin |-> origin, target |-> to,
                                                                     successes |-> 0]]
      <4> DEFINE origin == IF restores[group].target = from THEN restores[group].origin
                       ELSE from
      <4>1. from \in Leaves /\ from # None
        BY <1>2, <2>8, <3>1, ConstantsOK DEF RestoreInv, Remember, ChangePoints
      <4>2. origin \in Leaves
        BY <1>2, <4>1 DEF RestoreInv, RestoresAllowed, Pending, TypeOK
      <4>. QED BY <2>8, <3>1, <4>2 DEF Remember, RememberOrigin
    <3>2. restores' = restores \/ kind = "switch"
      BY <2>8 DEF Remember
    <3>3. to \in Leaves \ {None} /\ group \in settings.groups /\ settings.enable
      BY <1>2, <2>8, ConstantsOK
         DEF RestoreInv, Remember, ChangePoints, CheckPoints, Alive, Runs
    <3>4. \A g \in Groups :
             \/ restores'[g] = restores[g]
             \/ restores'[g] = NoRestore
             \/ /\ settings.restore /\ g = group
                /\ restores'[g].origin \in Leaves \ {to} /\ restores'[g].target = to
      BY <1>2, <3>1, <3>2 DEF TypeOK
    <3>5. RestoresAllowed'
      BY <1>2, <2>8, <3>3, <3>4
         DEF Remember, RestoreInv, RestoresAllowed, Pending, NoRestore, serviceVars
    <3>6. (\A g \in Groups : ~Pending(g) => restores[g].target = None)'
      BY <1>2, <3>4, ConstantsOK DEF RestoreInv, Pending, NoRestore
    <3>. QED
      BY <1>2, <2>8, <3>5, <3>6
         DEF Remember, LeaveCheck, RestoreInv, Alive, Runs, CheckPoints, ChangePoints,
             serviceVars
  <2>9. CASE Die \/ DropRuntime
    BY <1>2, <2>9
       DEF Die, DropRuntime, LeaveCheck, RestoreInv, RestoresAllowed, Pending,
           NoRestore, Alive, Runs, CheckPoints, ChangePoints, serviceVars, TakingOver
  <2>10. ASSUME NEW c \in Clients, Restart(c) PROVE RestoreInv'
    BY <1>2, <2>10, RestartedRestore DEF Restart
  <2>11. ASSUME NEW c \in Clients, Request(c), ~Restart(c) PROVE RestoreInv'
    BY <1>2, <2>11
       DEF Request, Begin, Reject, ManualSelect, Rebuild, PutConfig, Apply, Patch,
           Abort, RestoreInv, RestoresAllowed, Pending, NoRestore, Alive, Runs,
           CheckPoints, ChangePoints, checkVars, serviceVars, checkerVars
  <2>12. CASE Environment
    BY <1>2, <2>12
       DEF Environment, ProviderRefresh, ChangeWeather, RestoreInv,
           RestoresAllowed, Pending, NoRestore, Alive, Runs, CheckPoints, ChangePoints,
           checkVars, serviceVars
  <2>14. CASE EngineStep \/ SuspendBegin \/ StopBegin
    BY <1>2, <2>14, EngineRestore
  <2>13. CASE UNCHANGED vars
    BY <1>2, <2>13
       DEF vars, RestoreInv, RestoresAllowed, Pending, Alive, Runs, CheckPoints,
           ChangePoints, checkVars, serviceVars
  <2>. QED
    BY <1>2, <2>1, <2>2, <2>3, <2>4, <2>5, <2>6, <2>7, <2>8, <2>9, <2>10, <2>11,
       <2>12, <2>13, <2>14 DEF Next, Ended, CheckerStep
<1>. QED BY <1>1, <1>2, TypeCorrect, PTL DEF Spec

\* A disabled or unlisted group is never switched back: no restart, stop,
\* abort or round leaves a pending restore the settings do not allow.
THEOREM RestoresStayAllowed == Spec => []RestoresAllowed
<1>1. RestoreInv => RestoresAllowed
  BY DEF RestoreInv
<1>. QED BY <1>1, RestoreInvHolds, PTL

\* select() changes a selection only in the route table whose nodes were
\* probed, and only to a live leaf member (the ptr_eq comparison in select()).
THEOREM TableIsTheOneProbed == Spec => NoStaleTable
<1>1. ASSUME Compared, RestoreInv, [Next]_vars
      PROVE  [Commits => gen = seen /\ to \in members[group] /\ to \in Leaves]_vars
  <2>1. SUFFICES ASSUME Commits PROVE gen = seen /\ to \in members[group] /\ to \in Leaves
    OBVIOUS
  <2>2. gen = seen /\ to \in Leaves
    BY <1>1, <2>1 DEF Commits, Compared, RestoreInv, ChangePoints
  <2>3. Set
    BY <1>1, <2>1
       DEF Commits, Next, CheckerStep, StartRound, EndRound, CheckRestore, ProbeOrigin,
           Observe, ProbeCurrent, Scan, Lock, Compare, Return, Remember, Die,
           AwaitPoints, Request, Begin, Reject, ManualSelect, Rebuild, PutConfig, Apply,
           Patch, Abort, Restart, Restarted, checkerVars, EngineStep, SeedOverride,
           SeedRestores, ApplyFirst, AppliedFirst, SuspendBegin, SuspendEnd, StopBegin,
           StopEnd, DropRuntime, Ended, Environment, ProviderRefresh, ChangeWeather,
           LeaveCheck, vars
  <2>. QED BY <2>1, <2>2, <2>3 DEF Set, Commits, GiveUp, LeaveCheck
<1>. QED BY <1>1, ComparedHolds, RestoreInvHolds, PTL DEF Spec, NoStaleTable

-----------------------------------------------------------------------------
(* Restart and stop *)

\* Who holds the lifecycle lock, and what holds while nobody does.
LifecycleInv ==
    /\ \A c \in Clients : request[c] \in {"abort", "join"} <=> lifecycle = c
    /\ engine \in Joining <=> lifecycle = "engine"
    /\ cancelled => Alive /\ lifecycle # None
    /\ Alive => /\ Runs(settings)
                /\ phase = CASE pc = "spawned" -> "stopped"
                             [] pc = "sleep" -> "waiting"
                             [] OTHER -> "checking"
    /\ lifecycle = None /\ ~Alive /\ engine \notin {"suspended", "down"} => phase = "stopped"
    /\ lifecycle = None /\ ~Alive /\ engine = "up" => ~Runs(settings)
    /\ lifecycle \notin Clients /\ override # None /\ engine \notin Starting \cup {"down"}
       => settings = override
    /\ engine = "down" => ~Alive /\ \A c \in Clients : request[c] = "idle"

\* A session starts with no restart and no stop under way.
LEMMA InitLifecycle == Init => LifecycleInv
<1> SUFFICES ASSUME Init PROVE LifecycleInv
  OBVIOUS
<1>1. engine \in {"serving", "up"} /\ (engine = "up" => settings = Effective)
  BY DEF Init, Serving, Started
<1>. QED BY <1>1, ConstantsOK
  DEF Init, LifecycleInv, Alive, Effective, Starting, Joining

\* The checker changes the phase as its own progress does, and nothing else of
\* the service; its death leaves the restart or stop that waits for it.
LEMMA CheckerLifecycle == ASSUME TypeOK, LifecycleInv, CheckerStep PROVE LifecycleInv'
<1>1. UNCHANGED <<request, engine, lifecycle, override, settings>> /\ Alive
  BY DEF CheckerStep, StartRound, EndRound, CheckRestore, ProbeOrigin, Observe,
         ProbeCurrent, Scan, Lock, Compare, Set, Return, Remember, Die, serviceVars,
         Alive, AwaitPoints
<1>2. CASE StartRound \/ EndRound
  BY <1>1, <1>2 DEF StartRound, EndRound, LifecycleInv, Alive
<1>3. CASE Die
  BY <1>1, <1>3 DEF Die, LeaveCheck, LifecycleInv, Alive
<1>4. CASE ~(StartRound \/ EndRound \/ Die)
  <2>1. /\ UNCHANGED <<phase, cancelled>>
        /\ pc \notin {"spawned", "sleep"} /\ pc' \notin {"dead", "spawned", "sleep"}
    BY <1>1, <1>4
       DEF CheckerStep, CheckRestore, ProbeOrigin, Observe, ProbeCurrent, Scan, Lock,
           Compare, Set, GiveUp, Return, Remember, LeaveCheck, serviceVars
  <2>. QED BY <1>1, <2>1 DEF LifecycleInv, Alive
<1>. QED BY <1>2, <1>3, <1>4

\* A request keeps the lifecycle invariant: restart() installs settings and
\* phase together with the new task, in the step that ends its hold on the lock.
LEMMA RequestLifecycle ==
    ASSUME TypeOK, LifecycleInv, NEW c \in Clients, Request(c) PROVE LifecycleInv'
<1>1. CASE Begin(c) \/ Reject(c) \/ ManualSelect(c) \/ Rebuild(c) \/ PutConfig(c)
  <2>1. UNCHANGED <<pc, phase, cancelled, engine, lifecycle, override, settings>>
    BY <1>1
       DEF Begin, Reject, ManualSelect, Rebuild, PutConfig, serviceVars, checkerVars
  <2>2. \E r \in {"idle", "select", "patch", "put", "rebuild", "apply"} :
           request' = [request EXCEPT ![c] = r]
    BY <1>1 DEF Begin, Reject, ManualSelect, Rebuild, PutConfig, Done
  <2>3. request[c] \notin {"abort", "join"}
    BY <1>1 DEF Begin, Reject, ManualSelect, Rebuild, PutConfig
  <2>4. engine # "down"
    BY <1>1 DEF Begin, Reject, ManualSelect, Rebuild, PutConfig, LifecycleInv
  <2>. QED BY <2>1, <2>2, <2>3, <2>4 DEF LifecycleInv, Alive, TypeOK
<1>2. CASE Apply(c) \/ Patch(c)
  <2>1. UNCHANGED <<pc, phase, cancelled, engine, settings>>
    BY <1>2 DEF Apply, Patch, checkerVars
  <2>2. /\ lifecycle = None /\ lifecycle' = c /\ engine # "down"
        /\ request' = [request EXCEPT ![c] = "abort"]
    BY <1>2 DEF Apply, Patch, LifecycleInv
  <2>. QED BY <2>1, <2>2, ConstantsOK DEF LifecycleInv, Alive, TypeOK
<1>3. CASE Abort(c)
  BY <1>3, ConstantsOK DEF Abort, LifecycleInv, Alive, TypeOK, serviceVars, checkerVars
<1>4. CASE Restart(c)
  <2>1. override # None => settings' = override
    BY <1>4 DEF Restart, Restarted, Effective
  <2>2. \A d \in Clients : request'[d] \notin {"abort", "join"}
    BY <1>4, ConstantsOK DEF Restart, Done, LifecycleInv, TypeOK
  <2>3. engine \notin Joining /\ engine # "down" /\ ~cancelled
    BY <1>4, ConstantsOK DEF Restart, Restarted, LifecycleInv
  <2>4. /\ lifecycle' = None /\ phase' = "stopped"
        /\ UNCHANGED <<override, engine, cancelled>>
    BY <1>4 DEF Restart, Restarted
  <2>5. pc' = IF Runs(settings') THEN "spawned" ELSE "dead"
    BY <1>4 DEF Restart, Restarted
  <2>. QED BY <2>1, <2>2, <2>3, <2>4, <2>5, ConstantsOK DEF LifecycleInv, Alive
<1>. QED BY <1>1, <1>2, <1>3, <1>4 DEF Request

\* The engine keeps the lifecycle invariant: in its own joins nobody else holds the
\* lock, and outside of them it touches neither the settings nor the task.
LEMMA EngineLifecycle ==
    ASSUME TypeOK, LifecycleInv, EngineStep \/ SuspendBegin \/ StopBegin \/ DropRuntime
    PROVE  LifecycleInv'
<1> USE DEF Joining, Starting
<1>1. CASE SuspendBegin \/ StopBegin
  BY <1>1, ConstantsOK
     DEF SuspendBegin, StopBegin, LifecycleInv, Alive, TypeOK, serviceVars, checkerVars
<1>2. CASE SuspendEnd \/ StopEnd
  BY <1>2, ConstantsOK
     DEF SuspendEnd, StopEnd, LifecycleInv, Alive, TypeOK, serviceVars, checkerVars
<1>3. CASE DropRuntime
  BY <1>3, ConstantsOK
     DEF DropRuntime, LeaveCheck, LifecycleInv, Alive, TypeOK, serviceVars
<1>4. CASE SeedOverride \/ SeedRestores \/ ApplyFirst
  BY <1>4, ConstantsOK
     DEF SeedOverride, SeedRestores, ApplyFirst, LifecycleInv, Alive, TypeOK, checkerVars
<1>5. CASE AppliedFirst
  <2>1. /\ lifecycle = "engine" /\ ~cancelled
        /\ lifecycle' = None /\ phase' = "stopped" /\ engine' = "up"
        /\ UNCHANGED <<override, request, cancelled>>
    BY <1>5 DEF AppliedFirst, Restarted, LifecycleInv
  <2>2. /\ pc' = IF Runs(settings') THEN "spawned" ELSE "dead"
        /\ override # None => settings' = override
    BY <1>5 DEF AppliedFirst, Restarted, Effective
  <2>3. \A c \in Clients : request[c] \notin {"abort", "join"}
    BY <2>1, ConstantsOK DEF LifecycleInv
  <2>. QED BY <2>1, <2>2, <2>3, ConstantsOK DEF LifecycleInv, Alive
<1>. QED BY <1>1, <1>2, <1>3, <1>4, <1>5 DEF EngineStep

\* restart() and stop() exclude each other and leave no gap between the
\* settings, the task and the phase when they are done.
THEOREM LifecycleHolds == Spec => []LifecycleInv
<1>1. Init => LifecycleInv
  BY InitLifecycle
<1>2. TypeOK /\ LifecycleInv /\ [Next]_vars => LifecycleInv'
  <2>. SUFFICES ASSUME TypeOK, LifecycleInv, [Next]_vars PROVE LifecycleInv'
    OBVIOUS
  <2>1. CASE CheckerStep
    BY <2>1, CheckerLifecycle
  <2>2. CASE \E c \in Clients : Request(c)
    BY <2>2, RequestLifecycle
  <2>3. CASE EngineStep \/ SuspendBegin \/ StopBegin \/ DropRuntime
    BY <2>3, EngineLifecycle
  <2>4. CASE Environment
    <3>. UNCHANGED <<serviceVars, lifecycle, pc, cancelled, request, engine>>
      BY <2>4 DEF Environment, ProviderRefresh, ChangeWeather
    <3>. QED BY DEF LifecycleInv, Alive, serviceVars
  <2>5. CASE Ended \/ UNCHANGED vars
    <3>. UNCHANGED <<serviceVars, lifecycle, pc, cancelled, request, engine>>
      BY <2>5 DEF Ended, vars
    <3>. QED BY DEF LifecycleInv, Alive, serviceVars
  <2>. QED BY <2>1, <2>2, <2>3, <2>4, <2>5 DEF Next
<1>. QED BY <1>1, <1>2, TypeCorrect, PTL DEF Spec

\* What GET reports is what runs, whenever no restart, suspension or stop is under way,
\* the first apply() has returned, and the session is not one that a reload has suspended
\* and not yet stopped.  (Then, and before the first apply(), the weaker clauses of
\* ServiceConsistent hold: a task runs only for settings that ask for one.)
THEOREM ServiceIsConsistent == Spec => []ServiceConsistent
<1>1. TypeOK /\ LifecycleInv => ServiceConsistent
  BY ConstantsOK DEF LifecycleInv, ServiceConsistent, Runs, Alive, TypeOK, Joining
<1>. QED BY <1>1, TypeCorrect, LifecycleHolds, PTL

-----------------------------------------------------------------------------
(* The waiting for each other *)

\* Whoever waits for the end of the task has aborted it.
Asked == Alive /\ (engine \in Joining \/ \E c \in Clients : request[c] = "join") => cancelled

\* A request keeps it: it waits after its abort only, and no other may start a task
\* while it or the engine waits.
LEMMA RequestAsked ==
    ASSUME TypeOK, LifecycleInv, Asked, NEW c \in Clients, Request(c) PROVE Asked'
<1>1. CASE Begin(c) \/ Reject(c) \/ ManualSelect(c) \/ Rebuild(c) \/ PutConfig(c) \/ Apply(c) \/ Patch(c)
  <2>1. UNCHANGED <<pc, cancelled, engine>>
    BY <1>1 DEF Begin, Reject, ManualSelect, Rebuild, PutConfig, Apply, Patch, checkerVars
  <2>2. \A d \in Clients : request'[d] = "join" => request[d] = "join"
    BY <1>1 DEF Begin, Reject, ManualSelect, Rebuild, PutConfig, Apply, Patch, Done, TypeOK
  <2>. QED BY <2>1, <2>2 DEF Asked, Alive
<1>2. CASE Abort(c)
  BY <1>2 DEF Abort, Asked, Alive, checkerVars
<1>3. CASE Restart(c)
  <2>1. \A d \in Clients : request'[d] # "join"
    BY <1>3, ConstantsOK DEF Restart, Done, LifecycleInv, TypeOK
  <2>2. engine' \notin Joining
    BY <1>3, ConstantsOK DEF Restart, LifecycleInv
  <2>. QED BY <2>1, <2>2 DEF Asked
<1>. QED BY <1>1, <1>2, <1>3 DEF Request

\* restart(), suspend_for_reload() and stop() never wait for a task that nobody has told to end.
THEOREM AskedHolds == Spec => []Asked
<1>1. Init => Asked
  BY DEF Init, Serving, Started, Asked, Joining
<1>2. TypeOK /\ LifecycleInv /\ Asked /\ [Next]_vars => Asked'
  <2>. SUFFICES ASSUME TypeOK, LifecycleInv, Asked, [Next]_vars PROVE Asked'
    OBVIOUS
  <2>1. CASE CheckerStep
    <3>1. UNCHANGED <<request, engine>> /\ Alive /\ (UNCHANGED cancelled \/ pc' = "dead")
      BY <2>1
         DEF CheckerStep, StartRound, EndRound, CheckRestore, ProbeOrigin, Observe,
             ProbeCurrent, Scan, Lock, Compare, Set, Return, Remember, Die, LeaveCheck,
             Alive, AwaitPoints
    <3>. QED BY <3>1 DEF Asked, Alive
  <2>2. CASE \E c \in Clients : Request(c)
    BY <2>2, RequestAsked
  <2>3. CASE ApplyFirst \/ SuspendBegin \/ StopBegin
    BY <2>3 DEF ApplyFirst, SuspendBegin, StopBegin, Asked, Alive, checkerVars
  <2>4. CASE SeedOverride \/ SeedRestores \/ SuspendEnd \/ StopEnd
    BY <2>4 DEF SeedOverride, SeedRestores, SuspendEnd, StopEnd, Asked, Alive, checkerVars, Joining
  <2>7. CASE AppliedFirst
    <3>1. engine' = "up" /\ \A c \in Clients : request'[c] # "join"
      BY <2>7, ConstantsOK DEF AppliedFirst, LifecycleInv, Joining
    <3>. QED BY <3>1 DEF Asked, Joining
  <2>5. CASE DropRuntime
    BY <2>5 DEF DropRuntime, LeaveCheck, Asked, Alive
  <2>6. CASE Environment \/ Ended \/ UNCHANGED vars
    <3>. UNCHANGED <<pc, cancelled, request, engine>>
      BY <2>6 DEF Environment, ProviderRefresh, ChangeWeather, Ended, vars
    <3>. QED BY DEF Asked, Alive
  <2>. QED BY <2>1, <2>2, <2>3, <2>4, <2>5, <2>6, <2>7 DEF Next, EngineStep
<1>. QED BY <1>1, <1>2, TypeCorrect, LifecycleHolds, PTL DEF Spec

\* A task that waits for select()'s first lock is not aborted, hence nobody waits
\* for its end; the lock is held by a request.
LEMMA CheckerWaits ==
    ASSUME TypeOK, LockInv, Asked, NEW q \in Processes, WaitsFor("checker", q)
    PROVE  /\ q \in Clients /\ mutations = q /\ engine \notin Joining
           /\ \A c \in Clients : request[c] # "join"
<1>1. pc = "lock" /\ mutations = q /\ ~cancelled
  BY ConstantsOK DEF WaitsFor, AwaitPoints
<1>2. q # "checker"
  BY <1>1 DEF LockInv, InSelect
<1>3. q \in Clients
  BY <1>1, <1>2, ConstantsOK DEF TypeOK, Processes
<1>. QED BY <1>1, <1>3 DEF Asked, Alive

\* The engine waits for the request that restarts, or, itself at work, for the task.
LEMMA EngineWaits ==
    ASSUME TypeOK, LifecycleInv, NEW q \in Processes, WaitsFor("engine", q)
    PROVE  \/ q \in Clients /\ lifecycle = q
           \/ q = "checker" /\ engine \in Joining
<1>1. \/ engine \in {"serving", "seeded", "up", "suspended"} /\ lifecycle = q
      \/ engine \in Joining /\ q = "checker"
  BY ConstantsOK DEF WaitsFor
<1>2. CASE engine \in {"serving", "seeded", "up", "suspended"} /\ lifecycle = q
  BY <1>2, ConstantsOK DEF LifecycleInv, TypeOK, Processes, Joining
<1>. QED BY <1>1, <1>2

\* A request in flight waits for the engine's join, or for the task it aborted.
LEMMA RequestWaits ==
    ASSUME TypeOK, LockInv, LifecycleInv, NEW c \in Clients, NEW q \in Processes,
           WaitsFor(c, q), request[c] # "idle"
    PROVE  \/ q = "engine" /\ lifecycle = "engine" /\ engine \in Joining
           \/ q = "checker" /\ request[c] = "join"
<1>1. \/ request[c] \in {"apply", "patch"} /\ lifecycle = q
      \/ request[c] = "join" /\ q = "checker"
  BY ConstantsOK DEF WaitsFor
<1>2. CASE request[c] \in {"apply", "patch"} /\ lifecycle = q
  <2>1. mutations = c
    BY <1>2 DEF LockInv
  <2>2. q \notin Clients
    <3>. SUFFICES ASSUME q \in Clients PROVE FALSE
      OBVIOUS
    <3>1. request[q] \in {"abort", "join"}
      BY <1>2 DEF LifecycleInv
    <3>2. mutations = q
      BY <3>1 DEF LockInv
    <3>. QED BY <1>2, <2>1, <3>1, <3>2
  <2>3. q = "engine"
    BY <1>2, <2>2, ConstantsOK DEF TypeOK, Processes
  <2>. QED BY <1>2, <2>3 DEF LifecycleInv
<1>. QED BY <1>1, <1>2

\* A request one waits for is in flight, and there is one at most.
LEMMA WaitedFor ==
    ASSUME LockInv, LifecycleInv, NEW p \in Processes, NEW c \in Clients, WaitsFor(p, c)
    PROVE  request[c] # "idle" /\ mutations = c
<1>1. mutations = c \/ lifecycle = c
  BY ConstantsOK DEF WaitsFor
<1>. QED BY <1>1 DEF LockInv, LifecycleInv

\* No deadlock of the locks and the joins, for any number of requests.
THEOREM NobodyWaitsForHimself == Spec => []NoWaitCycle
<1>1. TypeOK /\ LockInv /\ LifecycleInv /\ Asked => NoWaitCycle
  <2>. SUFFICES ASSUME TypeOK, LockInv, LifecycleInv, Asked,
                       NEW p \in Processes, NEW q \in Processes, NEW r \in Processes,
                       WaitsFor(p, q), WaitsFor(q, r), r = p \/ WaitsFor(r, p)
                PROVE  FALSE
    BY DEF NoWaitCycle
  <2>0. "checker" \notin Clients /\ "engine" \notin Clients /\ "checker" # "engine"
    BY ConstantsOK
  <2>1. ASSUME NEW x \in Processes, NEW y \in Processes,
               WaitsFor("checker", x), WaitsFor(x, y), y = "checker" \/ WaitsFor(y, "checker")
        PROVE  FALSE
    <3>1. x \in Clients /\ request[x] # "idle" /\ engine \notin Joining /\ request[x] # "join"
      BY <2>1, CheckerWaits, WaitedFor DEF Processes
    <3>. QED BY <2>1, <3>1, RequestWaits
  <2>2. p # "checker" /\ q # "checker" /\ r # "checker"
    BY <2>1
  <2>3. \A c \in Clients : c \in {p, q, r} => request[c] # "idle"
    BY WaitedFor
  <2>4. p \in Clients => q = "engine" /\ lifecycle = "engine"
    BY <2>2, <2>3, RequestWaits
  <2>5. q \in Clients => r = "engine" /\ lifecycle = "engine"
    BY <2>2, <2>3, RequestWaits
  <2>6. p = "engine" => q \in Clients /\ lifecycle = q
    BY <2>2, EngineWaits
  <2>7. q = "engine" => r \in Clients /\ lifecycle = r
    BY <2>2, EngineWaits
  <2>. QED BY <2>0, <2>2, <2>4, <2>5, <2>6, <2>7 DEF Processes
<1>. QED BY <1>1, TypeCorrect, LockCorrect, LifecycleHolds, AskedHolds, PTL

-----------------------------------------------------------------------------
(* An aborted task ends *)

\* How far the task is from its next await point, where an abort takes effect.
StepsLeft(p) == CASE p = "dead" -> 0
                  [] p = "pick" -> 2
                  [] p \in {"observe", "remember"} -> 3
                  [] p = "set" -> 4
                  [] OTHER -> 1

\* A step of an aborted task takes a group off its round, or brings it nearer to an
\* await point; all else leaves the task where it is, aborted, but for the runtime's end.
DyingFast ==
    cancelled /\ Alive =>
        \/ CheckerStep /\ todo' \subseteq todo /\ (todo' # todo \/ StepsLeft(pc') < StepsLeft(pc))
        \/ UNCHANGED <<pc, todo, cancelled>>
        \/ engine' = "down" /\ pc' = "dead"

\* The task computes for the groups left in its round only, and then waits or ends.
LEMMA CheckerDies ==
    ASSUME TypeOK, cancelled, CheckerStep
    PROVE  todo' \subseteq todo /\ (todo' # todo \/ StepsLeft(pc') < StepsLeft(pc))
<1>1. CASE EndRound
  BY <1>1 DEF EndRound, StepsLeft, checkVars
<1>2. ASSUME NEW g \in Groups, CheckRestore(g) PROVE todo' \subseteq todo /\ todo' # todo
  BY <1>2 DEF CheckRestore
<1>3. CASE Observe
  BY <1>3 DEF Observe, LeaveCheck, StepsLeft
<1>4. CASE Set
  <2>1. pc = "set" /\ todo' = todo /\ pc' \in {"committed", "pick", "observe"}
    BY <1>4 DEF Set, GiveUp, LeaveCheck
  <2>. QED BY <2>1 DEF StepsLeft
<1>5. CASE Remember
  BY <1>5 DEF Remember, LeaveCheck, StepsLeft
<1>6. CASE Die
  BY <1>6 DEF Die, LeaveCheck, StepsLeft, AwaitPoints
<1>7. ~(StartRound \/ ProbeOrigin \/ ProbeCurrent \/ Scan \/ Lock \/ Compare \/ Return)
  BY DEF StartRound, ProbeOrigin, ProbeCurrent, Scan, Lock, Compare, Return
<1>. QED BY <1>1, <1>2, <1>3, <1>4, <1>5, <1>6, <1>7 DEF CheckerStep

\* restart() and stop() join a task that ends after the computing it has left: no
\* sleep, probe, lock or connection holds it, and no other request revives it.
THEOREM AbortIsQuick == Spec => [][DyingFast]_vars
<1>1. TypeOK /\ [Next]_vars => [DyingFast]_vars
  <2> SUFFICES ASSUME TypeOK, Next, cancelled, Alive PROVE DyingFast
    BY DEF DyingFast
  <2>1. CASE CheckerStep
    BY <2>1, CheckerDies DEF DyingFast
  <2>2. ASSUME NEW c \in Clients, Request(c) PROVE UNCHANGED <<pc, todo, cancelled>>
    BY <2>2 DEF Request, Begin, Reject, ManualSelect, Rebuild, PutConfig, Apply, Patch, Abort, Restart,
                Restarted, checkerVars, checkVars
  <2>3. CASE DropRuntime
    BY <2>3 DEF DropRuntime, LeaveCheck, DyingFast
  <2>4. CASE EngineStep \/ SuspendBegin \/ StopBegin \/ Ended \/ Environment
    <3>. UNCHANGED <<pc, todo, cancelled>>
      BY <2>4 DEF EngineStep, SeedOverride, SeedRestores, ApplyFirst, AppliedFirst, Restarted,
                  SuspendBegin, SuspendEnd, StopBegin, StopEnd, Ended, Environment, ProviderRefresh, ChangeWeather, checkerVars,
                  checkVars, vars
    <3>. QED BY DEF DyingFast
  <2>. QED BY <2>1, <2>2, <2>3, <2>4 DEF Next, DyingFast
<1>. QED BY <1>1, TypeCorrect, PTL DEF Spec

-----------------------------------------------------------------------------
(* Pending restores and the history of the selections *)

\* Where nobody interfered with g and no abort cut anything short, a pending
\* restore leads home, and g is home or stands where its restore says.
Follows(g) ==
    ~hist[g].touched /\ ~hist[g].lost =>
        /\ Pending(g) => restores[g].origin = hist[g].home
        /\ selected[g] = hist[g].home \/ (Pending(g) /\ restores[g].target = selected[g])

\* A restore that is taken out of the state and not made, a switch that is made
\* and not remembered.
RestoreTaken == kind = "restore" /\ pc \in {"lock", "configLock", "set"}
SwitchMade   == kind = "switch" /\ pc \in {"committed", "remember"} /\ settings.restore
Unsettled(g) == group = g /\ (RestoreTaken \/ SwitchMade)

\* What remember_origin will make the origin.
OriginOf(r) == IF r.target = from THEN r.origin ELSE from

Followed ==
    /\ \A g \in Groups : ~Unsettled(g) => Follows(g)
    /\ kind = "restore" /\ pc \in ChangePoints => ~Pending(group)
    /\ RestoreTaken \/ (kind = "restore" /\ pc = "probeOrigin") \/ (kind = "switch" /\ pc = "set")
       => (~hist[group].touched /\ ~hist[group].lost => selected[group] = from)
    /\ SwitchMade /\ ~hist[group].touched /\ ~hist[group].lost
       => selected[group] = to /\ OriginOf(restores[group]) = hist[group].home

\* The restores a session takes over are settled, with their history, by the first
\* apply(); what a PATCH before it had begun is forgotten.
HistoryInv == engine \notin TakingOver => Followed

\* A history that begins with restores r follows them.
LEMMA BegunFollows ==
    ASSUME NEW r, NEW g \in Groups
    PROVE  LET h == Begun(r)[g] IN
           ~h.touched => IF r[g].origin = None THEN h.home = selected[g]
                         ELSE h.home = r[g].origin /\ r[g].target = selected[g]
BY DEF Begun, AtHome

\* A session starts at home, or where the restores it has taken over say.
LEMMA InitHistory == Init => Followed
<1> SUFFICES ASSUME Init PROVE Followed
  OBVIOUS
<1>1. ASSUME NEW g \in Groups PROVE Follows(g)
  <2>1. hist = Begun(restores)
    BY DEF Init
  <2>. QED BY <2>1, BegunFollows DEF Follows, Pending
<1>2. kind = "switch" /\ pc \in {"spawned", "dead"}
  BY DEF Init
<1>. QED BY <1>1, <1>2 DEF Followed, RestoreTaken, SwitchMade

\* The first apply() settles what the session has taken over.
LEMMA AppliedHistory == ASSUME TypeOK, AppliedFirst PROVE Followed'
<1>1. pc' \in {"spawned", "dead"} /\ UNCHANGED selected /\ hist' = Begun(restores')
  BY DEF AppliedFirst, Restarted, tunnelVars
<1>2. ASSUME NEW g \in Groups PROVE Follows(g)'
  BY <1>1, BegunFollows DEF Follows, Pending
<1>. QED BY <1>1, <1>2 DEF Followed, RestoreTaken, SwitchMade, ChangePoints

\* Steps that touch no selection, no restore, no history, and stay clear of a
\* change, keep the invariant.
LEMMA ClearHistory ==
    ASSUME Followed, UNCHANGED <<selected, restores>>,
           \A g \in Groups : /\ hist'[g].home = hist[g].home
                             /\ hist'[g].touched = hist[g].touched /\ hist'[g].lost = hist[g].lost,
           ~RestoreTaken, ~SwitchMade,
           pc' \notin {"probeOrigin", "set", "committed", "remember"},
           pc' \in ChangePoints \cup {"probeCurrent", "scan"} => kind' = "switch"
    PROVE  Followed'
<1>1. ASSUME NEW g \in Groups PROVE Follows(g)'
  BY DEF Followed, Unsettled, Follows, Pending
<1>. QED BY <1>1 DEF Followed, RestoreTaken, SwitchMade, ChangePoints

\* A step outside the checker moves no selection, or only as someone else's
\* doing, which the history records.
LEMMA MovedHistory ==
    ASSUME TypeOK, Followed, UNCHANGED <<restores, settings, pc, kind, group, from, to>>,
           \A g \in Groups :
               \/ /\ selected'[g] = selected[g] /\ hist'[g].home = hist[g].home
                  /\ hist'[g].touched = hist[g].touched /\ hist'[g].lost = hist[g].lost
               \/ hist'[g].touched
    PROVE  Followed'
<1>1. group \in Groups
  BY DEF TypeOK
<1>2. ASSUME NEW g \in Groups, ~Unsettled(g)' PROVE Follows(g)'
  BY <1>2 DEF Followed, Unsettled, RestoreTaken, SwitchMade, Follows, Pending
<1>3. OriginOf(restores[group])' = OriginOf(restores[group])
  BY DEF OriginOf
<1>. QED BY <1>1, <1>2, <1>3 DEF Followed, RestoreTaken, SwitchMade, Pending, ChangePoints

\* What MovedByOthers records.
LEMMA MovedTouches ==
    ASSUME NEW s, NEW manual, MovedByOthers(s, manual), NEW g \in Groups
    PROVE  \/ s[g] = selected[g] /\ hist'[g] = hist[g]
           \/ hist'[g].touched
BY DEF MovedByOthers

\* check_restore up to its probe.
LEMMA CheckRestoreHistory ==
    ASSUME TypeOK, Followed, NEW g \in Groups, CheckRestore(g) PROVE Followed'
<1> USE DEF CheckRestore, tunnelVars, serviceVars
<1>1. /\ restores \in [Groups -> Restore] /\ hist \in [Groups -> Hist]
      /\ \A h \in Groups : Follows(h)
  BY DEF TypeOK, Followed, Unsettled, RestoreTaken, SwitchMade
<1>2. ASSUME NEW h \in Groups, h # g PROVE Follows(h)'
  <2>1. hist'[h] = hist[h] /\ restores'[h] = restores[h]
    BY <1>1, <1>2
  <2>. QED BY <1>1, <2>1 DEF Follows, Pending
<1>3. CASE pc' = "observe"
  <2>1. Follows(g)'
    <3>1. CASE ~Pending(g) /\ ~hist[g].lost
      BY <1>1, <3>1 DEF Follows, Pending
    <3>2. CASE hist' = [hist EXCEPT ![g] = AtHome(selected[g])]
      <4>1. hist'[g].home = selected[g]
        BY <1>1, <3>2 DEF AtHome
      <4>2. ~Pending(g)'
        BY <1>1, <1>3, ConstantsOK DEF Pending, NoRestore
      <4>. QED BY <4>1, <4>2 DEF Follows
    <3>. QED BY <1>3, <3>1, <3>2
  <2>. QED BY <1>2, <1>3, <2>1 DEF Followed, RestoreTaken, SwitchMade, ChangePoints
<1>4. CASE pc' = "probeOrigin"
  <2>1. /\ selected[g] = restores[g].target /\ from' = restores[g].target /\ group' = g
        /\ hist' = [hist EXCEPT ![g].fresh = FALSE] /\ UNCHANGED <<restores, selected>>
    BY <1>4
  <2>2. Follows(g)'
    BY <1>1, <2>1 DEF Follows, Pending, Hist
  <2>. QED BY <1>2, <1>4, <2>1, <2>2 DEF Followed, RestoreTaken, SwitchMade, ChangePoints
<1>. QED BY <1>3, <1>4

\* check_restore after its probe: from here on nothing is pending.
LEMMA ProbeOriginHistory ==
    ASSUME TypeOK, RestoreInv, Followed, engine \notin TakingOver, ProbeOrigin PROVE Followed'
<1> USE DEF ProbeOrigin, tunnelVars, serviceVars, histVars
<1>1. /\ restores \in [Groups -> Restore] /\ group \in Groups /\ kind = "restore"
      /\ \A h \in Groups : Follows(h)
  BY DEF TypeOK, RestoreInv, Followed, Unsettled, RestoreTaken, SwitchMade
<1>2. ASSUME NEW h \in Groups, h # group PROVE Follows(h)'
  <2>1. restores'[h] = restores[h]
    BY <1>1, <1>2
  <2>. QED BY <1>1, <2>1 DEF Follows, Pending
<1>3. CASE LeaveCheck("observe")
  <2>1. PICK n : restores' = [restores EXCEPT ![group] = [restores[group] EXCEPT !.successes = n]]
    BY <1>3 DEF LeaveCheck, Checked
  <2>2. restores'[group].origin = restores[group].origin
        /\ restores'[group].target = restores[group].target
    BY <1>1, <2>1 DEF Restore
  <2>3. Follows(group)'
    BY <1>1, <2>2 DEF Follows, Pending
  <2>. QED BY <1>2, <1>3, <2>3
    DEF Followed, RestoreTaken, SwitchMade, ChangePoints, LeaveCheck
<1>4. CASE /\ restores' = [restores EXCEPT ![group] = NoRestore]
           /\ pc' = "lock" /\ UNCHANGED <<kind, from, to, seen, candidates>>
  <2>1. ~Pending(group)'
    BY <1>1, <1>4, ConstantsOK DEF Pending, NoRestore
  <2>. QED BY <1>1, <1>2, <1>4, <2>1
    DEF Followed, RestoreTaken, SwitchMade, Unsettled, ChangePoints
<1>. QED BY <1>3, <1>4

\* check_group, from its first look at the selection to the end of its scan.
LEMMA CheckGroupHistory ==
    ASSUME TypeOK, RestoreInv, Followed, Observe \/ ProbeCurrent \/ Scan PROVE Followed'
<1>1. \A g \in Groups : /\ hist'[g].home = hist[g].home
                        /\ hist'[g].touched = hist[g].touched /\ hist'[g].lost = hist[g].lost
  <2>1. CASE Observe
    <3>1. hist' = [hist EXCEPT ![group].fresh = FALSE] /\ hist \in [Groups -> Hist]
      BY <2>1 DEF Observe, TypeOK
    <3>. QED BY <3>1 DEF Hist
  <2>2. CASE ProbeCurrent \/ Scan
    BY <2>2 DEF ProbeCurrent, Scan
  <2>. QED BY <2>1, <2>2
<1>2. UNCHANGED <<selected, restores, settings>>
  BY DEF Observe, ProbeCurrent, Scan, tunnelVars, serviceVars
<1>3. ~RestoreTaken /\ ~SwitchMade
  BY DEF Observe, ProbeCurrent, Scan, RestoreTaken, SwitchMade
<1>4. pc' \in {"pick", "probeCurrent", "scan", "lock"}
  BY DEF Observe, ProbeCurrent, Scan, LeaveCheck
<1>5. pc' \in ChangePoints \cup {"probeCurrent", "scan"} => kind' = "switch"
  BY DEF RestoreInv, Observe, ProbeCurrent, Scan, LeaveCheck, ChangePoints
<1>. QED BY <1>1, <1>2, <1>3, <1>4, <1>5, ClearHistory

\* select() gave up: a restore that was already taken out is lost.
LEMMA GiveUpHistory ==
    ASSUME TypeOK, Followed, pc \in {"configLock", "set"}, GiveUp,
           UNCHANGED <<selected, restores, settings, group>>
    PROVE  Followed'
<1> USE DEF GiveUp, LeaveCheck
<1>1. hist \in [Groups -> Hist] /\ group \in Groups /\ kind \in {"switch", "restore"}
  BY DEF TypeOK
<1>2. ASSUME NEW h \in Groups, h # group PROVE Follows(h)'
  <2>1. hist'[h] = hist[h]
    BY <1>1, <1>2
  <2>. QED BY <1>2, <2>1 DEF Followed, Unsettled, Follows, Pending
<1>3. Follows(group)'
  <2>1. CASE kind = "switch"
    <3>1. UNCHANGED hist /\ Follows(group)
      BY <1>1, <2>1 DEF Followed, Unsettled, RestoreTaken, SwitchMade
    <3>. QED BY <3>1 DEF Follows, Pending
  <2>2. CASE kind = "restore" /\ selected[group] = from
    <3>1. hist'[group].lost
      BY <1>1, <2>2 DEF Hist
    <3>. QED BY <3>1 DEF Follows
  <2>3. CASE kind = "restore" /\ selected[group] # from
    <3>1. UNCHANGED hist /\ (hist[group].touched \/ hist[group].lost)
      BY <2>3 DEF Followed, RestoreTaken
    <3>. QED BY <3>1 DEF Follows
  <2>. QED BY <1>1, <2>1, <2>2, <2>3
<1>. QED BY <1>1, <1>2, <1>3 DEF Followed, RestoreTaken, SwitchMade, ChangePoints

\* select(): the locks and the comparison.
LEMMA CompareHistory ==
    ASSUME TypeOK, Followed, Lock \/ Compare PROVE Followed'
<1>1. CASE Lock
  <2>1. UNCHANGED <<selected, restores, settings, hist, group, kind, from, to>>
    BY <1>1 DEF Lock, tunnelVars, serviceVars, checkVars, histVars
  <2>2. \A g \in Groups : ~Unsettled(g)' => Follows(g)'
    BY <1>1, <2>1 DEF Lock, Followed, Unsettled, RestoreTaken, SwitchMade, Follows, Pending
  <2>. QED BY <1>1, <2>1, <2>2
    DEF Lock, Followed, RestoreTaken, SwitchMade, ChangePoints, Pending
<1>2. CASE Compare /\ Unchanged(group)
  <2>1. /\ UNCHANGED <<selected, restores, settings, hist, group, kind, from, to>>
        /\ pc = "configLock" /\ pc' = "set" /\ selected[group] = from
    BY <1>2 DEF Compare, GiveUp, Unchanged, tunnelVars, serviceVars
  <2>2. \A g \in Groups : ~Unsettled(g)' => Follows(g)'
    BY <2>1 DEF Followed, Unsettled, RestoreTaken, SwitchMade, Follows, Pending
  <2>. QED BY <2>1, <2>2
    DEF Followed, RestoreTaken, SwitchMade, ChangePoints, Pending
<1>3. CASE Compare /\ ~Unchanged(group)
  BY <1>3, GiveUpHistory DEF Compare, tunnelVars, serviceVars
<1>. QED BY <1>1, <1>2, <1>3

\* select(): the change.
LEMMA SetHistory ==
    ASSUME TypeOK, RestoreInv, Followed, engine \notin TakingOver, Set PROVE Followed'
<1> USE DEF Set, serviceVars
<1>1. /\ hist \in [Groups -> Hist] /\ group \in Groups /\ kind \in {"switch", "restore"}
      /\ selected \in [Groups -> NodeOrNone] /\ to # from
  BY DEF TypeOK, RestoreInv, ChangePoints
<1>2. CASE GiveUp /\ UNCHANGED selected
  BY <1>2, GiveUpHistory
<1>3. CASE /\ selected' = [selected EXCEPT ![group] = to] /\ pc' = "committed"
           /\ hist' = [hist EXCEPT ![group] = IF kind = "switch" THEN Switched(@) ELSE AtHome(to)]
           /\ UNCHANGED <<mutations, kind, from, to, seen, candidates>>
  <2>1. UNCHANGED <<restores, settings, group, kind, from, to>> /\ selected'[group] = to
    BY <1>1, <1>3
  <2>2. ASSUME NEW h \in Groups, h # group PROVE Follows(h)'
    <3>1. hist'[h] = hist[h] /\ selected'[h] = selected[h]
      BY <1>1, <1>3, <2>2
    <3>. QED BY <2>1, <2>2, <3>1 DEF Followed, Unsettled, Follows, Pending
  <2>3. CASE hist'[group] = AtHome(to) /\ ~Pending(group) /\ ~SwitchMade'
    <3>1. Follows(group)'
      BY <2>1, <2>3 DEF Follows, AtHome, Pending
    <3>. QED BY <1>3, <2>1, <2>2, <2>3, <3>1
      DEF Followed, RestoreTaken, ChangePoints, Pending
  <2>4. CASE kind = "restore"
    <3>1. hist'[group] = AtHome(to) /\ ~Pending(group) /\ ~SwitchMade'
      BY <1>1, <1>3, <2>1, <2>4 DEF Followed, ChangePoints, SwitchMade
    <3>. QED BY <2>3, <3>1
  <2>5. CASE kind = "switch" /\ ~settings.restore
    <3>1. hist'[group] = AtHome(to) /\ ~SwitchMade'
      BY <1>1, <1>3, <2>1, <2>5 DEF Switched, SwitchMade
    <3>2. ~Pending(group)
      BY <1>1, <2>5 DEF RestoreInv, RestoresAllowed
    <3>. QED BY <2>3, <3>1, <3>2
  <2>6. CASE kind = "switch" /\ settings.restore
    <3>1. hist'[group] = Switched(hist[group]) /\ hist[group] \in Hist
      BY <1>1, <1>3, <2>6
    <3>2. Follows(group)
      BY <1>1, <2>6 DEF Followed, Unsettled, RestoreTaken, SwitchMade
    <3>3. ASSUME ~hist'[group].touched, ~hist'[group].lost
          PROVE  OriginOf(restores[group]) = hist'[group].home
      <4>1. CASE hist[group].touched /\ restores[group].target # from
        <5>1. hist'[group].home = from
          BY <2>6, <3>1, <4>1 DEF Switched, Hist
        <5>. QED BY <4>1, <5>1 DEF OriginOf
      <4>2. CASE ~(hist[group].touched /\ restores[group].target # from)
        <5>1. /\ hist'[group].home = hist[group].home
              /\ ~hist[group].touched /\ ~hist[group].lost
          BY <2>6, <3>1, <3>3, <4>2 DEF Switched, Hist
        <5>2. selected[group] = from
          BY <2>6, <5>1 DEF Followed
        <5>3. ~Pending(group) => restores[group].target # from
          BY <1>1, <2>6, ConstantsOK DEF RestoreInv, ChangePoints
        <5>. QED BY <3>2, <5>1, <5>2, <5>3 DEF Follows, OriginOf
      <4>. QED BY <4>1, <4>2
    <3>4. Unsettled(group)' /\ OriginOf(restores[group])' = OriginOf(restores[group])
      BY <1>3, <2>1, <2>6 DEF Unsettled, SwitchMade, OriginOf
    <3>. QED BY <1>3, <2>1, <2>2, <2>6, <3>3, <3>4 DEF Followed, RestoreTaken, ChangePoints
  <2>. QED BY <1>1, <2>4, <2>5, <2>6
<1>. QED BY <1>2, <1>3

\* select() returns.
LEMMA ReturnHistory == ASSUME Followed, Return PROVE Followed'
<1>1. /\ UNCHANGED <<selected, restores, settings, hist, group, kind, from, to>>
      /\ pc = "committed" /\ pc' = "remember"
  BY DEF Return, tunnelVars, serviceVars, checkVars, histVars
<1>2. \A g \in Groups : ~Unsettled(g)' => Follows(g)'
  BY <1>1 DEF Followed, Unsettled, RestoreTaken, SwitchMade, Follows, Pending
<1>3. OriginOf(restores[group])' = OriginOf(restores[group])
  BY <1>1 DEF OriginOf
<1>. QED BY <1>1, <1>2, <1>3 DEF Followed, RestoreTaken, SwitchMade, ChangePoints, Pending

\* remember_origin: the record leads to the home of the chain.
LEMMA RememberHistory ==
    ASSUME TypeOK, RestoreInv, Followed, Remember PROVE Followed'
<1> USE DEF Remember, LeaveCheck, tunnelVars, serviceVars, histVars
<1>1. /\ restores \in [Groups -> Restore] /\ group \in Groups /\ kind \in {"switch", "restore"}
      /\ to \in Leaves \ {from}
  BY DEF TypeOK, RestoreInv, ChangePoints
<1>2. \A h \in Groups : h # group => restores'[h] = restores[h]
  BY <1>1 DEF RememberOrigin
<1>3. ASSUME NEW h \in Groups, h # group PROVE Follows(h)'
  BY <1>2, <1>3 DEF Followed, Unsettled, Follows, Pending
<1>4. Follows(group)'
  <2>1. CASE kind = "restore" \/ ~settings.restore
    <3>1. UNCHANGED restores /\ Follows(group)
      BY <1>1, <2>1 DEF RememberOrigin, Followed, Unsettled, RestoreTaken, SwitchMade
    <3>. QED BY <3>1 DEF Follows, Pending
  <2>2. CASE kind = "switch" /\ settings.restore /\ ~hist[group].touched /\ ~hist[group].lost
    <3> DEFINE origin == OriginOf(restores[group])
    <3>1. selected[group] = to /\ origin = hist[group].home
      BY <2>2 DEF Followed, SwitchMade
    <3>2. restores'[group] = IF origin = to THEN NoRestore
                             ELSE [origin |-> origin, target |-> to, successes |-> 0]
      BY <1>1, <2>2 DEF RememberOrigin, OriginOf
    <3>3. origin # None
      BY <1>1, <2>2, ConstantsOK
         DEF RestoreInv, RestoresAllowed, Pending, ChangePoints, OriginOf
    <3> HIDE DEF origin
    <3>4. CASE origin = to
      <4>1. restores'[group].origin = None
        BY <3>2, <3>4 DEF NoRestore
      <4>. QED BY <3>1, <3>4, <4>1 DEF Follows, Pending
    <3>5. CASE origin # to
      BY <3>1, <3>2, <3>3, <3>5 DEF Follows, Pending
    <3>. QED BY <3>4, <3>5
  <2>3. CASE hist[group].touched \/ hist[group].lost
    BY <2>3 DEF Follows
  <2>. QED BY <1>1, <2>1, <2>2, <2>3
<1>. QED BY <1>3, <1>4 DEF Followed, RestoreTaken, SwitchMade, ChangePoints

\* An abort, or the end of the runtime: whatever it cuts short is lost.
LEMMA DieHistory ==
    ASSUME TypeOK, RestoreInv, Followed, Die \/ DropRuntime PROVE Followed'
<1>1. /\ pc \in AwaitPoints \cup {"dead"} /\ LeaveCheck("dead")
      /\ hist' = IF CutShort THEN [hist EXCEPT ![group].lost = TRUE] ELSE hist
      /\ UNCHANGED <<selected, restores, settings, group>>
  BY DEF Die, DropRuntime, tunnelVars, serviceVars
<1>2. /\ hist \in [Groups -> Hist] /\ group \in Groups /\ kind \in {"switch", "restore"}
  BY DEF TypeOK
<1>3. ASSUME NEW h \in Groups, h # group PROVE Follows(h)'
  <2>1. hist'[h] = hist[h]
    BY <1>1, <1>2, <1>3
  <2>. QED BY <1>1, <1>3, <2>1 DEF Followed, Unsettled, Follows, Pending
<1>4. Follows(group)'
  <2>1. CASE CutShort
    <3>1. hist' = [hist EXCEPT ![group].lost = TRUE]
      BY <1>1, <2>1
    <3>2. hist'[group].lost = TRUE
      BY <1>2, <3>1 DEF Hist
    <3>. QED BY <1>1, <3>2 DEF Follows
  <2>2. CASE ~CutShort /\ ~Unsettled(group)
    <3>1. UNCHANGED hist /\ Follows(group)
      BY <1>1, <1>2, <2>2 DEF Followed
    <3>. QED BY <1>1, <3>1 DEF Follows, Pending
  <2>3. CASE ~CutShort /\ RestoreTaken
    <3>1. hist[group].touched \/ hist[group].lost
      BY <1>1, <2>3 DEF CutShort, RestoreTaken, Followed, AwaitPoints
    <3>. QED BY <1>1, <2>3, <3>1 DEF Follows
  <2>4. CASE ~CutShort /\ SwitchMade /\ ~hist[group].touched /\ ~hist[group].lost
    <3>1. selected[group] = to /\ OriginOf(restores[group]) = hist[group].home
      BY <2>4 DEF Followed
    <3>2. selected[group] = hist[group].home
      BY <1>1, <2>4 DEF CutShort, SwitchMade, AwaitPoints
    <3>3. to # from
      BY <2>4 DEF RestoreInv, ChangePoints, SwitchMade
    <3>4. restores[group].origin = hist[group].home
      BY <3>1, <3>2, <3>3 DEF OriginOf
    <3>. QED BY <1>1, <2>4, <3>2, <3>4 DEF Follows, Pending
  <2>5. CASE ~CutShort /\ (hist[group].touched \/ hist[group].lost)
    BY <1>1, <2>5 DEF Follows
  <2>. QED BY <2>1, <2>2, <2>3, <2>4, <2>5 DEF Unsettled
<1>. QED BY <1>1, <1>3, <1>4 DEF Followed, LeaveCheck, RestoreTaken, SwitchMade, ChangePoints

\* Requests move selections as someone else, or drop restores with their chains.
LEMMA RequestHistory ==
    ASSUME TypeOK, Followed, NEW c \in Clients, Request(c) PROVE Followed'
<1>1. hist \in [Groups -> Hist] /\ selected \in [Groups -> NodeOrNone]
  BY DEF TypeOK
<1>2. CASE Begin(c) \/ Reject(c) \/ Apply(c) \/ Patch(c) \/ Abort(c)
  <2>1. UNCHANGED <<selected, hist, restores, settings, pc, kind, group, from, to>>
    BY <1>2 DEF Begin, Reject, Apply, Patch, Abort, tunnelVars, serviceVars, checkerVars, checkVars
  <2>. QED BY <2>1, MovedHistory
<1>3. CASE Rebuild(c) \/ PutConfig(c)
  <2>1. UNCHANGED <<restores, settings, pc, kind, group, from, to>>
    BY <1>3 DEF Rebuild, PutConfig, serviceVars, checkerVars, checkVars
  <2>2. MovedByOthers(selected', FALSE)
    BY <1>3 DEF Rebuild, PutConfig, InstallRoutes
  <2>. QED BY <2>1, <2>2, MovedTouches, MovedHistory
<1>4. CASE ManualSelect(c)
  <2>1. UNCHANGED <<restores, settings, pc, kind, group, from, to>>
    BY <1>4 DEF ManualSelect, serviceVars, checkerVars, checkVars
  <2>2. PICK g \in Groups : \E n \in members[g] :
          /\ selected' = [selected EXCEPT ![g] = n]
          /\ IF n = selected[g] THEN hist' = [hist EXCEPT ![g].fresh = TRUE]
             ELSE MovedByOthers(selected', TRUE)
    BY <1>4 DEF ManualSelect
  <2>3. CASE selected' = selected /\ hist' = [hist EXCEPT ![g].fresh = TRUE]
    <3>1. \A h \in Groups : /\ hist'[h].home = hist[h].home
                            /\ hist'[h].touched = hist[h].touched /\ hist'[h].lost = hist[h].lost
      BY <1>1, <2>3 DEF Hist
    <3>. QED BY <2>1, <2>3, <3>1, MovedHistory
  <2>4. CASE MovedByOthers(selected', TRUE)
    BY <2>1, <2>4, MovedTouches, MovedHistory
  <2>. QED BY <1>1, <2>2, <2>3, <2>4
<1>5. CASE Restart(c)
  <2>1. pc = "dead" /\ pc' \in {"spawned", "dead"} /\ UNCHANGED selected
    BY <1>5 DEF Restart, Restarted, Alive, tunnelVars
  <2>2. ASSUME NEW g \in Groups PROVE Follows(g)'
    <3>1. CASE Keeps(Effective, g)
      <4>1. hist'[g] = hist[g] /\ restores'[g] = restores[g]
        BY <1>5, <3>1 DEF Restart, Restarted
      <4>. QED BY <2>1, <4>1
        DEF Followed, Unsettled, RestoreTaken, SwitchMade, Follows, Pending
    <3>2. CASE ~Keeps(Effective, g)
      <4>1. hist'[g].home = selected[g] /\ restores'[g] = NoRestore
        BY <1>5, <3>2 DEF Restart, Restarted, AtHome
      <4>. QED BY <2>1, <4>1 DEF Follows, Pending, NoRestore
    <3>. QED BY <3>1, <3>2
  <2>. QED BY <2>1, <2>2 DEF Followed, RestoreTaken, SwitchMade, ChangePoints
<1>. QED BY <1>2, <1>3, <1>4, <1>5 DEF Request

\* Only the end of the first apply() ends the taking over.
LEMMA TakingOverLasts ==
    ASSUME engine \in TakingOver, Next, ~AppliedFirst PROVE engine' \in TakingOver
<1>1. CASE CheckerStep
  BY <1>1 DEF CheckerStep, StartRound, EndRound, CheckRestore, ProbeOrigin, Observe, ProbeCurrent,
              Scan, Lock, Compare, Set, Return, Remember, Die
<1>2. CASE \E c \in Clients : Request(c)
  BY <1>2 DEF Request, Begin, Reject, ManualSelect, Rebuild, PutConfig, Apply, Patch, Abort, Restart
<1>3. CASE ApplyFirst
  BY <1>3 DEF ApplyFirst, TakingOver
<1>4. ~(SeedOverride \/ SeedRestores \/ SuspendBegin \/ SuspendEnd \/ StopBegin \/ StopEnd
        \/ DropRuntime \/ Ended)
  BY DEF TakingOver, SeedOverride, SeedRestores, SuspendBegin, SuspendEnd, StopBegin, StopEnd,
         DropRuntime, Ended
<1>5. CASE Environment
  BY <1>5 DEF Environment, ProviderRefresh, ChangeWeather
<1>. QED BY <1>1, <1>2, <1>3, <1>4, <1>5 DEF Next, EngineStep

\* What is pending follows the history of the selections, whatever requests,
\* refreshes, aborts and stops come between the steps of a switch or a restore.
THEOREM HistoryHolds == Spec => []HistoryInv
<1>1. ASSUME TypeOK, RestoreInv, Followed, engine \notin TakingOver, Next, ~AppliedFirst
      PROVE  Followed' \/ engine' \in TakingOver
  <2>1. CASE StartRound \/ EndRound
    <3>1. UNCHANGED <<selected, hist, restores, kind>>
      BY <2>1 DEF StartRound, EndRound, tunnelVars, histVars, checkVars
    <3>2. pc \in {"spawned", "sleep", "pick"} /\ pc' \in {"pick", "sleep"}
      BY <2>1 DEF StartRound, EndRound
    <3>. QED BY <1>1, <3>1, <3>2, ClearHistory DEF RestoreTaken, SwitchMade, ChangePoints
  <2>2. CASE CheckerStep
    BY <1>1, <2>1, <2>2, CheckRestoreHistory, ProbeOriginHistory, CheckGroupHistory,
       CompareHistory, SetHistory, ReturnHistory, RememberHistory, DieHistory DEF CheckerStep
  <2>3. CASE \E c \in Clients : Request(c)
    BY <1>1, <2>3, RequestHistory
  <2>4. CASE SeedOverride \/ SuspendBegin \/ SuspendEnd
             \/ StopBegin \/ StopEnd \/ ChangeWeather \/ Ended
    <3>1. UNCHANGED <<selected, hist, restores, settings, pc, kind, group, from, to>>
      BY <2>4 DEF SeedOverride, SuspendBegin, SuspendEnd, StopBegin, StopEnd,
                  ChangeWeather, Ended, vars, tunnelVars, serviceVars, checkerVars, checkVars,
                  histVars
    <3>. QED BY <1>1, <3>1, MovedHistory
  <2>5. CASE \E g \in Groups : ProviderRefresh(g)
    <3>1. UNCHANGED <<restores, settings, pc, kind, group, from, to>>
      BY <2>5 DEF ProviderRefresh, serviceVars, checkVars
    <3>2. MovedByOthers(selected', FALSE)
      BY <2>5 DEF ProviderRefresh
    <3>. QED BY <1>1, <3>1, <3>2, MovedTouches, MovedHistory
  <2>6. CASE DropRuntime
    BY <1>1, <2>6, DieHistory
  <2>7. CASE SeedRestores \/ ApplyFirst
    BY <2>7 DEF SeedRestores, ApplyFirst, TakingOver
  <2>. QED BY <1>1, <2>2, <2>3, <2>4, <2>5, <2>6, <2>7 DEF Next, EngineStep, Environment
<1>2. ASSUME TypeOK, RestoreInv, HistoryInv, [Next]_vars PROVE HistoryInv'
  <2>1. CASE UNCHANGED vars
    <3>1. UNCHANGED <<selected, hist, restores, settings, pc, kind, group, from, to, engine>>
      BY <2>1 DEF vars, tunnelVars, serviceVars, checkVars, histVars
    <3>. QED BY <1>2, <3>1, MovedHistory DEF HistoryInv
  <2>2. CASE AppliedFirst
    BY <1>2, <2>2, AppliedHistory DEF HistoryInv
  <2>3. CASE Next /\ ~AppliedFirst /\ engine \notin TakingOver
    BY <1>1, <1>2, <2>3 DEF HistoryInv
  <2>4. CASE Next /\ ~AppliedFirst /\ engine \in TakingOver
    <3>1. engine' \in TakingOver
      BY <2>4, TakingOverLasts
    <3>. QED BY <3>1 DEF HistoryInv
  <2>. QED BY <1>2, <2>1, <2>2, <2>3, <2>4
<1>. QED BY <1>2, InitHistory, TypeCorrect, RestoreInvHolds, PTL DEF Spec, HistoryInv

\* After any chain of automatic switches with which nobody interfered, the
\* pending restore leads to the node the group held before the first of them.
THEOREM RestoresLeadHome == Spec => []OriginIsHome
<1>1. HistoryInv => OriginIsHome
  BY DEF HistoryInv, Followed, OriginIsHome, MidChange, Unsettled, RestoreTaken, SwitchMade, Follows
<1>. QED BY <1>1, HistoryHolds, PTL

\* With restores enabled no automatic switch is forgotten, unless an abort or a
\* new route table cut it or its restore short.
THEOREM SwitchesStayRemembered == Spec => []SwitchesRemembered
<1>1. HistoryInv => SwitchesRemembered
  BY DEF HistoryInv, Followed, SwitchesRemembered, AwayFromHome, MidChange, Unsettled,
         RestoreTaken, SwitchMade, Follows
<1>. QED BY <1>1, HistoryHolds, PTL

-----------------------------------------------------------------------------
(* Counting failures *)

\* The checker's count never runs ahead of the checks that really failed in a
\* row, and is of the node they tested; an ended task leaves no count.
CountInv ==
    /\ \A g \in Groups :
          /\ failures[g].count <= settings.threshold
          /\ failures[g].count <= streak[g].fails
          /\ IF failures[g].node = None THEN failures[g].count = 0
                                        ELSE streak[g].node = failures[g].node
    /\ pc = "dead" => \A g \in Groups : failures[g].node = None

\* A cleared record counts nothing.
LEMMA ClearedCount ==
    ASSUME TypeOK, CountInv, settings' = settings, pc' = "dead" => pc = "dead",
           \A g \in Groups : \/ failures'[g] = failures[g] /\ streak'[g] = streak[g]
                             \/ failures'[g] = NoFailure /\ streak'[g] \in Streak
    PROVE  CountInv'
<1>1. settings.threshold \in Nat
  BY ConstantsOK DEF TypeOK, Settings
<1>2. NoFailure.node = None /\ NoFailure.count = 0
  BY DEF NoFailure, NewFailure
<1>3. \A st \in Streak : st.fails \in Nat
  BY DEF Streak
<1>. QED BY <1>1, <1>2, <1>3 DEF CountInv

\* check_group counts one more failing check, of the node it has just probed.
LEMMA ProbeCurrentCount ==
    ASSUME TypeOK, CountInv, ProbeCurrent, from # None
    PROVE  /\ CountInv'
           /\ StartsScan => /\ streak'[group].node = from
                            /\ streak'[group].fails >= settings.threshold
<1> USE DEF ProbeCurrent, serviceVars
<1>1. /\ failures \in [Groups -> Failure] /\ streak \in [Groups -> Streak] /\ group \in Groups
      /\ settings' = settings /\ pc = "probeCurrent"
  BY DEF TypeOK
<1>2. settings.threshold \in Nat \ {0}
  BY ConstantsOK DEF TypeOK, Settings
<1>3. CASE /\ failures' = [failures EXCEPT ![group] = NoFailure]
           /\ streak' = [streak EXCEPT ![group] = NoStreak] /\ pc' = "pick"
  BY <1>1, <1>3, NoneTypes, ClearedCount DEF StartsScan
<1>4. CASE \E f \in Failure, waits \in BOOLEAN :
             /\ f = Counted(FailureOf(group, from)) /\ waits = MustWait(f)
             /\ streak' = [streak EXCEPT ![group] = Failing(group, from, waits)]
             /\ failures' = [failures EXCEPT ![group] = IF waits THEN Waited(f) ELSE f]
             /\ pc' = IF waits THEN "pick" ELSE "scan"
  <2>1. PICK f \in Failure, waits \in BOOLEAN :
             /\ f = Counted(FailureOf(group, from)) /\ waits = MustWait(f)
             /\ streak' = [streak EXCEPT ![group] = Failing(group, from, waits)]
             /\ failures' = [failures EXCEPT ![group] = IF waits THEN Waited(f) ELSE f]
             /\ pc' = IF waits THEN "pick" ELSE "scan"
    BY <1>4
  <2> DEFINE old == FailureOf(group, from)
             st  == IF streak[group].node = from THEN streak[group] ELSE [NoStreak EXCEPT !.node = from]
  <2>2. /\ old \in Failure /\ old.node = from
        /\ old.count <= settings.threshold /\ old.count <= st.fails
    <3>1. CASE failures[group].node = from
      <4>1. old = failures[group] /\ streak[group].node = from
        BY <1>1, <3>1 DEF FailureOf, CountInv
      <4>. QED BY <1>1, <3>1, <4>1 DEF CountInv
    <3>2. CASE failures[group].node # from
      <4>1. old = NewFailure(from) /\ from \in NodeOrNone
        BY <3>2 DEF FailureOf, TypeOK
      <4>2. st.fails \in Nat
        BY <1>1 DEF Streak, NoStreak
      <4>. QED BY <1>2, <4>1, <4>2, NoneTypes DEF NewFailure
    <3>. QED BY <3>1, <3>2
  <2>3. st.fails \in Nat /\ st.node = from /\ st \in Streak
    BY <1>1 DEF Streak, NoStreak, TypeOK
  <2>4. Failing(group, from, waits).node = from
        /\ Failing(group, from, waits).fails = LowerOf(st.fails + 1, settings.threshold)
    BY <2>3 DEF Failing, Streak
  <2>5. f.node = from /\ f.count = IF old.count < settings.threshold THEN old.count + 1 ELSE old.count
    BY <2>1, <2>2 DEF Counted, Failure
  <2>6. old.count \in Nat
    BY <2>2 DEF Failure
  <2> HIDE DEF old, st
  <2>7. f.count <= settings.threshold /\ f.count <= LowerOf(st.fails + 1, settings.threshold)
    BY <1>2, <2>2, <2>3, <2>5, <2>6 DEF LowerOf
  <2>8. failures'[group].node = from /\ failures'[group].count = f.count
    BY <1>1, <2>1, <2>5 DEF Waited, Failure
  <2>9. streak'[group].node = from /\ f.count <= streak'[group].fails
    BY <1>1, <2>1, <2>4, <2>7
  <2>10. \A g \in Groups : g # group => failures'[g] = failures[g] /\ streak'[g] = streak[g]
    BY <1>1, <2>1
  <2>11. CountInv'
    BY <1>1, <2>1, <2>7, <2>8, <2>9, <2>10 DEF CountInv
  <2>12. ASSUME StartsScan PROVE streak'[group].fails >= settings.threshold
    <3>1. f.count >= settings.threshold
      <4>1. ~waits
        BY <2>1, <2>12 DEF StartsScan
      <4>2. ~(f.count < settings.threshold)
        BY <2>1, <4>1 DEF MustWait
      <4>3. f.count \in Nat
        BY DEF Failure
      <4>. QED BY <1>2, <4>2, <4>3
    <3>2. streak'[group].fails \in Nat /\ f.count \in Nat
      BY <1>1, <1>2, <2>1, <2>3, <2>4 DEF Failure, LowerOf
    <3>. QED BY <1>2, <2>9, <3>1, <3>2
  <2>. QED BY <2>9, <2>11, <2>12
<1>5. Counted(FailureOf(group, from)) \in Failure
  <2>1. FailureOf(group, from) \in Failure
    BY NoneTypes DEF TypeOK, FailureOf
  <2>2. ASSUME NEW x \in Failure PROVE Counted(x) \in Failure
    BY ConstantsOK DEF Failure, Counted
  <2>. QED BY <2>1, <2>2
<1>6. MustWait(Counted(FailureOf(group, from))) \in BOOLEAN
  BY DEF MustWait
<1>. QED BY <1>3, <1>4, <1>5, <1>6 DEF LeaveCheck

\* A scan that finds nothing keeps the count.
LEMMA ScanCount == ASSUME TypeOK, CountInv, Scan PROVE CountInv'
<1> USE DEF Scan, serviceVars, LeaveCheck
<1>1. /\ failures \in [Groups -> Failure] /\ streak \in [Groups -> Streak] /\ group \in Groups
      /\ settings' = settings /\ pc' # "dead"
  BY DEF TypeOK
<1>2. CASE /\ failures' = [failures EXCEPT ![group] = NoFailure]
           /\ streak' = [streak EXCEPT ![group] = NoStreak]
  BY <1>1, <1>2, NoneTypes, ClearedCount
<1>3. CASE /\ failures' = [failures EXCEPT ![group] = BackedOff(failures[group])]
           /\ streak' = [streak EXCEPT ![group] = FoundNothing(streak[group])]
  <2>1. /\ failures'[group].node = failures[group].node
        /\ failures'[group].count = failures[group].count
    BY <1>1, <1>3 DEF BackedOff, Failure
  <2>2. /\ streak'[group].node = streak[group].node
        /\ streak'[group].fails = streak[group].fails
    BY <1>1, <1>3 DEF FoundNothing, Streak
  <2>3. \A g \in Groups : g # group => failures'[g] = failures[g] /\ streak'[g] = streak[g]
    BY <1>1, <1>3
  <2>. QED BY <1>1, <2>1, <2>2, <2>3 DEF CountInv
<1>. QED BY <1>2, <1>3

\* The node a check has probed is a node.
LEMMA ProbedNode == ASSUME RestoreInv, pc = "probeCurrent" PROVE from # None
BY ConstantsOK DEF RestoreInv

\* The checker's count is never ahead of the failures in a row.
LEMMA NextCount ==
    ASSUME TypeOK, RestoreInv, CountInv, [Next]_vars PROVE CountInv'
<1>1. failures \in [Groups -> Failure] /\ streak \in [Groups -> Streak] /\ group \in Groups
  BY DEF TypeOK
<1>2. CASE StartRound
  BY <1>2, NoneTypes, ClearedCount DEF StartRound
<1>3. CASE EndRound \/ Lock \/ Compare \/ Set \/ Return \/ ProbeOrigin
           \/ \E g \in Groups : CheckRestore(g)
  <2>1. UNCHANGED <<failures, streak, settings>> /\ pc' # "dead"
    BY <1>3 DEF EndRound, Lock, Compare, Set, Return, ProbeOrigin, CheckRestore, GiveUp,
                LeaveCheck, serviceVars, histVars
  <2>. QED BY <2>1 DEF CountInv
<1>4. CASE Observe
  BY <1>1, <1>4, NoneTypes, ClearedCount DEF Observe, LeaveCheck, serviceVars
<1>5. CASE ProbeCurrent
  BY <1>5, ProbedNode, ProbeCurrentCount DEF ProbeCurrent
<1>6. CASE Scan
  BY <1>6, ScanCount
<1>7. CASE Remember
  <2>1. /\ settings' = settings /\ pc' = "pick"
        /\ \/ UNCHANGED <<failures, streak>>
           \/ /\ failures' = [failures EXCEPT ![group] = NoFailure]
              /\ streak' = [streak EXCEPT ![group] = NoStreak]
    BY <1>7 DEF Remember, LeaveCheck, serviceVars
  <2>. QED BY <1>1, <2>1, NoneTypes, ClearedCount
<1>8. CASE Die \/ DropRuntime
  <2>1. /\ settings' = settings
        /\ \A g \in Groups : failures'[g] = NoFailure /\ streak'[g] = NoStreak
    BY <1>8 DEF Die, DropRuntime, serviceVars
  <2>2. settings.threshold \in Nat
    BY ConstantsOK DEF TypeOK, Settings
  <2>. QED BY <2>1, <2>2 DEF CountInv, NoFailure, NewFailure, NoStreak
<1>9. CASE AppliedFirst \/ \E c \in Clients : Restart(c)
  <2>1. UNCHANGED <<failures, streak>> /\ pc = "dead" /\ settings' \in Profiles \cup {Default}
    BY <1>9, ConstantsOK DEF AppliedFirst, Restart, Restarted, Alive, Effective, TypeOK
  <2>2. settings'.threshold \in Nat
    BY <2>1, ConstantsOK DEF Settings
  <2>. QED BY <2>1, <2>2 DEF CountInv
<1>10. CASE \E c \in Clients : Request(c) /\ ~Restart(c)
  <2>1. UNCHANGED <<failures, streak, settings, pc>>
    BY <1>10 DEF Request, Begin, Reject, ManualSelect, Rebuild, PutConfig, Apply, Patch, Abort,
                 serviceVars, checkerVars
  <2>. QED BY <2>1 DEF CountInv
<1>11. CASE SeedOverride \/ SeedRestores \/ ApplyFirst \/ SuspendBegin \/ SuspendEnd
            \/ StopBegin \/ StopEnd \/ Environment \/ UNCHANGED vars
  <2>1. UNCHANGED <<failures, streak, settings, pc>>
    BY <1>11 DEF SeedOverride, SeedRestores, ApplyFirst, SuspendBegin, SuspendEnd, StopBegin,
                 StopEnd, Environment, ProviderRefresh, ChangeWeather, vars, serviceVars,
                 checkerVars, histVars
  <2>. QED BY <2>1 DEF CountInv
<1>. QED
  BY <1>2, <1>3, <1>4, <1>5, <1>6, <1>7, <1>8, <1>9, <1>10, <1>11
     DEF Next, CheckerStep, EngineStep, Ended

\* Whatever restarts, aborts and changes of the settings come in between, the
\* count of a group is of failures in a row of the node it names.
THEOREM CountHolds == Spec => []CountInv
<1>1. Init => CountInv
  <2> SUFFICES ASSUME Init PROVE CountInv
    OBVIOUS
  <2>1. settings.threshold \in Nat
    BY InitTypeOK, ConstantsOK DEF TypeOK, Settings
  <2>. QED BY <2>1 DEF Init, CountInv, NoFailure, NewFailure, NoStreak
<1>. QED BY <1>1, NextCount, TypeCorrect, RestoreInvHolds, PTL DEF Spec

\* Only check_group's probe of the selection starts a scan.
LEMMA ScanStarter == ASSUME Next, StartsScan PROVE ProbeCurrent
BY DEF StartsScan, Next, CheckerStep, StartRound, EndRound, CheckRestore, ProbeOrigin,
       Observe, Scan, Lock, Compare, Set, Return, Remember, Die, Request, Begin, Reject,
       ManualSelect, Rebuild, PutConfig, Apply, Patch, Abort, Restart, Restarted, Alive,
       checkerVars, EngineStep, SeedOverride, SeedRestores, ApplyFirst, AppliedFirst,
       SuspendBegin, SuspendEnd, StopBegin, StopEnd, DropRuntime, Ended, Environment, ProviderRefresh, ChangeWeather,
       LeaveCheck, vars

\* No scan, hence no switch, before failure-threshold consecutive checks found
\* this very node failing, in one task's life and one route table.
THEOREM NoEarlyScan == Spec => ThresholdHeld
<1>1. ASSUME TypeOK, RestoreInv, CountInv, [Next]_vars
      PROVE  [StartsScan => /\ streak'[group].node = from
                            /\ streak'[group].fails >= settings.threshold]_vars
  <2>1. SUFFICES ASSUME StartsScan
                 PROVE  /\ streak'[group].node = from
                        /\ streak'[group].fails >= settings.threshold
    OBVIOUS
  <2>2. ProbeCurrent
    BY <1>1, <2>1, ScanStarter DEF StartsScan, vars
  <2>. QED BY <1>1, <2>1, <2>2, ProbedNode, ProbeCurrentCount DEF ProbeCurrent
<1>. QED
  BY <1>1, TypeCorrect, RestoreInvHolds, CountHolds, PTL DEF Spec, ThresholdHeld

-----------------------------------------------------------------------------
(* The pauses between scans *)

\* A failure record and the history of the failing node agree: before the first
\* empty scan nothing is owed, after it the rounds still to be skipped and those
\* already skipped make up the pause that is due.
InStep(f, s) ==
    /\ f.node = s.node
    /\ \/ s.scans = 0 /\ f.backoff = 0 /\ f.skip = 0
       \/ /\ s.scans > 0 /\ f.node # None /\ f.count >= settings.threshold
          /\ f.backoff > 0 /\ f.backoff = Owed(s) /\ f.skip + s.quiet = f.backoff

\* The checker's records are in step, and it scans for a node that failed often
\* enough, with nothing left to skip.
PauseInv ==
    /\ \A g \in Groups : InStep(failures[g], streak[g])
    /\ pc = "scan" => failures[group].node # None /\ ~MustWait(failures[group])

\* Nothing is owed by a record that was cleared, whatever node it names.
LEMMA ClearedInStep ==
    /\ InStep(NoFailure, NoStreak)
    /\ \A n : InStep(NewFailure(n), [NoStreak EXCEPT !.node = n])
BY DEF InStep, NoFailure, NewFailure, NoStreak

\* What a failing check of n continues is in step.
LEMMA ContinuedInStep ==
    ASSUME PauseInv, NEW g \in Groups, NEW n
    PROVE  InStep(FailureOf(g, n), IF streak[g].node = n THEN streak[g]
                                   ELSE [NoStreak EXCEPT !.node = n])
<1>1. failures[g].node = streak[g].node
  BY DEF PauseInv, InStep
<1>. QED BY <1>1, ClearedInStep DEF PauseInv, FailureOf

\* A round that waits moves one round from those to skip to those skipped; a
\* scan starts when none is left, after exactly the pause that was due.
LEMMA RoundInStep ==
    ASSUME TypeOK, NEW old \in Failure, NEW st \in Streak, NEW new \in Streak,
           NEW w \in BOOLEAN, InStep(old, st), w = MustWait(Counted(old)),
           new.node = st.node, new.scans = st.scans, new.last = st.last,
           new.quiet = IF w /\ st.scans > 0 THEN LowerOf(st.quiet + 1, BackoffCap + 1)
                       ELSE st.quiet
    PROVE  /\ InStep(IF w THEN Waited(Counted(old)) ELSE Counted(old), new)
           /\ ~w => new.scans = 0 \/ new.quiet = Owed(new)
<1> DEFINE f == Counted(old)
<1>1. settings.threshold \in Nat /\ BackoffCap \in Nat
  BY ConstantsOK DEF TypeOK, Settings
<1>2. /\ f \in Failure /\ f.node = old.node /\ f.backoff = old.backoff /\ f.skip = old.skip
      /\ old.count >= settings.threshold => f.count = old.count
  BY <1>1 DEF Counted, Failure
<1>3. /\ f.count \in Nat /\ f.backoff \in 0 .. BackoffCap /\ f.skip \in 0 .. BackoffCap
      /\ st.scans \in Nat /\ st.quiet \in Nat
  BY <1>1, <1>2 DEF Failure, Streak
<1>4. Owed(new) = Owed(st)
  BY DEF Owed
<1>5. w <=> f.count < settings.threshold \/ f.skip > 0
  BY DEF MustWait
<1>6. /\ Waited(f).node = f.node /\ Waited(f).count = f.count /\ Waited(f).backoff = f.backoff
      /\ Waited(f).skip = IF f.skip > 0 THEN f.skip - 1 ELSE 0
  BY <1>2 DEF Waited, Failure
<1> HIDE DEF f
<1>7. CASE st.scans = 0 /\ old.backoff = 0 /\ old.skip = 0
  BY <1>2, <1>6, <1>7 DEF InStep, f
<1>8. CASE /\ st.scans > 0 /\ old.node # None /\ old.count >= settings.threshold
           /\ old.backoff > 0 /\ old.backoff = Owed(st) /\ old.skip + st.quiet = old.backoff
  <2>1. f.count >= settings.threshold /\ f.node # None /\ f.node = new.node
    BY <1>2, <1>8 DEF InStep
  <2>2. f.backoff > 0 /\ f.backoff = Owed(new) /\ f.skip + st.quiet = f.backoff
    BY <1>2, <1>4, <1>8
  <2>3. CASE w
    <3>1. f.skip > 0
      BY <1>1, <1>3, <1>5, <2>1, <2>3
    <3>2. new.quiet = st.quiet + 1
      BY <1>1, <1>3, <1>8, <2>2, <2>3 DEF LowerOf
    <3>3. Waited(f).skip + new.quiet = Waited(f).backoff
      BY <1>1, <1>3, <1>6, <2>2, <3>1, <3>2
    <3>. QED BY <1>6, <1>8, <2>1, <2>2, <2>3, <3>3 DEF InStep, f
  <2>4. CASE ~w
    <3>1. f.skip = 0 /\ new.quiet = st.quiet
      BY <1>1, <1>3, <1>5, <2>4
    <3>2. new.quiet = f.backoff
      BY <1>1, <1>3, <2>2, <3>1
    <3>. QED BY <1>8, <2>1, <2>2, <2>4, <3>1, <3>2 DEF InStep, f
  <2>. QED BY <2>3, <2>4
<1>. QED BY <1>7, <1>8 DEF InStep

\* check_group's probe keeps the records in step, and lets a scan start only
\* after the pause that was due.
LEMMA ProbeCurrentPause ==
    ASSUME TypeOK, PauseInv, ProbeCurrent, from # None
    PROVE  /\ PauseInv'
           /\ StartsScan => \/ streak'[group].scans = 0
                            \/ streak'[group].quiet = Owed(streak'[group])
<1> DEFINE old == FailureOf(group, from)
           st  == IF streak[group].node = from THEN streak[group] ELSE [NoStreak EXCEPT !.node = from]
           w   == MustWait(Counted(old))
           new == Failing(group, from, w)
<1>1. /\ failures \in [Groups -> Failure] /\ streak \in [Groups -> Streak] /\ group \in Groups
      /\ settings' = settings /\ group' = group /\ from \in NodeOrNone
  BY DEF TypeOK, ProbeCurrent, serviceVars
<1>2. CASE /\ failures' = [failures EXCEPT ![group] = NoFailure]
           /\ streak' = [streak EXCEPT ![group] = NoStreak] /\ pc' = "pick"
  BY <1>1, <1>2, ClearedInStep DEF PauseInv, InStep, StartsScan
<1>3. CASE /\ streak' = [streak EXCEPT ![group] = new]
           /\ failures' = [failures EXCEPT ![group] = IF w THEN Waited(Counted(old)) ELSE Counted(old)]
           /\ pc' = IF w THEN "pick" ELSE "scan"
  <2>1. old \in Failure /\ st \in Streak
    BY <1>1, NoneTypes DEF FailureOf, Streak
  <2>2. InStep(old, st)
    BY <1>1, ContinuedInStep
  <2>3. /\ new.node = st.node /\ new.scans = st.scans /\ new.last = st.last
        /\ new.quiet = IF w /\ st.scans > 0 THEN LowerOf(st.quiet + 1, BackoffCap + 1)
                       ELSE st.quiet
    <3> HIDE DEF w
    <3>. QED BY <2>1 DEF Failing, Streak
  <2>4. new \in Streak
    <3>1. settings.threshold \in Nat /\ BackoffCap \in Nat
      BY ConstantsOK DEF TypeOK, Settings
    <3>2. ASSUME NEW x \in Streak, NEW i \in Nat, NEW j \in Nat
          PROVE  [x EXCEPT !.fails = i, !.quiet = j] \in Streak
      BY DEF Streak
    <3>3. /\ LowerOf(st.fails + 1, settings.threshold) \in Nat
          /\ (IF w /\ st.scans > 0 THEN LowerOf(st.quiet + 1, BackoffCap + 1) ELSE st.quiet) \in Nat
      BY <2>1, <3>1 DEF LowerOf, Streak
    <3> HIDE DEF w
    <3>. QED BY <2>1, <3>2, <3>3 DEF Failing
  <2>5. w \in BOOLEAN
    BY DEF MustWait
  <2> HIDE DEF old, st, new, w
  <2>6. /\ InStep(IF w THEN Waited(Counted(old)) ELSE Counted(old), new)
        /\ ~w => new.scans = 0 \/ new.quiet = Owed(new)
    <3>1. w = MustWait(Counted(old))
      BY DEF w
    <3>. QED BY <2>1, <2>2, <2>3, <2>4, <2>5, <3>1, RoundInStep
  <2>7. /\ failures'[group] = IF w THEN Waited(Counted(old)) ELSE Counted(old)
        /\ streak'[group] = new
        /\ \A g \in Groups \ {group} : failures'[g] = failures[g] /\ streak'[g] = streak[g]
    BY <1>1, <1>3
  <2>8. \A g \in Groups : InStep(failures'[g], streak'[g])
    BY <2>6, <2>7 DEF PauseInv
  <2>9. (\A g \in Groups : InStep(failures[g], streak[g]))'
    BY <1>1, <2>8 DEF InStep
  <2>10. ASSUME pc' = "scan" PROVE failures'[group].node # None /\ ~MustWait(failures'[group])
    <3>1. ~w /\ failures'[group] = Counted(old)
      BY <1>3, <2>7, <2>10
    <3>2. w = MustWait(Counted(old)) /\ st.node = from
      BY <1>1 DEF w, st, NoStreak
    <3>3. new.node = from
      BY <2>3, <3>2
    <3>. QED BY <2>6, <3>1, <3>2, <3>3 DEF InStep
  <2>11. (pc = "scan" => failures[group].node # None /\ ~MustWait(failures[group]))'
    BY <1>1, <2>10 DEF MustWait
  <2>12. PauseInv'
    BY <2>9, <2>11 DEF PauseInv
  <2>13. StartsScan => ~w
    BY <1>3 DEF StartsScan
  <2>. QED BY <2>6, <2>7, <2>12, <2>13
<1>4. \/ /\ failures' = [failures EXCEPT ![group] = NoFailure]
         /\ streak' = [streak EXCEPT ![group] = NoStreak] /\ pc' = "pick"
      \/ /\ streak' = [streak EXCEPT ![group] = new]
         /\ failures' = [failures EXCEPT ![group] = IF w THEN Waited(Counted(old)) ELSE Counted(old)]
         /\ pc' = IF w THEN "pick" ELSE "scan"
  BY DEF ProbeCurrent, LeaveCheck
<1>. QED BY <1>2, <1>3, <1>4

\* An empty scan doubles the pause, from nothing to one round and up to the cap.
LEMMA ScanPause == ASSUME TypeOK, PauseInv, Scan PROVE PauseInv'
<1>1. /\ failures \in [Groups -> Failure] /\ streak \in [Groups -> Streak] /\ group \in Groups
      /\ settings' = settings /\ group' = group /\ pc = "scan" /\ pc' # "scan"
  BY DEF TypeOK, Scan, serviceVars, LeaveCheck
<1>2. CASE /\ failures' = [failures EXCEPT ![group] = NoFailure]
           /\ streak' = [streak EXCEPT ![group] = NoStreak]
  BY <1>1, <1>2, ClearedInStep DEF PauseInv, InStep
<1>3. CASE /\ failures' = [failures EXCEPT ![group] = BackedOff(failures[group])]
           /\ streak' = [streak EXCEPT ![group] = FoundNothing(streak[group])]
  <2> DEFINE f == failures[group]
             s == streak[group]
             b == NextBackoff(f.backoff)
  <2>1. /\ f \in Failure /\ s \in Streak /\ InStep(f, s)
        /\ f.node # None /\ ~(f.count < settings.threshold) /\ ~(f.skip > 0)
    BY <1>1 DEF PauseInv, MustWait
  <2>2. /\ settings.threshold \in Nat /\ BackoffCap \in Nat \ {0}
        /\ f.count \in Nat /\ f.backoff \in Nat /\ f.backoff <= BackoffCap /\ f.skip \in Nat
        /\ s.scans \in 0 .. 2 /\ s.quiet \in Nat
    BY <2>1, ConstantsOK DEF TypeOK, Settings, Failure, Streak
  <2>3. /\ BackedOff(f).node = f.node /\ BackedOff(f).count = f.count
        /\ BackedOff(f).backoff = b /\ BackedOff(f).skip = b
    BY <2>1 DEF BackedOff, Failure
  <2>4. /\ FoundNothing(s).node = s.node /\ FoundNothing(s).quiet = 0
        /\ FoundNothing(s).last = s.quiet
        /\ FoundNothing(s).scans = IF s.scans = 0 THEN 1 ELSE 2
    BY <2>1, <2>2 DEF FoundNothing, Streak, LowerOf
  <2>5. b \in Nat /\ b > 0 /\ b = Owed(FoundNothing(s))
    <3>1. CASE s.scans = 0
      <4>1. f.backoff = 0
        BY <2>1, <2>2, <3>1 DEF InStep
      <4>. QED BY <2>2, <2>4, <3>1, <4>1 DEF Owed, NextBackoff, LowerOf, HigherOf
    <3>2. CASE s.scans # 0
      <4>1. f.backoff > 0 /\ s.quiet = f.backoff
        BY <2>1, <2>2, <3>2 DEF InStep
      <4>. QED BY <2>2, <2>4, <3>2, <4>1 DEF Owed, NextBackoff, LowerOf, HigherOf
    <3>. QED BY <3>1, <3>2
  <2>6. f.node = s.node /\ f.count >= settings.threshold
    BY <2>1, <2>2 DEF InStep
  <2> HIDE DEF f, s, b
  <2>7. InStep(BackedOff(f), FoundNothing(s))
    BY <2>1, <2>2, <2>3, <2>4, <2>5, <2>6 DEF InStep
  <2>8. \A g \in Groups : InStep(failures'[g], streak'[g])
    BY <1>1, <1>3, <2>7 DEF PauseInv, f, s
  <2>. QED BY <1>1, <2>8 DEF PauseInv, InStep
<1>. QED BY <1>2, <1>3 DEF Scan

\* Every other step leaves records and history alone, or clears both.
LEMMA NextPause ==
    ASSUME TypeOK, RestoreInv, CountInv, PauseInv, [Next]_vars PROVE PauseInv'
<1>1. failures \in [Groups -> Failure] /\ streak \in [Groups -> Streak] /\ group \in Groups
  BY DEF TypeOK
<1>2. ASSUME settings' = settings, pc' # "scan",
             \A g \in Groups : \/ failures'[g] = failures[g] /\ streak'[g] = streak[g]
                               \/ failures'[g] = NoFailure /\ streak'[g] = NoStreak
      PROVE  PauseInv'
  BY <1>2, ClearedInStep DEF PauseInv, InStep
<1>3. CASE StartRound \/ EndRound \/ Lock \/ Compare \/ Set \/ Return \/ ProbeOrigin \/ Observe
           \/ Remember \/ \E g \in Groups : CheckRestore(g)
  <2>1. settings' = settings /\ pc' # "scan"
    BY <1>3 DEF StartRound, EndRound, Lock, Compare, Set, Return, ProbeOrigin, Observe, Remember,
                CheckRestore, GiveUp, LeaveCheck, serviceVars
  <2>2. \/ UNCHANGED <<failures, streak>>
        \/ /\ failures' = [g \in Groups |-> NoFailure]
           /\ streak' = [g \in Groups |-> NoStreak]
        \/ /\ failures' = [failures EXCEPT ![group] = NoFailure]
           /\ streak' = [streak EXCEPT ![group] = NoStreak]
    BY <1>3 DEF StartRound, EndRound, Lock, Compare, Set, Return, ProbeOrigin, Observe, Remember,
                CheckRestore, histVars
  <2>. QED BY <1>1, <1>2, <2>1, <2>2
<1>4. CASE ProbeCurrent
  BY <1>4, ProbedNode, ProbeCurrentPause DEF ProbeCurrent
<1>5. CASE Scan
  BY <1>5, ScanPause
<1>6. CASE Die \/ DropRuntime
  <2>1. /\ settings' = settings /\ pc' = "dead"
        /\ \A g \in Groups : failures'[g] = NoFailure /\ streak'[g] = NoStreak
    BY <1>6 DEF Die, DropRuntime, serviceVars, LeaveCheck
  <2>. QED BY <1>2, <2>1
<1>7. CASE AppliedFirst \/ \E c \in Clients : Restart(c)
  <2>1. UNCHANGED <<failures, streak>> /\ pc = "dead" /\ pc' # "scan"
    BY <1>7 DEF AppliedFirst, Restart, Restarted, Alive
  <2>2. \A g \in Groups : failures[g].node = None
    BY <2>1 DEF CountInv
  <2>. QED BY <2>1, <2>2 DEF PauseInv, InStep
<1>8. CASE \E c \in Clients : Request(c) /\ ~Restart(c)
  <2>1. UNCHANGED <<failures, streak, settings, pc, group>>
    BY <1>8 DEF Request, Begin, Reject, ManualSelect, Rebuild, PutConfig, Apply, Patch, Abort,
                serviceVars, checkerVars, checkVars
  <2>. QED BY <2>1 DEF PauseInv, InStep, MustWait
<1>9. CASE SeedOverride \/ SeedRestores \/ ApplyFirst \/ SuspendBegin \/ SuspendEnd
           \/ StopBegin \/ StopEnd \/ Environment \/ UNCHANGED vars
  <2>1. UNCHANGED <<failures, streak, settings, pc, group>>
    BY <1>9 DEF SeedOverride, SeedRestores, ApplyFirst, SuspendBegin, SuspendEnd, StopBegin,
                StopEnd, Environment, ProviderRefresh, ChangeWeather, vars, serviceVars,
                 checkerVars, checkVars, histVars
  <2>. QED BY <2>1 DEF PauseInv, InStep, MustWait
<1>. QED
  BY <1>3, <1>4, <1>5, <1>6, <1>7, <1>8, <1>9 DEF Next, CheckerStep, EngineStep, Ended

\* The checker's record of a failing node is in step with what really happened.
THEOREM PauseHolds == Spec => []PauseInv
<1>1. Init => PauseInv
  BY ClearedInStep DEF Init, PauseInv
<1>. QED BY <1>1, NextPause, TypeCorrect, RestoreInvHolds, CountHolds, PTL DEF Spec

\* Between two scans of a failing node the checker lets exactly the owed rounds
\* pass: one after the first, then twice as many each time, up to the cap.
THEOREM PausesDouble == Spec => ScanPacing
<1>1. ASSUME TypeOK, RestoreInv, PauseInv, [Next]_vars
      PROVE  [StartsScan => \/ streak'[group].scans = 0
                            \/ streak'[group].quiet = Owed(streak'[group])]_vars
  BY <1>1, ScanStarter, ProbedNode, ProbeCurrentPause DEF ProbeCurrent
<1>. QED
  BY <1>1, TypeCorrect, RestoreInvHolds, PauseHolds, PTL DEF Spec, ScanPacing

-----------------------------------------------------------------------------
(* What a reload carries over *)

\* suspend_for_reload() returns this.
Carried == [override |-> override, restores |-> restores]

\* The next session begins with what Saved holds: restores that the carried override
\* allows, or, without one, the settings of some profile.
SuspendsWhole == engine = "suspending" => Carried \in Saved

\* Only valid settings override, only the profile's are configured once the first
\* apply() has begun, and what is not pending is not there.
CarryInv ==
    /\ override \in Patched \cup {None}
    /\ engine \notin {"serving", "seeding", "seeded", "down"} => configured \in Profiles
    /\ engine \notin Starting \cup {"down"} => settings \in Profiles
    /\ \A g \in Groups : Pending(g) \/ restores[g] = NoRestore

\* restart() carries nothing over but what it keeps.
LEMMA RestartedCarry ==
    ASSUME CarryInv, Restarted
    PROVE  /\ \A g \in Groups : restores'[g].origin # None \/ restores'[g] = NoRestore
           /\ configured \in Profiles => settings' \in Profiles
           /\ UNCHANGED <<override, configured>>
<1>1. ASSUME NEW g \in Groups PROVE restores'[g] = NoRestore \/ restores'[g] = restores[g]
  BY DEF Restarted
<1>2. configured \in Profiles => settings' \in Profiles
  BY DEF Restarted, Effective, CarryInv, Patched
<1>. QED BY <1>1, <1>2 DEF CarryInv, Pending, Restarted

\* The checker's record of a group is a pending restore or none.
LEMMA CheckerCarry == ASSUME TypeOK, RestoreInv, CarryInv, CheckerStep PROVE CarryInv'
<1>1. UNCHANGED <<override, configured, settings, engine>>
  BY DEF CheckerStep, StartRound, EndRound, CheckRestore, ProbeOrigin, Observe, ProbeCurrent,
         Scan, Lock, Compare, Set, Return, Remember, Die, serviceVars
<1>2. ASSUME NEW g \in Groups PROVE restores'[g].origin # None \/ restores'[g] = NoRestore
  <2>1. CASE ProbeOrigin
    <3>1. PICK r \in Checked(group) :
          \/ \E n \in Nat : restores' = [restores EXCEPT ![group] = [r EXCEPT !.successes = n]]
          \/ restores' = [restores EXCEPT ![group] = NoRestore]
      BY <2>1, CheckedPicked
    <3>2. restores \in [Groups -> Restore] /\ (Pending(g) \/ restores[g] = NoRestore)
      BY DEF TypeOK, CarryInv
    <3>3. r \in Restore /\ r.origin # None
      BY <2>1, ConstantsOK DEF ProbeOrigin, Checked, RestoreInv, Pending, TypeOK, Restore
    <3>4. CASE g # group
      <4>1. restores'[g] = restores[g]
        BY <3>1, <3>2, <3>4
      <4>. QED BY <3>2, <4>1 DEF Pending
    <3>5. CASE g = group
      <4>1. restores'[g] = NoRestore \/ restores'[g].origin = r.origin
        BY <3>1, <3>2, <3>3, <3>5 DEF Restore
      <4>. QED BY <3>3, <4>1
    <3>. QED BY <3>4, <3>5
  <2>2. CASE Remember /\ kind = "switch"
    <3>1. from \in Leaves /\ from # None
      BY <2>2, ConstantsOK DEF Remember, RestoreInv, ChangePoints
    <3>2. restores[group].target = from => restores[group].origin # None
      BY <3>1 DEF RestoreInv, Pending, TypeOK
    <3>3. restores' = RememberOrigin(group)
      BY <2>2 DEF Remember
    <3>. QED BY <3>1, <3>2, <3>3 DEF RememberOrigin, CarryInv, Pending, TypeOK
  <2>3. CASE \E h \in Groups : CheckRestore(h)
    BY <2>3 DEF CheckRestore, CarryInv, Pending, TypeOK
  <2>4. CASE ~(ProbeOrigin \/ (Remember /\ kind = "switch") \/ \E h \in Groups : CheckRestore(h))
    <3>1. UNCHANGED restores
      BY <2>4 DEF CheckerStep, StartRound, EndRound, Observe, ProbeCurrent, Scan, Lock, Compare,
                  Set, Return, Remember, Die
    <3>. QED BY <3>1 DEF CarryInv, Pending
  <2>. QED BY <2>1, <2>2, <2>3, <2>4
<1>. QED BY <1>1, <1>2 DEF CarryInv, Pending

\* What a session is, it can hand over.
LEMMA NextCarry == ASSUME TypeOK, RestoreInv, CarryInv, [Next]_vars PROVE CarryInv'
<1>1. CASE CheckerStep
  BY <1>1, CheckerCarry
<1>2. ASSUME NEW c \in Clients, Request(c), ~Restart(c) PROVE CarryInv'
  <2>1. UNCHANGED <<settings, restores, engine>> /\ override' \in Patched \cup {None}
        /\ (configured' = configured \/ configured' \in Profiles)
    BY <1>2 DEF Request, Begin, Reject, ManualSelect, Rebuild, PutConfig, Apply, Patch, Abort,
                serviceVars, CarryInv
  <2>. QED BY <2>1 DEF CarryInv, Pending
<1>3. ASSUME NEW c \in Clients, Restart(c) PROVE CarryInv'
  <2>1. engine' = engine
    BY <1>3 DEF Restart
  <2>. QED BY <1>3, <2>1, RestartedCarry DEF Restart, CarryInv, Pending, Starting
<1>4. CASE SeedOverride
  <2>1. override' \in Patched \cup {None}
    BY <1>4, SavedOverride DEF SeedOverride, TypeOK
  <2>. QED BY <1>4, <2>1 DEF SeedOverride, CarryInv, Pending, Starting
<1>5. CASE SeedRestores
  <2>1. \A g \in Groups : restores'[g].origin # None \/ restores'[g] = NoRestore
    BY <1>5, SavedTypes, ConstantsOK DEF SeedRestores, TypeOK
  <2>. QED BY <1>5, <2>1 DEF SeedRestores, CarryInv, Pending, Starting
<1>6. CASE AppliedFirst
  BY <1>6, RestartedCarry DEF AppliedFirst, CarryInv, Pending, Starting
<1>7. CASE ApplyFirst \/ SuspendBegin \/ SuspendEnd \/ StopBegin \/ StopEnd \/ DropRuntime
  <2>1. UNCHANGED <<settings, override, restores>>
        /\ (configured' = configured \/ configured' \in Profiles)
    BY <1>7 DEF ApplyFirst, SuspendBegin, SuspendEnd, StopBegin, StopEnd, DropRuntime, serviceVars
  <2>2. /\ engine' \in Starting \cup {"down"} \/ engine \notin Starting \cup {"down"}
        /\ \/ engine' \in {"serving", "seeding", "seeded", "down"}
           \/ configured' \in Profiles
           \/ engine \notin {"serving", "seeding", "seeded", "down"}
    BY <1>7 DEF ApplyFirst, SuspendBegin, SuspendEnd, StopBegin, StopEnd, DropRuntime, Starting
  <2>. QED BY <2>1, <2>2 DEF CarryInv, Pending
<1>8. CASE Environment \/ Ended \/ UNCHANGED vars
  <2>1. UNCHANGED <<settings, override, configured, restores, engine>>
    BY <1>8 DEF Environment, ProviderRefresh, ChangeWeather, Ended, vars, serviceVars
  <2>. QED BY <2>1 DEF CarryInv, Pending
<1>. QED BY <1>1, <1>2, <1>3, <1>4, <1>5, <1>6, <1>7, <1>8 DEF Next, EngineStep

\* A session begins like that.
LEMMA InitCarry == Init => CarryInv
<1> SUFFICES ASSUME Init PROVE CarryInv
  OBVIOUS
<1>1. CASE Serving
  BY <1>1 DEF Serving, CarryInv, Starting
<1>2. CASE Started
  <2>1. PICK begun \in Saved \cup {[override |-> None, restores |-> [g \in Groups |-> NoRestore]]} :
           /\ configured \in Profiles /\ override = begun.override
           /\ settings = Effective
           /\ restores = [g \in Groups |-> IF Keeps(settings, g) THEN begun.restores[g]
                                           ELSE NoRestore]
    BY <1>2 DEF Started
  <2>2. /\ begun.override \in Patched \cup {None}
        /\ \A g \in Groups : begun.restores[g].origin # None \/ begun.restores[g] = NoRestore
    <3>1. CASE begun \in Saved
      BY <3>1, SavedTypes, SavedOverride, ConstantsOK
    <3>2. CASE begun = [override |-> None, restores |-> [g \in Groups |-> NoRestore]]
      BY <3>2
    <3>. QED BY <3>1, <3>2
  <2>3. settings \in Profiles
    BY <2>1, <2>2 DEF Effective, Patched
  <2>4. \A g \in Groups : restores[g].origin # None \/ restores[g] = NoRestore
    BY <2>1, <2>2
  <2>. QED BY <2>1, <2>2, <2>3, <2>4 DEF CarryInv, Pending
<1>. QED BY <1>1, <1>2 DEF Init

\* Whatever requests, rounds and earlier reloads did, what a suspended session hands to
\* the next is consistent in itself: the restores are between leaves, and of groups for
\* which the very settings that go with them ask for restores.
THEOREM ReloadCarriesWhole == Spec => []SuspendsWhole
<1>1. ASSUME TypeOK, RestoreInv, LifecycleInv, CarryInv PROVE SuspendsWhole
  <2> SUFFICES ASSUME engine = "suspending" PROVE Carried \in Saved
    BY DEF SuspendsWhole
  <2>1. lifecycle \notin Clients /\ engine \notin Starting \cup {"down"} /\ engine \notin TakingOver
    BY <1>1, ConstantsOK DEF LifecycleInv, Joining, Starting, TakingOver
  <2>2. settings \in Profiles /\ (override # None => settings = override /\ override \in Patched)
    BY <1>1, <2>1 DEF LifecycleInv, CarryInv
  <2>3. restores \in RestoresFor(settings)
    BY <1>1, <2>1 DEF TypeOK, RestoreInv, RestoresAllowed, CarryInv, Keeps, RestoresFor
  <2>4. CASE override # None
    <3>1. Carried \in [override : {override}, restores : RestoresFor(override)]
      BY <2>2, <2>3, <2>4 DEF Carried
    <3>. QED BY <2>2, <2>4, <3>1 DEF Saved
  <2>5. CASE override = None
    <3>1. Carried \in [override : {None}, restores : RestoresFor(settings)]
      BY <2>3, <2>5 DEF Carried
    <3>. QED BY <2>2, <3>1 DEF Saved
  <2>. QED BY <2>4, <2>5
<1>2. Spec => []CarryInv
  BY InitCarry, NextCarry, TypeCorrect, RestoreInvHolds, PTL DEF Spec
<1>. QED BY <1>1, <1>2, TypeCorrect, RestoreInvHolds, LifecycleHolds, PTL
=============================================================================

--------------------------- MODULE SessionProofs ----------------------------
(***************************************************************************)
(* Proofs about Session, for any number of Java threads, profiles and DNS  *)
(* lists: its type invariant, what Java believes of the session, that TUN  *)
(* never runs with unmarked sockets, that no lock is left held, and that   *)
(* it implements SessionPromise.                                           *)
(*                                                                         *)
(* All rest on one inductive invariant, which says who holds which         *)
(* lock at each place and what reload() has in hand there.                 *)
(***************************************************************************)
EXTENDS Session, TLAPS

\* Whoever is inside a locked operation holds LIFECYCLE, and inside reload()
\* OPERATION as well.
Held ==
    /\ \A t \in Threads : at[t] \notin {"idle", "notify"} => lifecycle = t
    /\ \A t \in Threads : at[t] \in {"copied", "suspended"} \cup Launching <=> loading = t

\* The session runs behind protection, TUN belongs to it, and the app marks.
Sound ==
    /\ session # None => protected
    /\ tun => session # None /\ callback

\* s runs the profile of p, with every change that p has.
Matches(p, s) ==
    /\ p = None <=> s = None
    /\ p # None => p.config = s.config /\ (p.edited => s.edited) /\ (p.override => s.override)

\* What reload() found is as sound, and its copy can bring back that profile.
Kept ==
    \A t \in Threads :
        /\ at[t] \in {"copied", "suspended"} => Matches(prior, session)
        /\ at[t] \in {"suspended"} \cup Launching => (prior # None /\ prior.override => overridden)
        /\ at[t] \in Launching =>
            /\ Matches(prior, before.session)
            /\ before.session # None => before.protected /\ before.session.config = mode
            /\ before.tun => before.session # None /\ callback
        /\ at[t] \in {"relaunch", "redevice"} => prior # None

\* What the engine is at each place.
Placed ==
    \A t \in Threads :
        /\ at[t] \in {"read", "renotify", "start"} => session = None
        /\ at[t] \in {"launch", "relaunch"} =>
            session = None /\ ~tun /\ dns = NoServers /\ ~protected
        /\ at[t] \in {"device", "redevice"} =>
            session # None /\ ~tun /\ protected /\ dns = before.dns
        /\ at[t] \in {"device", "loaded"} => session # None /\ session.config = target
        /\ at[t] \in {"device", "redevice"} => (overridden => session.override)
        /\ at[t] = "redevice" => session.config = prior.config /\ (prior.edited => session.edited)
        /\ at[t] \in {"guard", "open"} => callback
        /\ at[t] = "forget" => ~tun

\* Java's mode is the running profile's except while a load is succeeding.
Agrees ==
    session # None /\ (\A t \in Threads : at[t] \notin {"device", "loaded"})
        => session.config = mode

IInv == SessionTypeOK /\ Held /\ Sound /\ Kept /\ Placed /\ Agrees

-----------------------------------------------------------------------------
(* Each action preserves the invariant *)

\* A running session is no None, and an edit keeps its profile.
LEMMA Values ==
    /\ None \notin Contents
    /\ \A c \in Configs : Running(c) \in Contents /\ Running(c).config = c
    /\ \A s \in Contents, o \in BOOLEAN :
        /\ s.override \in BOOLEAN
        /\ [s EXCEPT !.override = o] \in Contents
        /\ [s EXCEPT !.override = o].config = s.config
        /\ [s EXCEPT !.override = o].edited = s.edited
        /\ [s EXCEPT !.override = o].override = o
    /\ \A s \in Contents :
        /\ [s EXCEPT !.edited = TRUE] \in Contents
        /\ [s EXCEPT !.edited = TRUE].config = s.config
        /\ [s EXCEPT !.edited = TRUE].edited
        /\ [s EXCEPT !.edited = TRUE].override = s.override
BY SessionAssumption DEF Contents, Running

\* Engine packs the library's four variables.
LEMMA Readable == Engine.session = session /\ Engine.tun = tun /\ Engine.dns = dns /\ Engine.protected = protected
BY DEF Engine

\* Their types, and those of what reload() found.
LEMMA EngineTypes ==
    ASSUME SessionTypeOK
    PROVE  /\ session \in Contents \cup {None} /\ tun \in BOOLEAN /\ dns \in Lists /\ protected \in BOOLEAN
           /\ before.session \in Contents \cup {None} /\ before.tun \in BOOLEAN
           /\ before.dns \in Lists /\ before.protected \in BOOLEAN
           /\ Nothing \in Engines
BY ListsAssumption DEF SessionTypeOK, Engine, Engines, Nothing

\* What the control API does to the session.
LEMMA Edited ==
    ASSUME SessionTypeOK, Edit
    PROVE  /\ session \in Contents /\ session' \in Contents /\ session' # None
           /\ session'.config = session.config
           /\ session.edited => session'.edited
           /\ session.override => session'.override
<1>1. session \in Contents
  BY EngineTypes DEF Edit
<1>2. CASE session' = [session EXCEPT !.edited = TRUE]
  BY <1>1, <1>2, Values
<1>3. CASE session' = [session EXCEPT !.override = TRUE]
  <2>1. /\ [session EXCEPT !.override = TRUE] \in Contents
        /\ [session EXCEPT !.override = TRUE].config = session.config
        /\ [session EXCEPT !.override = TRUE].edited = session.edited
        /\ [session EXCEPT !.override = TRUE].override = TRUE
    BY <1>1, Values
  <2>. QED BY <1>1, <1>3, <2>1, Values
<1>. QED BY <1>2, <1>3 DEF Edit

\* reset() takes LIFECYCLE.
LEMMA ResetInv == ASSUME IInv, NEW t \in Threads, Reset(t) PROVE IInv'
<1> USE SessionAssumption, ListsAssumption DEF Reset, Enter, Goes, IInv, engineVars, reloadVars, javaVars
<1>1. SessionTypeOK'
  BY DEF SessionTypeOK, Engine, Engines, Contents, Launching
<1>2. Held'
  BY DEF SessionTypeOK, Held, Launching
<1>3. Sound'
  BY DEF SessionTypeOK, Held, Sound, Kept, Placed, Launching
<1>4. Kept'
  BY DEF SessionTypeOK, Engines, Engine, Contents, Held, Sound, Kept, Placed, Agrees, Matches, Launching
<1>5. Placed'
  BY DEF SessionTypeOK, Engines, Engine, Contents, Held, Sound, Kept, Placed, Matches, Launching
<1>6. Agrees'
  BY DEF SessionTypeOK, Engines, Engine, Contents, Held, Kept, Placed, Agrees, Matches, Launching
<1>. QED BY <1>1, <1>2, <1>3, <1>4, <1>5, <1>6

\* Its stop() leaves nothing.
LEMMA ResetStopsInv == ASSUME IInv, NEW t \in Threads, ResetStops(t) PROVE IInv'
<1> USE SessionAssumption, ListsAssumption DEF ResetStops, Calls, Becomes, Nothing, Goes, IInv, engineVars, reloadVars, javaVars
<1>1. SessionTypeOK'
  BY DEF SessionTypeOK, Engine, Engines, Contents, Launching
<1>2. Held'
  BY DEF SessionTypeOK, Held, Launching
<1>3. Sound'
  BY DEF SessionTypeOK, Held, Sound, Kept, Placed, Launching
<1>4. Kept'
  BY DEF SessionTypeOK, Engines, Engine, Contents, Held, Sound, Kept, Placed, Agrees, Matches, Launching
<1>5. Placed'
  BY DEF SessionTypeOK, Engines, Engine, Contents, Held, Sound, Kept, Placed, Matches, Launching
<1>6. Agrees'
  BY DEF SessionTypeOK, Engines, Engine, Contents, Held, Kept, Placed, Agrees, Matches, Launching
<1>. QED BY <1>1, <1>2, <1>3, <1>4, <1>5, <1>6

\* It reads Java's list.
LEMMA ResetReadsInv == ASSUME IInv, NEW t \in Threads, ResetReads(t) PROVE IInv'
<1> USE SessionAssumption, ListsAssumption DEF ResetReads, Goes, IInv, engineVars, reloadVars, javaVars
<1>1. SessionTypeOK'
  BY DEF SessionTypeOK, Engine, Engines, Contents, Launching
<1>2. Held'
  BY DEF SessionTypeOK, Held, Launching
<1>3. Sound'
  BY DEF SessionTypeOK, Held, Sound, Kept, Placed, Launching
<1>4. Kept'
  BY DEF SessionTypeOK, Engines, Engine, Contents, Held, Sound, Kept, Placed, Agrees, Matches, Launching
<1>5. Placed'
  BY DEF SessionTypeOK, Engines, Engine, Contents, Held, Sound, Kept, Placed, Matches, Launching
<1>6. Agrees'
  BY DEF SessionTypeOK, Engines, Engine, Contents, Held, Kept, Placed, Agrees, Matches, Launching
<1>. QED BY <1>1, <1>2, <1>3, <1>4, <1>5, <1>6

\* The built-in profile starts, or nothing is left.
LEMMA ResetStartsInv == ASSUME IInv, NEW t \in Threads, ResetStarts(t) PROVE IInv'
<1> USE SessionAssumption, ListsAssumption DEF ResetStarts, Calls, Becomes, Started, Running, Nothing, Leave, Goes, IInv, engineVars, reloadVars, javaVars
<1>0. \/ session' \in Contents /\ session'.config = mode' /\ protected' = TRUE /\ tun' = tun /\ dns' = dns
      \/ UNCHANGED <<session, tun, dns, protected, mode>>
      \/ session' = None /\ protected' = FALSE /\ tun' = FALSE /\ dns' = NoServers
  <2>1. Running(Default) \in Contents /\ Running(Default).config = Default
    BY Values
  <2>2. CASE Becomes(Started(Running(Default))) /\ mode' = Default
    BY <2>1, <2>2
  <2>3. CASE UNCHANGED <<engineVars, mode>>
    BY <2>3
  <2>4. CASE Becomes(Nothing) /\ UNCHANGED mode
    BY <2>4
  <2>. QED BY <2>2, <2>3, <2>4
<1>1. SessionTypeOK'
  BY <1>0, EngineTypes DEF SessionTypeOK, Engine, Engines, Launching
<1>2. Held'
  BY DEF SessionTypeOK, Held, Launching
<1>3. Sound'
  BY <1>0, Values DEF Sound, Placed
<1>4. Kept'
  BY DEF SessionTypeOK, Engines, Engine, Contents, Held, Sound, Kept, Placed, Agrees, Matches, Launching
<1>5. Placed'
  BY DEF SessionTypeOK, Engines, Engine, Contents, Held, Sound, Kept, Placed, Matches, Launching
<1>6. Agrees'
  BY <1>0, Values DEF SessionTypeOK, Held, Placed, Agrees, Launching
<1>. QED BY <1>1, <1>2, <1>3, <1>4, <1>5, <1>6

\* Java's list changes under no lock.
LEMMA NotifyDnsChangedInv == ASSUME IInv, NEW t \in Threads, NEW l \in Lists, NotifyDnsChanged(t, l) PROVE IInv'
<1> USE SessionAssumption, ListsAssumption DEF NotifyDnsChanged, Goes, IInv, engineVars, reloadVars, javaVars
<1>1. SessionTypeOK'
  BY DEF SessionTypeOK, Engine, Engines, Contents, Launching
<1>2. Held'
  BY DEF SessionTypeOK, Held, Launching
<1>3. Sound'
  BY DEF SessionTypeOK, Held, Sound, Kept, Placed, Launching
<1>4. Kept'
  BY DEF SessionTypeOK, Engines, Engine, Contents, Held, Sound, Kept, Placed, Agrees, Matches, Launching
<1>5. Placed'
  BY DEF SessionTypeOK, Engines, Engine, Contents, Held, Sound, Kept, Placed, Matches, Launching
<1>6. Agrees'
  BY DEF SessionTypeOK, Engines, Engine, Contents, Held, Kept, Placed, Agrees, Matches, Launching
<1>. QED BY <1>1, <1>2, <1>3, <1>4, <1>5, <1>6

\* The list comes into effect.
LEMMA NotifiesInv == ASSUME IInv, NEW t \in Threads, Notifies(t) PROVE IInv'
<1> USE SessionAssumption, ListsAssumption DEF Notifies, Calls, Goes, IInv, engineVars, reloadVars, javaVars
<1>1. SessionTypeOK'
  BY DEF SessionTypeOK, Engine, Engines, Contents, Launching
<1>2. Held'
  BY DEF SessionTypeOK, Held, Launching
<1>3. Sound'
  BY DEF SessionTypeOK, Held, Sound, Kept, Placed, Launching
<1>4. Kept'
  BY DEF SessionTypeOK, Engines, Engine, Contents, Held, Sound, Kept, Placed, Agrees, Matches, Launching
<1>5. Placed'
  BY DEF SessionTypeOK, Engines, Engine, Contents, Held, Sound, Kept, Placed, Matches, Launching
<1>6. Agrees'
  BY DEF SessionTypeOK, Engines, Engine, Contents, Held, Kept, Placed, Agrees, Matches, Launching
<1>. QED BY <1>1, <1>2, <1>3, <1>4, <1>5, <1>6

\* The list is rejected, and a reset() abandoned.
LEMMA NotifyRefusedInv == ASSUME IInv, NEW t \in Threads, NotifyRefused(t) PROVE IInv'
<1> USE SessionAssumption, ListsAssumption DEF NotifyRefused, Calls, Goes, IInv, engineVars, reloadVars, javaVars
<1>1. SessionTypeOK'
  BY DEF SessionTypeOK, Engine, Engines, Contents, Launching
<1>2. Held'
  BY DEF SessionTypeOK, Held, Launching
<1>3. Sound'
  BY DEF SessionTypeOK, Held, Sound, Kept, Placed, Launching
<1>4. Kept'
  BY DEF SessionTypeOK, Engines, Engine, Contents, Held, Sound, Kept, Placed, Agrees, Matches, Launching
<1>5. Placed'
  BY DEF SessionTypeOK, Engines, Engine, Contents, Held, Sound, Kept, Placed, Matches, Launching
<1>6. Agrees'
  BY DEF SessionTypeOK, Engines, Engine, Contents, Held, Kept, Placed, Agrees, Matches, Launching
<1>. QED BY <1>1, <1>2, <1>3, <1>4, <1>5, <1>6

\* A load takes LIFECYCLE.
LEMMA LoadInv == ASSUME IInv, NEW t \in Threads, NEW c \in Configs, Load(t, c) PROVE IInv'
<1> USE SessionAssumption, ListsAssumption DEF Load, Enter, Goes, IInv, engineVars, reloadVars, javaVars
<1>1. SessionTypeOK'
  BY DEF SessionTypeOK, Engine, Engines, Contents, Launching
<1>2. Held'
  BY DEF SessionTypeOK, Held, Launching
<1>3. Sound'
  BY DEF SessionTypeOK, Held, Sound, Kept, Placed, Launching
<1>4. Kept'
  BY DEF SessionTypeOK, Engines, Engine, Contents, Held, Sound, Kept, Placed, Agrees, Matches, Launching
<1>5. Placed'
  BY DEF SessionTypeOK, Engines, Engine, Contents, Held, Sound, Kept, Placed, Matches, Launching
<1>6. Agrees'
  BY DEF SessionTypeOK, Engines, Engine, Contents, Held, Kept, Placed, Agrees, Matches, Launching
<1>. QED BY <1>1, <1>2, <1>3, <1>4, <1>5, <1>6

\* A load that touched nothing lets go of both locks.
LEMMA LoadRefusedInv == ASSUME IInv, NEW t \in Threads, LoadRefused(t) PROVE IInv'
<1> USE SessionAssumption, ListsAssumption DEF LoadRefused, Calls, Returns, Nothing, Leave, Goes, IInv, engineVars, reloadVars, javaVars
<1>1. SessionTypeOK'
  BY DEF SessionTypeOK, Engine, Engines, Contents, Launching
<1>2. Held'
  BY DEF SessionTypeOK, Held, Launching
<1>3. Sound'
  BY DEF SessionTypeOK, Held, Sound, Kept, Placed, Launching
<1>4. Kept'
  BY DEF SessionTypeOK, Engines, Engine, Contents, Held, Sound, Kept, Placed, Agrees, Matches, Launching
<1>5. Placed'
  BY DEF SessionTypeOK, Engines, Engine, Contents, Held, Sound, Kept, Placed, Matches, Launching
<1>6. Agrees'
  BY DEF SessionTypeOK, Engines, Engine, Contents, Held, Kept, Placed, Agrees, Matches, Launching
<1>. QED BY <1>1, <1>2, <1>3, <1>4, <1>5, <1>6

\* reload() copies what it would bring back.
LEMMA CopiesInv == ASSUME IInv, NEW t \in Threads, Copies(t) PROVE IInv'
<1> USE SessionAssumption, ListsAssumption DEF Copies, Calls, Goes, IInv, engineVars, reloadVars, javaVars
<1>1. SessionTypeOK'
  BY DEF SessionTypeOK, Engine, Engines, Contents, Launching
<1>2. Held'
  BY DEF SessionTypeOK, Held, Launching
<1>3. Sound'
  BY DEF SessionTypeOK, Held, Sound, Kept, Placed, Launching
<1>4. Kept'
  BY DEF SessionTypeOK, Engines, Engine, Contents, Held, Sound, Kept, Placed, Agrees, Matches, Launching
<1>5. Placed'
  BY DEF SessionTypeOK, Engines, Engine, Contents, Held, Sound, Kept, Placed, Matches, Launching
<1>6. Agrees'
  BY DEF SessionTypeOK, Engines, Engine, Contents, Held, Kept, Placed, Agrees, Matches, Launching
<1>. QED BY <1>1, <1>2, <1>3, <1>4, <1>5, <1>6

\* The override is taken along.
LEMMA SuspendsInv == ASSUME IInv, NEW t \in Threads, Suspends(t) PROVE IInv'
<1> USE SessionAssumption, ListsAssumption DEF Suspends, Goes, IInv, engineVars, reloadVars, javaVars
<1>1. SessionTypeOK'
  BY EngineTypes, Values DEF SessionTypeOK, Engine, Launching
<1>2. Held'
  BY DEF SessionTypeOK, Held, Launching
<1>3. Sound'
  BY DEF Sound
<1>4. Kept'
  <2>1. Matches(prior, session)
    BY DEF Kept
  <2>2. \A s \in Threads \ {t} : at'[s] = at[s] /\ at[s] \notin {"copied", "suspended"} \cup Launching
    BY DEF Held, SessionTypeOK
  <2>3. at'[t] = "suspended" /\ (prior # None /\ prior.override => overridden')
    BY <2>1 DEF SessionTypeOK, Matches
  <2>. QED BY <2>1, <2>2, <2>3 DEF Kept, Launching, Matches
<1>5. Placed'
  BY DEF SessionTypeOK, Held, Placed, Launching
<1>6. Agrees'
  BY DEF SessionTypeOK, Agrees
<1>. QED BY <1>1, <1>2, <1>3, <1>4, <1>5, <1>6

\* reload() keeps what it found and stops it.
LEMMA HaltsInv == ASSUME IInv, NEW t \in Threads, Halts(t) PROVE IInv'
<1> USE SessionAssumption, ListsAssumption DEF Halts, Becomes, Nothing, Engine, Goes, IInv, engineVars, reloadVars, javaVars
<1>1. SessionTypeOK'
  <2>1. Engine' = Nothing /\ before' = Engine
    BY DEF Engine
  <2>. QED BY <2>1, EngineTypes DEF SessionTypeOK, Launching
<1>2. Held'
  BY DEF SessionTypeOK, Held, Launching
<1>3. Sound'
  BY DEF SessionTypeOK, Held, Sound, Kept, Placed, Launching
<1>4. Kept'
  BY DEF SessionTypeOK, Engines, Engine, Contents, Held, Sound, Kept, Placed, Agrees, Matches, Launching
<1>5. Placed'
  BY DEF SessionTypeOK, Engines, Engine, Contents, Held, Sound, Kept, Placed, Matches, Launching
<1>6. Agrees'
  BY DEF SessionTypeOK, Engines, Engine, Contents, Held, Kept, Placed, Agrees, Matches, Launching
<1>. QED BY <1>1, <1>2, <1>3, <1>4, <1>5, <1>6

\* The new profile starts, or the prior one.
LEMMA LaunchesInv == ASSUME IInv, NEW t \in Threads, Launches(t) PROVE IInv'
<1> USE SessionAssumption, ListsAssumption DEF Launches, Becomes, Launched, Running, Goes, IInv, engineVars, reloadVars, javaVars
<1>0. /\ at[t] = "launch" \/ at[t] = "relaunch"
      /\ session' \in Contents /\ session' # None
      /\ tun' = FALSE /\ dns' = before.dns /\ protected' = TRUE
      /\ at[t] = "launch" => session'.config = target /\ at' = [at EXCEPT ![t] = "device"]
      /\ at[t] = "relaunch" =>
            /\ session'.config = prior.config /\ (prior.edited => session'.edited)
            /\ at' = [at EXCEPT ![t] = "redevice"]
      /\ overridden => session'.override
      /\ UNCHANGED <<lifecycle, loading, target, prior, overridden, before, physical, list, callback, mode>>
  <2>1. Running(target) \in Contents /\ Running(target).config = target /\ overridden \in BOOLEAN
    BY Values DEF SessionTypeOK
  <2>2. at[t] = "relaunch" => prior \in Contents
    BY DEF Kept, SessionTypeOK
  <2>3. PICK c \in Contents :
            /\ session' = [c EXCEPT !.override = overridden]
            /\ tun' = FALSE /\ dns' = before.dns /\ protected' = TRUE
            /\ \/ at[t] = "launch" /\ c = Running(target) /\ at' = [at EXCEPT ![t] = "device"]
               \/ at[t] = "relaunch" /\ c = prior /\ at' = [at EXCEPT ![t] = "redevice"]
    BY <2>1, <2>2
  <2>. QED BY <2>1, <2>3, Values
<1>1. SessionTypeOK'
  BY <1>0, EngineTypes DEF SessionTypeOK, Engine, Engines, Launching
<1>2. Held'
  BY DEF SessionTypeOK, Held, Launching
<1>3. Sound'
  BY DEF SessionTypeOK, Held, Sound, Kept, Placed, Launching
<1>4. Kept'
  BY <1>0 DEF SessionTypeOK, Held, Kept, Launching
<1>5. Placed'
  BY <1>0 DEF SessionTypeOK, Held, Kept, Placed, Launching
<1>6. Agrees'
  BY <1>0 DEF SessionTypeOK, Kept, Agrees, Matches, Launching
<1>. QED BY <1>1, <1>2, <1>3, <1>4, <1>5, <1>6

\* A launch fails: nothing is left of it.
LEMMA LaunchFailsInv == ASSUME IInv, NEW t \in Threads, LaunchFails(t) PROVE IInv'
<1> USE SessionAssumption, ListsAssumption DEF LaunchFails, Becomes, Returns, Nothing, Leave, Goes, IInv, engineVars, reloadVars, javaVars
<1>1. SessionTypeOK'
  <2>1. Engine' = Nothing /\ before' \in Engines
    BY EngineTypes DEF SessionTypeOK, Engine
  <2>2. prior' \in Contents \cup {None} /\ loading' \in Threads \cup {None}
    BY DEF SessionTypeOK
  <2>. QED BY <2>1, <2>2, EngineTypes DEF SessionTypeOK, Launching
<1>2. Held'
  BY DEF SessionTypeOK, Held, Launching
<1>3. Sound'
  BY DEF SessionTypeOK, Held, Sound, Kept, Placed, Launching
<1>4. Kept'
  BY DEF SessionTypeOK, Engines, Engine, Contents, Held, Sound, Kept, Placed, Agrees, Matches, Launching
<1>5. Placed'
  BY DEF SessionTypeOK, Engines, Engine, Contents, Held, Sound, Kept, Placed, Matches, Launching
<1>6. Agrees'
  BY DEF SessionTypeOK, Engines, Engine, Contents, Held, Kept, Placed, Agrees, Matches, Launching
<1>. QED BY <1>1, <1>2, <1>3, <1>4, <1>5, <1>6

\* The device follows, and reload() returns.
LEMMA ReopensInv == ASSUME IInv, NEW t \in Threads, Reopens(t) PROVE IInv'
<1> USE SessionAssumption, ListsAssumption DEF Reopens, Returns, Nothing, Leave, Goes, IInv, engineVars, reloadVars, javaVars
<1>1. SessionTypeOK'
  <2>1. Engine' = [session |-> session, tun |-> before.tun, dns |-> dns, protected |-> protected] /\ before' = Nothing
    BY DEF Engine
  <2>2. Engine' \in Engines /\ before' \in Engines
    BY <2>1, EngineTypes DEF Engines, SessionTypeOK
  <2>. QED BY <2>1, <2>2 DEF SessionTypeOK, Launching
<1>2. Held'
  BY DEF SessionTypeOK, Held, Launching
<1>3. Sound'
  BY DEF SessionTypeOK, Held, Sound, Kept, Placed, Launching
<1>4. Kept'
  BY DEF SessionTypeOK, Engines, Engine, Contents, Held, Sound, Kept, Placed, Agrees, Matches, Launching
<1>5. Placed'
  BY DEF SessionTypeOK, Engines, Engine, Contents, Held, Sound, Kept, Placed, Matches, Launching
<1>6. Agrees'
  BY DEF SessionTypeOK, Engines, Engine, Contents, Held, Kept, Placed, Agrees, Matches, Launching
<1>. QED BY <1>1, <1>2, <1>3, <1>4, <1>5, <1>6

\* Java takes over the mode.
LEMMA LoadedInv == ASSUME IInv, NEW t \in Threads, Loaded(t) PROVE IInv'
<1> USE SessionAssumption, ListsAssumption DEF Loaded, Leave, Goes, IInv, engineVars, reloadVars, javaVars
<1>1. SessionTypeOK'
  BY DEF SessionTypeOK, Engine, Engines, Contents, Launching
<1>2. Held'
  BY DEF SessionTypeOK, Held, Launching
<1>3. Sound'
  BY DEF SessionTypeOK, Held, Sound, Kept, Placed, Launching
<1>4. Kept'
  BY DEF SessionTypeOK, Engines, Engine, Contents, Held, Sound, Kept, Placed, Agrees, Matches, Launching
<1>5. Placed'
  BY DEF SessionTypeOK, Engines, Engine, Contents, Held, Sound, Kept, Placed, Matches, Launching
<1>6. Agrees'
  BY DEF SessionTypeOK, Engines, Engine, Contents, Held, Kept, Placed, Agrees, Matches, Launching
<1>. QED BY <1>1, <1>2, <1>3, <1>4, <1>5, <1>6

\* A change by the control API leaves the profile.
LEMMA EditInv == ASSUME IInv, Edit PROVE IInv'
<1> USE SessionAssumption, ListsAssumption DEF IInv, engineVars, reloadVars, javaVars
<1>0. /\ session \in Contents /\ session' \in Contents /\ session # None /\ session' # None
      /\ session'.config = session.config
      /\ session.edited => session'.edited
      /\ session.override => session'.override
  BY Edited, Values
<1>9. UNCHANGED <<tun, dns, protected, at, lifecycle, reloadVars, javaVars>>
  BY DEF Edit
<1>1. SessionTypeOK'
  BY <1>0, <1>9, EngineTypes DEF SessionTypeOK, Engine, Engines, Launching
<1>2. Held'
  BY <1>9 DEF Held
<1>3. Sound'
  BY <1>0, <1>9 DEF Sound
<1>4. Kept'
  BY <1>0, <1>9 DEF Kept, Matches
<1>5. Placed'
  BY <1>0, <1>9 DEF Placed
<1>6. Agrees'
  BY <1>0, <1>9 DEF Agrees
<1>. QED BY <1>1, <1>2, <1>3, <1>4, <1>5, <1>6

\* The app's callback is set.
LEMMA StartTunContextInv == ASSUME IInv, NEW t \in Threads, StartTunContext(t) PROVE IInv'
<1> USE SessionAssumption, ListsAssumption DEF StartTunContext, Enter, Goes, IInv, engineVars, reloadVars, javaVars
<1>1. SessionTypeOK'
  BY DEF SessionTypeOK, Engine, Engines, Contents, Launching
<1>2. Held'
  BY DEF SessionTypeOK, Held, Launching
<1>3. Sound'
  BY DEF SessionTypeOK, Held, Sound, Kept, Placed, Launching
<1>4. Kept'
  BY DEF SessionTypeOK, Engines, Engine, Contents, Held, Sound, Kept, Placed, Agrees, Matches, Launching
<1>5. Placed'
  BY DEF SessionTypeOK, Engines, Engine, Contents, Held, Sound, Kept, Placed, Matches, Launching
<1>6. Agrees'
  BY DEF SessionTypeOK, Engines, Engine, Contents, Held, Kept, Placed, Agrees, Matches, Launching
<1>. QED BY <1>1, <1>2, <1>3, <1>4, <1>5, <1>6

\* Protection is installed.
LEMMA GuardsInv == ASSUME IInv, NEW t \in Threads, Guards(t) PROVE IInv'
<1> USE SessionAssumption, ListsAssumption DEF Guards, Calls, Leave, Goes, IInv, engineVars, reloadVars, javaVars
<1>1. SessionTypeOK'
  BY DEF SessionTypeOK, Engine, Engines, Contents, Launching
<1>2. Held'
  BY DEF SessionTypeOK, Held, Launching
<1>3. Sound'
  BY DEF SessionTypeOK, Held, Sound, Kept, Placed, Launching
<1>4. Kept'
  BY DEF SessionTypeOK, Engines, Engine, Contents, Held, Sound, Kept, Placed, Agrees, Matches, Launching
<1>5. Placed'
  BY DEF SessionTypeOK, Engines, Engine, Contents, Held, Sound, Kept, Placed, Matches, Launching
<1>6. Agrees'
  BY DEF SessionTypeOK, Engines, Engine, Contents, Held, Kept, Placed, Agrees, Matches, Launching
<1>. QED BY <1>1, <1>2, <1>3, <1>4, <1>5, <1>6

\* The device opens, or not.
LEMMA OpensInv == ASSUME IInv, NEW t \in Threads, Opens(t) PROVE IInv'
<1> USE SessionAssumption, ListsAssumption DEF Opens, Calls, MayOpen, Leave, Goes, IInv, engineVars, reloadVars, javaVars
<1>1. SessionTypeOK'
  BY DEF SessionTypeOK, Engine, Engines, Contents, Launching
<1>2. Held'
  BY DEF SessionTypeOK, Held, Launching
<1>3. Sound'
  BY DEF SessionTypeOK, Held, Sound, Kept, Placed, Launching
<1>4. Kept'
  BY DEF SessionTypeOK, Engines, Engine, Contents, Held, Sound, Kept, Placed, Agrees, Matches, Launching
<1>5. Placed'
  BY DEF SessionTypeOK, Engines, Engine, Contents, Held, Sound, Kept, Placed, Matches, Launching
<1>6. Agrees'
  BY DEF SessionTypeOK, Engines, Engine, Contents, Held, Kept, Placed, Agrees, Matches, Launching
<1>. QED BY <1>1, <1>2, <1>3, <1>4, <1>5, <1>6

\* The device closes.
LEMMA StopTunInv == ASSUME IInv, NEW t \in Threads, StopTun(t) PROVE IInv'
<1> USE SessionAssumption, ListsAssumption DEF StopTun, Calls, IInv, engineVars, reloadVars, javaVars
<1>1. SessionTypeOK'
  <2>1. Engine' = [session |-> session, tun |-> FALSE, dns |-> dns, protected |-> protected] /\ before' = before
    BY DEF Engine
  <2>2. Engine' \in Engines /\ before' \in Engines
    BY <2>1, EngineTypes DEF Engines, SessionTypeOK
  <2>. QED BY <2>1, <2>2 DEF SessionTypeOK, Launching
<1>2. Held'
  BY DEF SessionTypeOK, Held, Launching
<1>3. Sound'
  BY DEF SessionTypeOK, Held, Sound, Kept, Placed, Launching
<1>4. Kept'
  BY DEF SessionTypeOK, Engines, Engine, Contents, Held, Sound, Kept, Placed, Agrees, Matches, Launching
<1>5. Placed'
  BY DEF SessionTypeOK, Engines, Engine, Contents, Held, Sound, Kept, Placed, Matches, Launching
<1>6. Agrees'
  BY DEF SessionTypeOK, Engines, Engine, Contents, Held, Kept, Placed, Agrees, Matches, Launching
<1>. QED BY <1>1, <1>2, <1>3, <1>4, <1>5, <1>6

\* stopTunContext() takes LIFECYCLE.
LEMMA StopTunContextInv == ASSUME IInv, NEW t \in Threads, StopTunContext(t) PROVE IInv'
<1> USE SessionAssumption, ListsAssumption DEF StopTunContext, CloseFirst, Enter, Goes, IInv, engineVars, reloadVars, javaVars
<1>1. SessionTypeOK'
  BY DEF SessionTypeOK, Engine, Engines, Contents, Launching
<1>2. Held'
  BY DEF SessionTypeOK, Held, Launching
<1>3. Sound'
  BY DEF SessionTypeOK, Held, Sound, Kept, Placed, Launching
<1>4. Kept'
  BY DEF SessionTypeOK, Engines, Engine, Contents, Held, Sound, Kept, Placed, Agrees, Matches, Launching
<1>5. Placed'
  BY DEF SessionTypeOK, Engines, Engine, Contents, Held, Sound, Kept, Placed, Matches, Launching
<1>6. Agrees'
  BY DEF SessionTypeOK, Engines, Engine, Contents, Held, Kept, Placed, Agrees, Matches, Launching
<1>. QED BY <1>1, <1>2, <1>3, <1>4, <1>5, <1>6

\* It closes the device first,
LEMMA ClosesInv == ASSUME IInv, NEW t \in Threads, Closes(t) PROVE IInv'
<1> USE SessionAssumption, ListsAssumption DEF Closes, Calls, Goes, IInv, engineVars, reloadVars, javaVars
<1>1. SessionTypeOK'
  <2>1. Engine' = [session |-> session, tun |-> FALSE, dns |-> dns, protected |-> protected] /\ before' = before
    BY DEF Engine
  <2>2. Engine' \in Engines /\ before' \in Engines
    BY <2>1, EngineTypes DEF Engines, SessionTypeOK
  <2>. QED BY <2>1, <2>2 DEF SessionTypeOK, Launching
<1>2. Held'
  BY DEF SessionTypeOK, Held, Launching
<1>3. Sound'
  BY DEF SessionTypeOK, Held, Sound, Kept, Placed, Launching
<1>4. Kept'
  BY DEF SessionTypeOK, Engines, Engine, Contents, Held, Sound, Kept, Placed, Agrees, Matches, Launching
<1>5. Placed'
  BY DEF SessionTypeOK, Engines, Engine, Contents, Held, Sound, Kept, Placed, Matches, Launching
<1>6. Agrees'
  BY DEF SessionTypeOK, Engines, Engine, Contents, Held, Kept, Placed, Agrees, Matches, Launching
<1>. QED BY <1>1, <1>2, <1>3, <1>4, <1>5, <1>6

\* and then drops the callback.
LEMMA ForgetsInv == ASSUME IInv, NEW t \in Threads, Forgets(t) PROVE IInv'
<1> USE SessionAssumption, ListsAssumption DEF Forgets, Goes, IInv, engineVars, reloadVars, javaVars
<1>1. SessionTypeOK'
  BY DEF SessionTypeOK, Engine, Engines, Contents, Launching
<1>2. Held'
  BY DEF SessionTypeOK, Held, Launching
<1>3. Sound'
  BY DEF SessionTypeOK, Held, Sound, Kept, Placed, Launching
<1>4. Kept'
  BY DEF SessionTypeOK, Engines, Engine, Contents, Held, Sound, Kept, Placed, Agrees, Matches, Launching
<1>5. Placed'
  BY DEF SessionTypeOK, Engines, Engine, Contents, Held, Sound, Kept, Placed, Matches, Launching
<1>6. Agrees'
  BY DEF SessionTypeOK, Engines, Engine, Contents, Held, Kept, Placed, Agrees, Matches, Launching
<1>. QED BY <1>1, <1>2, <1>3, <1>4, <1>5, <1>6

\* The callbacks are passed on anew.
LEMMA UnguardsInv == ASSUME IInv, NEW t \in Threads, Unguards(t) PROVE IInv'
<1> USE SessionAssumption, ListsAssumption DEF Unguards, Calls, Leave, Goes, IInv, engineVars, reloadVars, javaVars
<1>1. SessionTypeOK'
  BY DEF SessionTypeOK, Engine, Engines, Contents, Launching
<1>2. Held'
  BY DEF SessionTypeOK, Held, Launching
<1>3. Sound'
  BY DEF SessionTypeOK, Held, Sound, Kept, Placed, Launching
<1>4. Kept'
  BY DEF SessionTypeOK, Engines, Engine, Contents, Held, Sound, Kept, Placed, Agrees, Matches, Launching
<1>5. Placed'
  BY DEF SessionTypeOK, Engines, Engine, Contents, Held, Sound, Kept, Placed, Matches, Launching
<1>6. Agrees'
  BY DEF SessionTypeOK, Engines, Engine, Contents, Held, Kept, Placed, Agrees, Matches, Launching
<1>. QED BY <1>1, <1>2, <1>3, <1>4, <1>5, <1>6

\* Nothing runs at first.
LEMMA InitInv == Init => IInv
<1> SUFFICES ASSUME Init PROVE IInv
  OBVIOUS
<1> USE SessionAssumption, ListsAssumption DEF Init
<1>1. Engine \in Engines /\ before \in Engines
  BY DEF Engine, Engines, Nothing
<1>2. SessionTypeOK
  BY <1>1 DEF SessionTypeOK
<1>3. Held
  BY DEF Held, Launching
<1>4. Sound /\ Agrees
  BY DEF Sound, Agrees
<1>5. Kept /\ Placed
  BY DEF Kept, Placed, Launching
<1>. QED BY <1>2, <1>3, <1>4, <1>5 DEF IInv

\* Every step preserves the invariant.
LEMMA NextInv == ASSUME IInv, Next PROVE IInv'
<1>1. CASE Edit
  BY <1>1, EditInv
<1>2. ASSUME NEW t \in Threads, ResetStep(t) PROVE IInv'
  BY <1>2, ResetInv, ResetStopsInv, ResetReadsInv, ResetStartsInv DEF ResetStep
<1>3. ASSUME NEW t \in Threads, DnsStep(t) PROVE IInv'
  BY <1>3, NotifiesInv, NotifyRefusedInv, NotifyDnsChangedInv DEF DnsStep
<1>4. ASSUME NEW t \in Threads, LoadStep(t) PROVE IInv'
  BY <1>4, LoadInv, LoadRefusedInv, CopiesInv, SuspendsInv, HaltsInv, LaunchesInv, LaunchFailsInv, ReopensInv, LoadedInv
     DEF LoadStep
<1>5. ASSUME NEW t \in Threads, TunStep(t) PROVE IInv'
  BY <1>5, StartTunContextInv, GuardsInv, OpensInv, StopTunInv, StopTunContextInv, ClosesInv, ForgetsInv, UnguardsInv
     DEF TunStep
<1>. QED BY <1>1, <1>2, <1>3, <1>4, <1>5 DEF Next

\* So does a stutter.
LEMMA StutterInv == ASSUME IInv, UNCHANGED vars PROVE IInv'
BY DEF vars, engineVars, reloadVars, javaVars, IInv, SessionTypeOK, Engine, Held, Sound, Kept, Placed, Agrees, Matches

\* The inductive invariant holds throughout.
THEOREM Invariant == Spec => []IInv
<1>1. IInv /\ [Next]_vars => IInv'
  BY NextInv, StutterInv
<1>. QED BY <1>1, InitInv, PTL DEF Spec

-----------------------------------------------------------------------------
(* What it gives *)

\* Every variable of the session keeps its type.
THEOREM SessionTyped == Spec => []SessionTypeOK
<1>1. IInv => SessionTypeOK
  BY DEF IInv
<1>. QED BY <1>1, Invariant, PTL

\* Outside a load, Java's mode is that of the profile that runs.
THEOREM JavaIsRight == Spec => []JavaAgrees
<1>1. IInv => JavaAgrees
  BY SessionAssumption DEF IInv, Agrees, Held, JavaAgrees
<1>. QED BY <1>1, Invariant, PTL

\* TUN never runs without the app's callback.
THEOREM TunIsMarked == Spec => []MarkedWhileTun
<1>1. IInv => MarkedWhileTun
  BY DEF IInv, Sound, MarkedWhileTun
<1>. QED BY <1>1, Invariant, PTL

-----------------------------------------------------------------------------
(* The locks *)

Outside == {"idle", "notify"}

\* Nobody has left his call with LIFECYCLE in his hand, on whatever path.
Released == \A t \in Threads : lifecycle = t => at[t] \notin Outside

\* Who holds LIFECYCLE waits for nobody: while he is not in reload() himself
\* nobody is, and a reset finds no session to refuse its start.  Only stopTun()
\* and notifyDnsChanged(), which hold nothing, ever wait for a reload.
HolderGoesOn ==
    \A t \in Threads :
        /\ lifecycle = t <=> at[t] \notin Outside
        /\ lifecycle = t => loading \in {None, t}
        /\ at[t] \notin {"copied", "suspended"} \cup Launching => loading # t
        /\ at[t] = "start" => session = None

\* A thread that enters goes to a place inside, and one that leaves has no lock.
LEMMA NextReleased ==
    ASSUME IInv, Released, [Next]_vars
    PROVE  Released'
<1>1. ASSUME NEW t \in Threads, NEW place, Goes(t, place),
             place \in Outside => lifecycle' # t,
             lifecycle' \in {lifecycle, None, t}
      PROVE  Released'
  BY <1>1, SessionAssumption DEF Goes, Released, IInv, SessionTypeOK
<1>2. CASE UNCHANGED vars \/ Edit \/ \E t \in Threads : StopTun(t)
  BY <1>2 DEF vars, Edit, StopTun, Released
<1>3. ASSUME NEW t \in Threads, ResetStep(t) PROVE Released'
  BY <1>1, <1>3, SessionAssumption
     DEF ResetStep, Reset, ResetStops, ResetReads, ResetStarts, Enter, Leave, Outside
<1>4. ASSUME NEW t \in Threads, DnsStep(t) PROVE Released'
  <2>1. CASE \E l \in Lists : NotifyDnsChanged(t, l)
    BY <1>1, <2>1 DEF NotifyDnsChanged, Outside, Released
  <2>2. CASE Notifies(t)
    BY <1>1, <2>2 DEF Notifies, Calls, Outside, Released
  <2>3. CASE NotifyRefused(t)
    BY <1>1, <2>3, SessionAssumption DEF NotifyRefused, Outside
  <2>. QED BY <1>4, <2>1, <2>2, <2>3 DEF DnsStep
<1>5. ASSUME NEW t \in Threads, LoadStep(t) PROVE Released'
  <2>1. CASE LoadRefused(t) \/ Loaded(t) \/ \E c \in Configs : Load(t, c)
    BY <1>1, <2>1, SessionAssumption DEF LoadRefused, Loaded, Load, Enter, Leave, Outside
  <2>2. CASE Copies(t) \/ Suspends(t) \/ Halts(t) \/ Launches(t)
    BY <1>1, <2>2 DEF Copies, Suspends, Halts, Launches, reloadVars, Outside
  <2>3. CASE LaunchFails(t) \/ Reopens(t)
    BY <1>1, <2>3, SessionAssumption DEF LaunchFails, Reopens, Leave, Outside
  <2>. QED BY <1>5, <2>1, <2>2, <2>3 DEF LoadStep
<1>6. ASSUME NEW t \in Threads, TunStep(t) PROVE Released'
  BY <1>1, <1>2, <1>6, SessionAssumption
     DEF TunStep, StartTunContext, Guards, Opens, StopTunContext, CloseFirst, Closes, Forgets, Unguards,
         Enter, Leave, Outside
<1>. QED BY <1>2, <1>3, <1>4, <1>5, <1>6 DEF Next

\* No order of calls, failures and roll-backs leaves LIFECYCLE or OPERATION held,
\* nor has its holder wait for another thread.
THEOREM LocksMoveOn == Spec => []HolderGoesOn
<1>1. Init => Released
  BY SessionAssumption DEF Init, Released
<1>2. ASSUME IInv, Released PROVE HolderGoesOn
  BY <1>2, SessionAssumption DEF IInv, SessionTypeOK, Held, Placed, Released, HolderGoesOn, Outside, Launching
<1>. QED BY <1>1, <1>2, NextReleased, Invariant, PTL DEF Spec

-----------------------------------------------------------------------------
(* Refinement *)

InLaunch == loading # None /\ at[loading] \in Launching

\* What the caller counts on, in a reload and outside.
LEMMA ShownCases == (InLaunch => Shown = before) /\ (~InLaunch => Shown = Engine)
BY DEF Shown, InLaunch

\* No reload is past its stop() while OPERATION is free.
LEMMA Free == loading = None => Shown = Engine /\ LoadShown = None
BY DEF Shown, LoadShown

\* The load as the promise sees it, where thread t is in reload().
LoadOf(t) == [asked |-> target, found |-> prior, restoring |-> at[t] \in {"relaunch", "redevice"}]

\* The places of a load that the promise speaks of.
Inside == {"copied", "suspended", "loaded"} \cup Launching

\* Where a thread is tells what is shown.
LEMMA Reloading ==
    ASSUME IInv, NEW t \in Threads
    PROVE  /\ at[t] \in Launching => InLaunch /\ Shown = before
           /\ at[t] \in {"copied", "suspended"} => ~InLaunch /\ Shown = Engine
           /\ at[t] \in {"copied", "suspended"} \cup Launching =>
                /\ loading = t /\ lifecycle = t /\ Believed = mode
                /\ LoadShown = LoadOf(t) /\ LoadShown # None
           /\ at[t] = "load" => lifecycle = t /\ Believed = mode
           /\ at[t] = "loaded" => lifecycle = t /\ loading = None /\ Believed = target
           /\ lifecycle = None => loading = None
<1>1. LoadOf(t) \in Loads
  BY DEF LoadOf, Loads, IInv, SessionTypeOK
<1>2. at[t] \in {"copied", "suspended"} \cup Launching => loading = t /\ lifecycle = t
  BY DEF IInv, Held, Launching
<1>3. at[t] \in {"load", "loaded"} => lifecycle = t
  BY DEF IInv, Held
<1>4. loading # None => lifecycle = loading /\ at[loading] \in {"copied", "suspended"} \cup Launching
  BY DEF IInv, Held, SessionTypeOK, Launching
<1>. QED
  BY <1>1, <1>2, <1>3, <1>4, SessionAssumption, ShownCases
     DEF InLaunch, Launching, LoadShown, LoadOf, Believed

\* What the promise speaks of, for the library at rest and for what reload() found.
LEMMA Records ==
    ASSUME IInv
    PROVE  /\ Engine = [session |-> session, tun |-> tun, dns |-> dns, protected |-> protected]
           /\ session \in Contents \cup {None} /\ dns \in Lists
           /\ Promise!Contents = Contents
BY EngineTypes DEF IInv, Engine, Promise!Contents, Contents

\* A step of a thread outside a call that changes nothing of the library.
LEMMA Beside ==
    ASSUME IInv, NEW t \in Threads, NEW place,
           at[t] \notin Inside, place \notin Inside, Goes(t, place),
           UNCHANGED <<session, tun, dns, protected, loading, before>>
    PROVE  Shown' = Shown
<1>1. CASE loading = None
  BY <1>1, SessionAssumption DEF Shown, Engine
<1>2. CASE loading # None
  <2>1. at'[loading] \in Launching <=> at[loading] \in Launching
    BY <1>2 DEF Goes, IInv, SessionTypeOK, Inside
  <2>. QED BY <2>1 DEF Shown, Engine
<1>. QED BY <1>1, <1>2

\* A step of a thread outside a load changes neither the load under way nor what
\* the app believes, unless it says so.
LEMMA BesideLoad ==
    ASSUME IInv, NEW t \in Threads, NEW place,
           at[t] \notin Inside, place \notin Inside, Goes(t, place),
           lifecycle' = lifecycle \/ (lifecycle \in {None, t} /\ lifecycle' \in {None, t}),
           target' = target \/ lifecycle = None,
           UNCHANGED <<loading, prior, mode>>
    PROVE  LoadShown' = LoadShown /\ Believed' = Believed
<1>1. \A s \in Threads : s # t => at'[s] = at[s]
  BY DEF Goes, IInv, SessionTypeOK
<1>2. at'[t] = place
  BY DEF Goes, IInv, SessionTypeOK
<1>3. LoadShown' = LoadShown
  <2>1. CASE loading = None
    BY <2>1 DEF LoadShown
  <2>2. CASE loading # None
    <3>1. loading \in Threads /\ loading # t /\ lifecycle # None
      BY <2>2, SessionAssumption DEF IInv, SessionTypeOK, Held, Inside, Launching
    <3>. QED BY <1>1, <2>2, <3>1 DEF LoadShown
  <2>. QED BY <2>1, <2>2
<1>4. Believed' = Believed
  <2>1. lifecycle = t => Believed = mode
    BY DEF Believed, Inside
  <2>2. lifecycle' = t => Believed' = mode
    BY <1>2 DEF Believed, Inside
  <2>3. CASE lifecycle' = lifecycle /\ lifecycle \notin {None, t}
    BY <1>1, <2>3 DEF Believed, IInv, SessionTypeOK
  <2>4. CASE lifecycle \in {None, t} /\ lifecycle' \in {None, t}
    BY <2>1, <2>2, <2>4 DEF Believed
  <2>. QED BY <2>3, <2>4
<1>. QED BY <1>3, <1>4

\* The library starts as the promise does.
LEMMA InitRefines == Init => Promise!Init
BY ListsAssumption, SessionAssumption DEF Init, Promise!Init, Shown, LoadShown, Believed, Engine

PromiseStep == Promise!Next \/ UNCHANGED Promise!promiseVars

\* A step that shows nothing is a stutter of the promise.
LEMMA Stutters == Shown' = Shown /\ LoadShown' = LoadShown /\ Believed' = Believed => PromiseStep
BY DEF PromiseStep, Promise!promiseVars

\* The control API's edits, which a reload may hide.
LEMMA EditRefines == ASSUME IInv, Edit PROVE PromiseStep
<1>0. LoadShown' = LoadShown /\ Believed' = Believed
  BY DEF Edit, reloadVars, javaVars, LoadShown, Believed
<1>1. CASE InLaunch
  <2>1. Shown' = Shown
    BY <1>1, ShownCases DEF Edit, reloadVars, Shown, InLaunch
  <2>. QED BY <1>0, <2>1, Stutters
<1>2. CASE ~InLaunch
  <2>1. Shown = Engine /\ Shown' = Engine'
    BY <1>2 DEF Edit, reloadVars, Shown, InLaunch
  <2>2. Promise!Edit
    BY <1>0, <2>1, Values, Records DEF Edit, Promise!Edit, Engine
  <2>. QED BY <2>2 DEF PromiseStep, Promise!Next
<1>. QED BY <1>1, <1>2

\* reset() stops and starts.
LEMMA ResetRefines == ASSUME IInv, NEW t \in Threads, ResetStep(t) PROVE PromiseStep
<1>1. CASE Reset(t)
  <2>1. Shown' = Shown /\ LoadShown' = LoadShown /\ Believed' = Believed
    BY <1>1, Beside, BesideLoad DEF Reset, Enter, engineVars, reloadVars, javaVars, Inside, Launching
  <2>. QED BY <2>1, Stutters
<1>2. CASE ResetStops(t)
  <2>1. Shown' = Engine' /\ Engine' = Nothing /\ LoadShown = None /\ LoadShown' = None
    BY <1>2, Free DEF ResetStops, Calls, Becomes, Shown, LoadShown, Engine, Nothing, reloadVars
  <2>2. Believed' = Believed
    BY <1>2, BesideLoad DEF ResetStops, Calls, reloadVars, javaVars, Inside, Launching
  <2>3. Promise!Stop
    BY <2>1, <2>2 DEF Promise!Stop, Promise!NothingIsLeft, Nothing
  <2>. QED BY <2>3 DEF PromiseStep, Promise!Next
<1>3. CASE ResetReads(t)
  <2>1. Shown' = Shown /\ LoadShown' = LoadShown /\ Believed' = Believed
    BY <1>3, Beside, BesideLoad DEF ResetReads, engineVars, reloadVars, Inside, Launching
  <2>. QED BY <2>1, Stutters
<1>4. CASE ResetStarts(t)
  <2>1. /\ Shown = Engine /\ Shown' = Engine' /\ LoadShown = None /\ LoadShown' = None
        /\ Believed = mode /\ Believed' = mode'
    <3>1. lifecycle = t /\ lifecycle' = None /\ at[t] = "start" /\ loading = None /\ loading' = None
      BY <1>4 DEF ResetStarts, Calls, Leave, reloadVars, IInv, Held
    <3>. QED BY <3>1 DEF Shown, LoadShown, Believed
  <2>2. CASE Becomes(Started(Running(Default))) /\ mode' = Default
    <3>1. Promise!Start
      BY <1>4, <2>1, <2>2, Values, Records, SessionAssumption
         DEF ResetStarts, Becomes, Started, Engine, Running, Promise!Start
    <3>. QED BY <3>1 DEF PromiseStep, Promise!Next
  <2>3. CASE Becomes(Nothing) /\ UNCHANGED mode
    <3>1. Promise!Stop
      BY <2>1, <2>3 DEF Becomes, Nothing, Engine, Promise!Stop, Promise!NothingIsLeft
    <3>. QED BY <3>1 DEF PromiseStep, Promise!Next
  <2>4. CASE UNCHANGED <<engineVars, mode>>
    BY <2>1, <2>4, Stutters DEF engineVars, Engine
  <2>. QED BY <1>4, <2>2, <2>3, <2>4 DEF ResetStarts
<1>. QED BY <1>1, <1>2, <1>3, <1>4 DEF ResetStep

\* A new DNS list.
LEMMA DnsRefines == ASSUME IInv, NEW t \in Threads, DnsStep(t) PROVE PromiseStep
<1>1. CASE Notifies(t)
  <2>1. Shown = Engine /\ Shown' = Engine'
    BY <1>1 DEF Notifies, Calls, reloadVars, Shown
  <2>2. list[t] \in Lists
    BY DEF IInv, SessionTypeOK
  <2>3. LoadShown' = LoadShown /\ Believed' = Believed
    BY <1>1, BesideLoad DEF Notifies, Calls, reloadVars, Inside, Launching
  <2>4. Promise!Notify
    BY <1>1, <2>1, <2>2, <2>3 DEF Notifies, Engine, Promise!Notify
  <2>. QED BY <2>4 DEF PromiseStep, Promise!Next
<1>2. ASSUME NEW l \in Lists, NotifyDnsChanged(t, l) PROVE PromiseStep
  <2>1. Shown' = Shown /\ LoadShown' = LoadShown /\ Believed' = Believed
    BY <1>2, Beside, BesideLoad DEF NotifyDnsChanged, engineVars, reloadVars, Inside, Launching
  <2>. QED BY <2>1, Stutters
<1>3. CASE NotifyRefused(t)
  <2>1. Shown' = Shown
    BY <1>3, Beside DEF NotifyRefused, Calls, Goes, engineVars, reloadVars, Inside, Launching
  <2>2. LoadShown' = LoadShown /\ Believed' = Believed
    BY <1>3, BesideLoad DEF NotifyRefused, Calls, reloadVars, Inside, Launching
  <2>. QED BY <2>1, <2>2, Stutters
<1>. QED BY <1>1, <1>2, <1>3 DEF DnsStep

\* A load begins when reload() has its copy, and ends in one step: it returns,
\* throws with what it found, or throws with nothing.
LEMMA LoadRefines == ASSUME IInv, NEW t \in Threads, LoadStep(t) PROVE PromiseStep
<1>1. ASSUME NEW c \in Configs, Load(t, c) PROVE PromiseStep
  <2>1. Shown' = Shown /\ LoadShown' = LoadShown /\ Believed' = Believed
    BY <1>1, Beside, BesideLoad DEF Load, Enter, engineVars, javaVars, Inside, Launching
  <2>. QED BY <2>1, Stutters
<1>2. CASE LoadRefused(t)
  <2>1. /\ Shown = Engine /\ Shown' = Engine' /\ Engine' = Engine /\ LoadShown' = None
        /\ Believed = mode /\ Believed' = mode
    BY <1>2, Reloading, Free
       DEF LoadRefused, Calls, Returns, Leave, engineVars, javaVars, Shown, LoadShown, Believed, Engine
  <2>2. CASE at[t] = "load"
    <3>1. LoadShown = None
      BY <1>2, <2>2, Free DEF LoadRefused, Calls
    <3>. QED BY <2>1, <3>1, Stutters
  <2>3. CASE at[t] = "copied"
    <3>1. LoadShown = LoadOf(t) /\ LoadShown # None
      BY <2>3, Reloading
    <3>2. Matches(prior, session)
      BY <2>3 DEF IInv, Kept
    <3>3. Promise!Includes(session, prior)
      BY <3>2, Records DEF Promise!Includes, Matches
    <3>4. Promise!LoadThrows
      BY <2>1, <3>1, <3>3, Readable DEF Promise!LoadThrows, LoadOf
    <3>. QED BY <3>4 DEF PromiseStep, Promise!Next
  <2>. QED BY <1>2, <2>2, <2>3 DEF LoadRefused, Calls
<1>3. CASE Copies(t)
  <2>1. Shown = Engine /\ LoadShown = None /\ Believed = mode
    BY <1>3, Free, Reloading DEF Copies, Calls
  <2>2. /\ at'[t] = "copied" /\ loading' = t /\ lifecycle' = t /\ Engine' = Engine
        /\ prior' = session /\ target' = target /\ mode' = mode
    BY <1>3, Reloading DEF Copies, Calls, Goes, engineVars, javaVars, Engine, IInv, SessionTypeOK
  <2>3. Shown' = Engine /\ Believed' = mode
    BY <2>2, SessionAssumption DEF Shown, Believed, Launching
  <2>5. LoadShown' = [asked |-> target, found |-> session, restoring |-> FALSE]
    <3>1. loading' # None /\ (at'[loading'] \in {"relaunch", "redevice"}) = FALSE
      BY <2>2, SessionAssumption
    <3>. QED BY <2>2, <3>1 DEF LoadShown
  <2>4. Promise!LoadBegins
    BY <2>1, <2>3, <2>5, Readable DEF Promise!LoadBegins, IInv, SessionTypeOK
  <2>. QED BY <2>4 DEF PromiseStep, Promise!Next
<1>4. CASE Suspends(t) \/ Halts(t) \/ Launches(t)
  <2>1. /\ loading = t /\ lifecycle = t /\ Believed = mode /\ LoadShown = LoadOf(t)
        /\ Shown = IF at[t] \in Launching THEN before ELSE Engine
    BY <1>4, Reloading DEF Suspends, Halts, Launches, Launching
  <2>2. /\ at'[t] \in {"suspended"} \cup Launching /\ loading' = t /\ lifecycle' = t
        /\ UNCHANGED <<target, prior, mode>>
    BY <1>4, <2>1 DEF Suspends, Halts, Launches, Goes, reloadVars, javaVars, Launching, IInv, SessionTypeOK
  <2>3. at'[t] \in {"relaunch", "redevice"} <=> at[t] \in {"relaunch", "redevice"}
    BY <1>4 DEF Suspends, Halts, Launches, Goes, IInv, SessionTypeOK
  <2>4. LoadShown' = LoadShown /\ Believed' = Believed
    BY <2>1, <2>2, <2>3, SessionAssumption DEF LoadShown, LoadOf, Believed, Launching
  <2>5. Shown' = Shown
    <3>1. CASE Suspends(t)
      BY <2>1, <2>2, <3>1, SessionAssumption
         DEF Suspends, Shown, Goes, engineVars, Engine, Launching, IInv, SessionTypeOK
    <3>2. CASE Halts(t)
      BY <2>1, <2>2, <3>2, SessionAssumption
         DEF Halts, Shown, Goes, Launching, IInv, SessionTypeOK
    <3>3. CASE Launches(t)
      BY <2>1, <2>2, <3>3, SessionAssumption
         DEF Launches, Shown, Goes, reloadVars, Launching, IInv, SessionTypeOK
    <3>. QED BY <1>4, <3>1, <3>2, <3>3
  <2>. QED BY <2>4, <2>5, Stutters
<1>5. CASE LaunchFails(t)
  <2>1. /\ loading = t /\ lifecycle = t /\ Shown = before /\ Believed = mode
        /\ LoadShown = LoadOf(t) /\ LoadShown # None
    BY <1>5, Reloading DEF LaunchFails
  <2>2. CASE at[t] \in {"launch", "device"} /\ prior # None
    <3>1. /\ at'[t] = "relaunch" /\ loading' = t /\ lifecycle' = t
          /\ UNCHANGED <<before, target, prior, mode>>
      BY <1>5, <2>1, <2>2 DEF LaunchFails, Goes, reloadVars, javaVars, IInv, SessionTypeOK
    <3>2. Shown' = Shown /\ Believed' = Believed
      BY <2>1, <3>1, SessionAssumption DEF Shown, Believed, Launching
    <3>4. LoadShown' = [asked |-> target, found |-> prior, restoring |-> TRUE]
      BY <3>1, SessionAssumption DEF LoadShown
    <3>3. Promise!GivesUp
      BY <2>1, <2>2, <3>2, <3>4 DEF Promise!GivesUp, LoadOf
    <3>. QED BY <3>3 DEF PromiseStep, Promise!Next
  <2>3. CASE ~(at[t] \in {"launch", "device"} /\ prior # None)
    <3>1. Returns /\ Leave(t) /\ UNCHANGED javaVars /\ Becomes(Nothing)
      BY <1>5, <2>3 DEF LaunchFails
    <3>2. Shown' = Nothing /\ LoadShown' = None /\ Believed' = Believed
      BY <2>1, <3>1 DEF Becomes, Returns, Leave, javaVars, Shown, LoadShown, Believed, Engine, Nothing
    <3>3. LoadShown.found = None \/ LoadShown.restoring
      BY <1>5, <2>1, <2>3 DEF LaunchFails, Launching, LoadOf
    <3>4. Promise!LoadBreaks
      BY <2>1, <3>2, <3>3 DEF Promise!LoadBreaks, Promise!NothingIsLeft, Nothing
    <3>. QED BY <3>4 DEF PromiseStep, Promise!Next
  <2>. QED BY <2>2, <2>3
<1>6. CASE Reopens(t)
  <2>1. /\ loading = t /\ lifecycle = t /\ Shown = before /\ Believed = mode
        /\ LoadShown = LoadOf(t) /\ LoadShown # None
    BY <1>6, Reloading DEF Reopens, Launching
  <2>2. /\ Shown' = [session |-> session, tun |-> before.tun, dns |-> dns, protected |-> protected]
        /\ LoadShown' = None
    BY <1>6 DEF Reopens, Returns, Shown, LoadShown, Engine
  <2>3. session \in Contents /\ protected = TRUE /\ dns = before.dns
    BY <1>6, Records, EngineTypes DEF Reopens, IInv, Placed
  <2>4. overridden => session.override
    BY <1>6 DEF Reopens, IInv, Placed
  <2>5. prior # None /\ prior.override => session.override
    BY <1>6, <2>4 DEF Reopens, IInv, Kept, Launching
  <2>6. CASE at[t] = "device"
    <3>1. Believed' = target
      BY <1>6, <2>1, <2>6, SessionAssumption
         DEF Reopens, Goes, Believed, IInv, SessionTypeOK
    <3>2. session.config = target
      BY <2>6 DEF IInv, Placed
    <3>3. Promise!LoadReturns
      BY <2>1, <2>2, <2>3, <2>5, <2>6, <3>1, <3>2, Records DEF Promise!LoadReturns, LoadOf
    <3>. QED BY <3>3 DEF PromiseStep, Promise!Next
  <2>7. CASE at[t] = "redevice"
    <3>1. Believed' = mode
      BY <1>6, <2>7 DEF Reopens, Leave, javaVars, Believed
    <3>2. /\ prior # None /\ before.session # None /\ before.protected = TRUE
          /\ session.config = prior.config /\ (prior.edited => session.edited)
      BY <2>1, <2>7, EngineTypes DEF IInv, Kept, Placed, Matches, Launching
    <3>3. Promise!Includes(session, prior)
      BY <2>3, <2>5, <3>2, Records DEF Promise!Includes
    <3>4. Promise!LoadThrows
      BY <2>1, <2>2, <2>3, <3>1, <3>2, <3>3 DEF Promise!LoadThrows, LoadOf
    <3>. QED BY <3>4 DEF PromiseStep, Promise!Next
  <2>. QED BY <1>6, <2>6, <2>7 DEF Reopens
<1>7. CASE Loaded(t)
  <2>1. Shown = Engine /\ LoadShown = None /\ Believed = target
    BY <1>7, Reloading, Free DEF Loaded
  <2>2. Shown' = Engine /\ LoadShown' = None /\ Believed' = target
    BY <1>7, Reloading DEF Loaded, Leave, engineVars, Shown, LoadShown, Believed, Engine
  <2>. QED BY <2>1, <2>2, Stutters
<1>. QED BY <1>1, <1>2, <1>3, <1>4, <1>5, <1>6, <1>7 DEF LoadStep

\* Protection and the device.
LEMMA TunRefines == ASSUME IInv, NEW t \in Threads, TunStep(t) PROVE PromiseStep
<1>1. CASE StartTunContext(t) \/ StopTunContext(t) \/ Forgets(t)
  <2>1. Shown' = Shown
    BY <1>1, Beside
       DEF StartTunContext, StopTunContext, CloseFirst, Forgets, Enter, engineVars, reloadVars, Inside, Launching
  <2>2. LoadShown' = LoadShown /\ Believed' = Believed
    BY <1>1, BesideLoad
       DEF StartTunContext, StopTunContext, CloseFirst, Forgets, Enter, reloadVars, javaVars, Inside, Launching
  <2>. QED BY <2>1, <2>2, Stutters
<1>2. CASE Guards(t) \/ Opens(t) \/ StopTun(t) \/ Closes(t) \/ Unguards(t)
  <2>1. Shown = Engine /\ Shown' = Engine'
    BY <1>2 DEF Guards, Opens, StopTun, Closes, Unguards, Calls, reloadVars, Shown
  <2>2. LoadShown' = LoadShown /\ Believed' = Believed
    <3>1. CASE StopTun(t)
      BY <3>1 DEF StopTun, reloadVars, javaVars, LoadShown, Believed
    <3>2. CASE Guards(t) \/ Opens(t) \/ Closes(t) \/ Unguards(t)
      <4>1. lifecycle = t
        BY <3>2 DEF Guards, Opens, Closes, Unguards, Calls, IInv, Held
      <4>. QED
        BY <3>2, <4>1, BesideLoad
           DEF Guards, Opens, Closes, Unguards, Calls, Leave, reloadVars, javaVars, Inside, Launching
    <3>. QED BY <1>2, <3>1, <3>2
  <2>3. CASE Guards(t) \/ Unguards(t)
    <3>1. Promise!Guard
      BY <2>1, <2>2, <2>3 DEF Guards, Unguards, Engine, Promise!Guard
    <3>. QED BY <3>1 DEF PromiseStep, Promise!Next
  <2>4. CASE StopTun(t) \/ Closes(t)
    <3>1. Promise!CloseDevice
      BY <2>1, <2>2, <2>4 DEF StopTun, Closes, Engine, Promise!CloseDevice
    <3>. QED BY <3>1 DEF PromiseStep, Promise!Next
  <2>5. CASE Opens(t)
    <3>1. CASE tun' = tun
      <4>1. Shown' = Shown
        BY <2>1, <2>5, <3>1 DEF Opens, Engine
      <4>. QED BY <2>2, <4>1, Stutters
    <3>2. CASE tun' # tun
      <4>1. MayOpen /\ tun' = TRUE
        BY <2>5, <3>2, EngineTypes DEF Opens, MayOpen, IInv
      <4>2. Promise!OpenDevice
        BY <2>1, <2>2, <2>5, <4>1, EngineTypes DEF Opens, MayOpen, Engine, Promise!OpenDevice, IInv
      <4>. QED BY <4>2 DEF PromiseStep, Promise!Next
    <3>. QED BY <3>1, <3>2
  <2>. QED BY <1>2, <2>3, <2>4, <2>5
<1>. QED BY <1>1, <1>2 DEF TunStep

\* Every step maps to a step of the promise or to a stutter.
LEMMA StepRefines == ASSUME IInv, [Next]_vars PROVE PromiseStep
<1>1. CASE UNCHANGED vars
  <2>1. Shown' = Shown /\ LoadShown' = LoadShown /\ Believed' = Believed
    BY <1>1 DEF vars, engineVars, reloadVars, javaVars, Shown, LoadShown, Believed, Engine
  <2>. QED BY <2>1, Stutters
<1>2. CASE Next
  BY <1>2, EditRefines, ResetRefines, DnsRefines, LoadRefines, TunRefines DEF Next
<1>. QED BY <1>1, <1>2

\* In every state, also between the steps of a reload, the engine's own session
\* runs behind protection, and its TUN device has a session and the app's callback;
\* and so it is with what a reload under way will come back with.
THEOREM SessionIsSafe == Spec => [](Sound /\ Promise!Safe)
<1>1. ASSUME IInv PROVE Sound /\ Promise!Safe
  <2>1. CASE InLaunch
    <3>1. PICK t \in Threads : at[t] \in Launching
      BY <1>1, <2>1 DEF InLaunch, IInv, SessionTypeOK
    <3>2. /\ before.session # None => before.protected
          /\ before.tun => before.session # None
      BY <1>1, <3>1 DEF IInv, Kept
    <3>. QED BY <1>1, <2>1, <3>2, ShownCases, EngineTypes, Records DEF IInv, Promise!Safe
  <2>2. CASE ~InLaunch
    BY <1>1, <2>2, ShownCases, EngineTypes, Records, Readable DEF IInv, Sound, Promise!Safe
  <2>. QED BY <2>1, <2>2
<1>. QED BY <1>1, Invariant, PTL

\* The session of the library implements SessionPromise.
THEOREM SessionKeepsPromise == Spec => KeepsPromise
<1>1. IInv /\ [Next]_vars => [Promise!Next]_(Promise!promiseVars)
  BY StepRefines DEF PromiseStep
<1>. QED BY <1>1, InitRefines, Invariant, PTL DEF Spec, KeepsPromise, Promise!Spec
=============================================================================

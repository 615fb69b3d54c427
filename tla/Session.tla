------------------------------ MODULE Session -------------------------------
(***************************************************************************)
(* The session of the embedded library: engine.rs and platform.rs, called  *)
(* through jni_api.rs by Libclash.java.  Two locks order the calls: the    *)
(* Java monitor LIFECYCLE, which stopTun() and notifyDnsChanged() do not   *)
(* take, and the native mutex OPERATION.  The control API runs on the      *)
(* session's own runtime and takes neither.                                *)
(*                                                                         *)
(* Every native call but the reload is one step: OPERATION hides its       *)
(* inside.  A reload is several, for the control API can be seen between   *)
(* them.  Abstracted: a profile is a value, prepare() and parse() succeed  *)
(* or not, a build fails or not.  Of what the control API changes, only    *)
(* whether it changed the configuration and whether it overrode the        *)
(* auto-switch settings.  The device's own life is Tun2socks, the          *)
(* checker's AutoSwitch.                                                   *)
(***************************************************************************)
EXTENDS SystemDns

CONSTANTS
    Threads,    \* Java threads
    Configs,
    Default     \* the profile reset() starts

\* A profile; whether the control API changed the running configuration, and
\* whether it overrides the auto-switch settings.
Contents == [config : Configs, edited : BOOLEAN, override : BOOLEAN]

\* A reload as SessionPromise speaks of it.
Loads == [asked : Configs, found : Contents \cup {None}, restoring : BOOLEAN]

ASSUME SessionAssumption ==
    Default \in Configs /\ None \notin Threads /\ None \notin Contents /\ None \notin Loads

VARIABLES
    session,    \* SESSION: what it runs
    tun,        \* TUN_FD is set and its task runs
    dns,        \* meow_dns::system_dns
    protected,  \* CALLBACKS
    at,         \* where each Java thread is
    lifecycle,  \* who holds LIFECYCLE
    loading,    \* who is inside reload() with OPERATION held
    target,     \* the profile it loads
    prior,      \* reload()'s copy of the session's raw configuration
    overridden, \* reload()'s reload_state has an override
    before,     \* what reload() found: its `tun` and `servers`, and the rest
    physical,   \* Java's physicalDns
    list,       \* the list each thread passes to the native side
    callback,   \* Java's `tun` is not null
    mode        \* the profile Java's profileMode was read from

engineVars == <<session, tun, dns, protected>>
reloadVars == <<loading, target, prior, overridden, before>>
javaVars == <<physical, list, callback, mode>>
vars == <<engineVars, at, lifecycle, reloadVars, javaVars>>

Running(c) == [config |-> c, edited |-> FALSE, override |-> FALSE]

Engines == [session : Contents \cup {None}, tun : BOOLEAN, dns : Lists, protected : BOOLEAN]
Nothing == [session |-> None, tun |-> FALSE, dns |-> NoServers, protected |-> FALSE]
Engine == [session |-> session, tun |-> tun, dns |-> dns, protected |-> protected]
Becomes(e) == session' = e.session /\ tun' = e.tun /\ dns' = e.dns /\ protected' = e.protected

Launching == {"launch", "device", "relaunch", "redevice"} \* reload() after its stop()

SessionTypeOK ==
    /\ Engine \in Engines
    /\ at \in [Threads -> {"idle", "load", "copied", "suspended", "loaded", "stop", "read", "renotify", "start",
                           "guard", "open", "close", "forget", "unguard", "notify"} \cup Launching]
    /\ lifecycle \in Threads \cup {None} /\ loading \in Threads \cup {None}
    /\ target \in Configs /\ mode \in Configs
    /\ prior \in Contents \cup {None} /\ overridden \in BOOLEAN
    /\ before \in Engines
    /\ physical \in Lists /\ list \in [Threads -> Lists]
    /\ callback \in BOOLEAN

Init ==
    /\ session = None /\ tun = FALSE /\ dns = NoServers /\ protected = FALSE
    /\ at = [t \in Threads |-> "idle"] /\ lifecycle = None
    /\ loading = None /\ target = Default /\ prior = None
    /\ overridden = FALSE /\ before = Nothing
    /\ physical = NoServers /\ list = [t \in Threads |-> NoServers]
    /\ callback = FALSE /\ mode = Default

Goes(t, place) == at' = [at EXCEPT ![t] = place]
Enter(t, place) == at[t] = "idle" /\ lifecycle = None /\ lifecycle' = t /\ Goes(t, place)
Leave(t) == lifecycle' = None /\ Goes(t, "idle")

\* boundary(): a native call waits for OPERATION, which only a reload keeps
\* for more than a step.
Calls(t, places) == at[t] \in places /\ loading = None

-----------------------------------------------------------------------------
(* reset() and notifyDnsChanged() *)

Reset(t) ==
    /\ Enter(t, "stop")
    /\ UNCHANGED <<engineVars, reloadVars, javaVars>>

ResetStops(t) ==
    /\ Calls(t, {"stop"})
    /\ Becomes(Nothing) /\ Goes(t, "read")
    /\ UNCHANGED <<lifecycle, reloadVars, javaVars>>

ResetReads(t) ==
    /\ at[t] = "read"
    /\ list' = [list EXCEPT ![t] = physical] /\ Goes(t, "renotify")
    /\ UNCHANGED <<engineVars, lifecycle, reloadVars, physical, callback, mode>>

\* Java's variable is written first, under no lock.
NotifyDnsChanged(t, l) ==
    /\ at[t] = "idle"
    /\ physical' = l /\ list' = [list EXCEPT ![t] = l] /\ Goes(t, "notify")
    /\ UNCHANGED <<engineVars, lifecycle, reloadVars, callback, mode>>

Notifies(t) ==
    /\ Calls(t, {"renotify", "notify"})
    /\ dns' = list[t] /\ list' = [list EXCEPT ![t] = NoServers]
    /\ Goes(t, IF at[t] = "renotify" THEN "start" ELSE "idle")
    /\ UNCHANGED <<session, tun, protected, lifecycle, reloadVars, physical, callback, mode>>

\* validate() rejects an endpoint: the call throws, and reset() with it.
NotifyRefused(t) ==
    /\ Calls(t, {"renotify", "notify"})
    /\ list' = [list EXCEPT ![t] = NoServers] /\ Goes(t, "idle")
    /\ lifecycle' = IF lifecycle = t THEN None ELSE lifecycle
    /\ UNCHANGED <<engineVars, reloadVars, physical, callback, mode>>

Started(c) == [session |-> c, tun |-> tun, dns |-> dns, protected |-> TRUE]

\* The callbacks are installed, or that fails and nothing else is done; then the
\* built-in profile starts, or what was started is stopped.
ResetStarts(t) ==
    /\ Calls(t, {"start"}) /\ session = None
    /\ \/ Becomes(Started(Running(Default))) /\ mode' = Default
       \/ UNCHANGED <<engineVars, mode>>
       \/ Becomes(Nothing) /\ UNCHANGED mode
    /\ Leave(t)
    /\ UNCHANGED <<reloadVars, physical, list, callback>>

-----------------------------------------------------------------------------
(* load(), loadFromBytes() and engine::reload() *)

\* Mutant: Java takes over the mode of a profile that may yet fail to load.
LoadEager(t, c) ==
    /\ Enter(t, "load") /\ target' = c /\ mode' = c
    /\ UNCHANGED <<engineVars, loading, prior, overridden, before, physical, list, callback>>

Load(t, c) ==
    /\ Enter(t, "load") /\ target' = c
    /\ UNCHANGED <<engineVars, loading, prior, overridden, before, javaVars>>

\* reload() returns, and its variables are gone.
Returns == loading' = None /\ prior' = None /\ overridden' = FALSE /\ before' = Nothing

\* prepare(), parse(), the copy or the duplicate of the descriptor fails:
\* nothing has been touched yet.
LoadRefused(t) ==
    /\ Calls(t, {"load"}) \/ at[t] = "copied"
    /\ Returns /\ target' = Default /\ Leave(t)
    /\ UNCHANGED <<engineVars, javaVars>>

\* The configuration as the control API has changed it, with the auto-switch
\* settings of the profile.
Copies(t) ==
    /\ Calls(t, {"load"})
    /\ loading' = t /\ prior' = session /\ Goes(t, "copied")
    /\ UNCHANGED <<engineVars, lifecycle, target, overridden, before, javaVars>>

\* Descriptor and DNS list are kept, the checker ends, and its service tells
\* what a new one takes over.  The control API is still served.
Suspends(t) ==
    /\ at[t] = "copied"
    /\ overridden' = (session # None /\ session.override) /\ Goes(t, "suspended")
    /\ UNCHANGED <<engineVars, lifecycle, loading, target, prior, before, javaVars>>

\* stop(): what the control API changed since the copies is lost.
Halts(t) ==
    /\ at[t] = "suspended"
    /\ before' = Engine /\ Becomes(Nothing) /\ Goes(t, "launch")
    /\ UNCHANGED <<lifecycle, loading, target, prior, overridden, javaVars>>

\* The `launch` closure, up to the TUN device: DNS, protection, then the session
\* with the override carried over.
Launched(c) ==
    [session |-> [c EXCEPT !.override = overridden], tun |-> FALSE, dns |-> before.dns, protected |-> TRUE]

Launches(t) ==
    /\ \/ at[t] = "launch" /\ Becomes(Launched(Running(target))) /\ Goes(t, "device")
       \/ at[t] = "relaunch" /\ Becomes(Launched(prior)) /\ Goes(t, "redevice")
    /\ UNCHANGED <<lifecycle, reloadVars, javaVars>>

\* Mutant: a device that does not start again ends the load without the
\* prior configuration.
LaunchFailsForGood(t) ==
    /\ at[t] \in Launching
    /\ at[t] \in {"device", "redevice"} => before.tun
    /\ Becomes(Nothing)
    /\ IF at[t] = "launch" /\ prior # None
       THEN Goes(t, "relaunch") /\ UNCHANGED <<lifecycle, reloadVars>>
       ELSE Leave(t) /\ Returns /\ target' = Default
    /\ UNCHANGED javaVars

\* protect(), the start or the device fails, and stop(); the first time the
\* prior configuration is launched, if there was one.
LaunchFails(t) ==
    /\ at[t] \in Launching
    /\ at[t] \in {"device", "redevice"} => before.tun
    /\ Becomes(Nothing)
    /\ IF at[t] \in {"launch", "device"} /\ prior # None
       THEN Goes(t, "relaunch") /\ UNCHANGED <<lifecycle, reloadVars>>
       ELSE Leave(t) /\ Returns /\ target' = Default
    /\ UNCHANGED javaVars

\* The device is started again if there was one; reload() returns.
Reopens(t) ==
    /\ at[t] \in {"device", "redevice"}
    /\ tun' = before.tun
    /\ Returns
    /\ IF at[t] = "device"
       THEN Goes(t, "loaded") /\ UNCHANGED <<lifecycle, target>>
       ELSE Leave(t) /\ target' = Default
    /\ UNCHANGED <<session, dns, protected, javaVars>>

\* Java learns the profile's mode only now: a failure has thrown before this.
Loaded(t) ==
    /\ at[t] = "loaded"
    /\ mode' = target /\ target' = Default /\ Leave(t)
    /\ UNCHANGED <<engineVars, loading, prior, overridden, before, physical, list, callback>>

\* PATCH /configs and the like, or PATCH /asterisk/auto-switch, while the
\* session's runtime serves them.
Edit ==
    /\ session # None
    /\ \/ session' = [session EXCEPT !.edited = TRUE]
       \/ session' = [session EXCEPT !.override = TRUE]
    /\ UNCHANGED <<tun, dns, protected, at, lifecycle, reloadVars, javaVars>>

-----------------------------------------------------------------------------
(* TUN *)

StartTunContext(t) ==
    /\ Enter(t, "guard") /\ callback' = TRUE
    /\ UNCHANGED <<engineVars, reloadVars, physical, list, mode>>

\* setPlatform(): from startTunContext(), which returns, or from startTun().
Guards(t) ==
    /\ Calls(t, {"guard"})
    /\ protected' = TRUE
    /\ Leave(t) \/ (Goes(t, "open") /\ UNCHANGED lifecycle)
    /\ UNCHANGED <<session, tun, dns, reloadVars, javaVars>>

MayOpen == session # None /\ protected /\ ~tun

\* startTunWithDns(): refused, or the device starts, or fails to.
Opens(t) ==
    /\ Calls(t, {"open"})
    /\ tun' \in (IF MayOpen THEN BOOLEAN ELSE {tun})
    /\ Leave(t)
    /\ UNCHANGED <<session, dns, protected, reloadVars, javaVars>>

StopTun(t) ==
    /\ Calls(t, {"idle"})
    /\ tun' = FALSE
    /\ UNCHANGED <<session, dns, protected, at, lifecycle, reloadVars, javaVars>>

\* Mutant: the callback goes and the device stays.
ForgetFirst == "forget"

CloseFirst == "close"

StopTunContext(t) ==
    /\ Enter(t, CloseFirst)
    /\ UNCHANGED <<engineVars, reloadVars, javaVars>>

Closes(t) ==
    /\ Calls(t, {"close"})
    /\ tun' = FALSE /\ Goes(t, "forget")
    /\ UNCHANGED <<session, dns, protected, lifecycle, reloadVars, javaVars>>

Forgets(t) ==
    /\ at[t] = "forget"
    /\ callback' = FALSE /\ Goes(t, "unguard")
    /\ UNCHANGED <<engineVars, lifecycle, reloadVars, physical, list, mode>>

Unguards(t) ==
    /\ Calls(t, {"unguard"})
    /\ protected' = TRUE /\ Leave(t)
    /\ UNCHANGED <<session, tun, dns, reloadVars, javaVars>>

-----------------------------------------------------------------------------

ResetStep(t) == Reset(t) \/ ResetStops(t) \/ ResetReads(t) \/ ResetStarts(t)
DnsStep(t) == Notifies(t) \/ NotifyRefused(t) \/ \E l \in Lists : NotifyDnsChanged(t, l)
LoadStep(t) ==
    \/ LoadRefused(t) \/ Copies(t) \/ Suspends(t) \/ Halts(t)
    \/ Launches(t) \/ LaunchFails(t) \/ Reopens(t) \/ Loaded(t)
    \/ \E c \in Configs : Load(t, c)
TunStep(t) ==
    \/ StartTunContext(t) \/ Guards(t) \/ Opens(t) \/ StopTun(t)
    \/ StopTunContext(t) \/ Closes(t) \/ Forgets(t) \/ Unguards(t)

Next == Edit \/ \E t \in Threads : ResetStep(t) \/ DnsStep(t) \/ LoadStep(t) \/ TunStep(t)

Spec == Init /\ [][Next]_vars

-----------------------------------------------------------------------------
(* Properties *)

\* While a reload is between its stop() and its return, the caller still counts
\* on what it found.
Shown == IF loading # None /\ at[loading] \in Launching THEN before ELSE Engine

\* The native load has returned and Java is about to take note.
Believed == IF lifecycle # None /\ at[lifecycle] = "loaded" THEN target ELSE mode

LoadShown ==
    IF loading = None THEN None
    ELSE [asked |-> target, found |-> prior, restoring |-> at[loading] \in {"relaunch", "redevice"}]

Promise == INSTANCE SessionPromise WITH
    content <- Shown.session, device <- Shown.tun, servers <- Shown.dns, guarded <- Shown.protected,
    believed <- Believed, load <- LoadShown

\* Loads, roll-backs and resets, whatever fails in them and whatever runs beside
\* them, keep the promise of SessionPromise: a load that throws has brought back
\* what it found, and the override outlives every load.
KeepsPromise == Promise!Spec

\* Java's mode is the running profile's: a load that failed, and one that rolled
\* back, have not changed it.
JavaAgrees == lifecycle = None /\ session # None => session.config = mode

\* While TUN runs the app marks the library's sockets: without the callback
\* they would be routed into the device they serve.
MarkedWhileTun == tun => callback
=============================================================================

--------------------------- MODULE SessionPromise ---------------------------
(***************************************************************************)
(* What the embedded library promises of its session (rust/README.md,      *)
(* "Compatibility facade", and the comments of engine.rs and               *)
(* NativeBridge.java): there is at most one; it runs behind the VPN's      *)
(* socket protection; the TUN device belongs to it; a load that returns    *)
(* has replaced its configuration and kept TUN, physical DNS and the       *)
(* auto-switch override; a load that throws has kept the configuration     *)
(* that ran, and only where bringing that back fails as well is nothing    *)
(* left, and then nothing half-way.                                        *)
(*                                                                         *)
(* A load is not atomic: the control API goes on meanwhile, and what it    *)
(* changes after the load began may be lost.  What it changed before may   *)
(* not, except that a new configuration replaces changes of the old one.   *)
(***************************************************************************)
EXTENDS SystemDns

CONSTANT Configs \* profiles

VARIABLES
    content,  \* what the session runs, None when there is none
    device,   \* TUN carries traffic
    servers,  \* physical DNS in effect
    guarded,  \* socket protection is installed
    believed, \* the profile the app was told runs
    load      \* the load under way, None when there is none

promiseVars == <<content, device, servers, guarded, believed, load>>

\* A profile; whether the control API changed the running configuration since;
\* and whether it overrides the profile's auto-switch settings.
Contents == [config : Configs, edited : BOOLEAN, override : BOOLEAN]

\* The profile asked for, what ran when the load began, and whether it gave up
\* the former and is bringing back the latter.
Loads == [asked : Configs, found : Contents \cup {None}, restoring : BOOLEAN]

\* One session; and TUN only with one, behind protection, lest its own sockets
\* are routed into it.
Safe ==
    /\ content \in Contents \cup {None}
    /\ device \in BOOLEAN /\ guarded \in BOOLEAN /\ servers \in Lists
    /\ content # None => guarded
    /\ device => content # None

Init ==
    /\ content = None /\ device = FALSE /\ servers = NoServers /\ guarded = FALSE
    /\ believed \in Configs /\ load = None

Start ==
    /\ content = None /\ load = None
    /\ believed' \in Configs
    /\ content' = [config |-> believed', edited |-> FALSE, override |-> FALSE]
    /\ guarded' = TRUE
    /\ UNCHANGED <<device, servers, load>>

NothingIsLeft ==
    content' = None /\ device' = FALSE /\ servers' = NoServers /\ guarded' = FALSE

\* Also what is left of a start that fails.
Stop ==
    /\ load = None
    /\ NothingIsLeft
    /\ UNCHANGED <<believed, load>>

LoadBegins ==
    /\ load = None
    /\ \E c \in Configs : load' = [asked |-> c, found |-> content, restoring |-> FALSE]
    /\ UNCHANGED <<content, device, servers, guarded, believed>>

LoadReturns ==
    /\ load # None /\ ~load.restoring
    /\ content' \in Contents /\ content'.config = load.asked
    /\ load.found # None /\ load.found.override => content'.override
    /\ believed' = load.asked /\ load' = None
    /\ guarded' = TRUE
    /\ UNCHANGED <<device, servers>>

GivesUp ==
    /\ load # None /\ load.found # None
    /\ load' = [asked |-> load.asked, found |-> load.found, restoring |-> TRUE]
    /\ UNCHANGED <<content, device, servers, guarded, believed>>

\* Everything that ran is in c, and maybe changes made meanwhile.
Includes(c, found) ==
    \/ c = None /\ found = None
    \/ /\ found # None
       /\ c \in Contents /\ c.config = found.config
       /\ found.edited => c.edited
       /\ found.override => c.override

LoadThrows ==
    /\ load # None
    /\ Includes(content', load.found)
    /\ load' = None
    /\ UNCHANGED <<device, servers, guarded, believed>>

\* There was nothing to bring back, or it could not be.
LoadBreaks ==
    /\ load # None
    /\ load.found = None \/ load.restoring
    /\ NothingIsLeft
    /\ load' = None /\ UNCHANGED believed

Edit ==
    /\ content # None
    /\ \/ content' = [content EXCEPT !.edited = TRUE]
       \/ content' = [content EXCEPT !.override = TRUE]
    /\ UNCHANGED <<device, servers, guarded, believed, load>>

Notify == servers' \in Lists /\ UNCHANGED <<content, device, guarded, believed, load>>

Guard == guarded' = TRUE /\ UNCHANGED <<content, device, servers, believed, load>>

OpenDevice ==
    /\ content # None /\ guarded
    /\ device' = TRUE
    /\ UNCHANGED <<content, servers, guarded, believed, load>>

CloseDevice == device' = FALSE /\ UNCHANGED <<content, servers, guarded, believed, load>>

Next ==
    \/ Start \/ Stop \/ LoadBegins \/ LoadReturns \/ GivesUp \/ LoadThrows \/ LoadBreaks
    \/ Edit \/ Notify \/ Guard \/ OpenDevice \/ CloseDevice

Spec == Init /\ [][Next]_promiseVars
=============================================================================

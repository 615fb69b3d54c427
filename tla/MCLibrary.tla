----------------------------- MODULE MCLibrary ------------------------------
(***************************************************************************)
(* Three parts of the library that share no variable, checked one at a     *)
(* time: the session as an app embeds it, the daemon, whose run() holds    *)
(* the operation lock for good so that no session of the former kind is    *)
(* beside it, and the fetches, which run outside that lock.                *)
(*                                                                         *)
(* Two Java threads and the control API on two profiles; one network that  *)
(* changes between two lists, and a socket pair that one frame fills; two  *)
(* fetches with the same ID.                                               *)
(***************************************************************************)
EXTENDS Session, Daemon, Subscription

CONSTANTS a, b, l, t1, t2, f1, f2

MCConfigs == {a, b}
MCLists == {l, NoServers}
MCThreads == {t1, t2}
MCFetches == {f1, f2}

VARIABLE part

allVars == <<part, vars, daemonVars, fetchVars>>

LibraryInit ==
    /\ part \in {"session", "daemon", "fetch"} /\ Init /\ DaemonInit /\ FetchInit
    /\ part # "daemon" => network = l

SessionNext == part = "session" /\ Next /\ UNCHANGED <<part, daemonVars, fetchVars>>
ServiceNext == part = "daemon" /\ DaemonNext /\ UNCHANGED <<part, vars, fetchVars>>
DownloadNext == part = "fetch" /\ FetchNext /\ UNCHANGED <<part, vars, daemonVars>>

LibraryNext == SessionNext \/ ServiceNext \/ DownloadNext

LibrarySpec ==
    /\ LibraryInit /\ [][LibraryNext]_allVars
    /\ part = "daemon" => DaemonFairness
    /\ part = "fetch" => FetchFairness
=============================================================================

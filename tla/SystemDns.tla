----------------------------- MODULE SystemDns ------------------------------
(***************************************************************************)
(* meow_dns::system_dns, the process-wide list of the physical network's   *)
(* DNS servers, and the endpoints systemdns.rs lets into it.               *)
(***************************************************************************)
CONSTANTS
    Lists,      \* lists of servers it can hold
    NoServers,  \* the empty one
    None        \* no value

ASSUME ListsAssumption == NoServers \in Lists /\ None \notin Lists
=============================================================================

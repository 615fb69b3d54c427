------------------------------- MODULE Daemon -------------------------------
(***************************************************************************)
(* The command line of the native library (cli.rs) as a rooted daemon, and *)
(* what tells it the physical DNS servers: SystemDnsHelper.java, a process *)
(* of its own that publishes a snapshot for each change of the network and *)
(* writes the latest one to a socket pair, and systemdns::root::Watcher,   *)
(* the thread that reads them.                                             *)
(*                                                                         *)
(* Abstracted: a frame is the list it carries, or one read() rejects; the  *)
(* engine starts or fails.  Helper threads: the handler publishes, serve() *)
(* takes and writes.                                                       *)
(***************************************************************************)
EXTENDS SystemDns, Naturals, Sequences

CONSTANT Frames \* bound: frames the socket pair holds

ASSUME FramesAssumption == Frames \in Nat \ {0}

VARIABLES
    network,    \* the servers Android reports now
    helper,     \* its process: "absent", "up" or "dead"
    snapshot,   \* SystemDnsHelper.snapshot, None before the first
    fresh,      \* serve() has not taken it yet: sent # generation
    carried,    \* what serve() is writing, None if nothing
    channel,    \* frames written and not read
    shut,       \* Watcher.control has been shut down
    worker,     \* the watcher's thread
    previous,   \* the last list it read
    cause,      \* history: why its read failed
    stopping,   \* Watcher.stopping
    failed,     \* Watcher.failed
    effective,  \* meow_dns::system_dns
    main,       \* where run() is
    signal,     \* SIGINT or SIGTERM was delivered
    status      \* what run() will return

helperVars == <<helper, snapshot, fresh, carried>>
workerVars == <<worker, previous, cause, failed>>
mainVars == <<main, stopping, status>>
daemonVars == <<network, helperVars, channel, shut, workerVars, effective, mainVars, signal>>

\* run() is on its way out.  "quit": an error of Watcher::start() took it out
\* with a helper that was spawned and, past the first snapshot, a list that was set.
Stopping == {"stop", "shut", "join", "end", "exit", "quit", "killed"}

DaemonInit ==
    /\ network \in Lists
    /\ helper = "absent" /\ snapshot = None /\ fresh = FALSE /\ carried = None
    /\ channel = <<>> /\ shut = FALSE
    /\ worker = "none" /\ previous = NoServers /\ cause = None /\ failed = FALSE
    /\ effective = NoServers
    /\ main = "begin" /\ stopping = FALSE /\ status = 0 /\ signal = FALSE

-----------------------------------------------------------------------------
(* The helper *)

NetworkChanges ==
    /\ network' \in Lists \ {network}
    /\ UNCHANGED <<helperVars, channel, shut, workerVars, effective, mainVars, signal>>

\* publish(), which each callback invokes, reads the network anew.
Publishes ==
    /\ helper = "up" /\ snapshot # network
    /\ snapshot' = network /\ fresh' = TRUE
    /\ UNCHANGED <<network, helper, carried, channel, shut, workerVars, effective, mainVars, signal>>

\* Mutant: `sent` becomes the generation only when the frame is out.
SentAtWrite == FALSE

\* serve() sets `sent` together with taking the snapshot.
SentAtTake == TRUE

Takes ==
    /\ helper = "up" /\ fresh /\ carried = None
    /\ carried' = snapshot /\ fresh' = ~SentAtTake
    /\ UNCHANGED <<network, helper, snapshot, channel, shut, workerVars, effective, mainVars, signal>>

\* A full socket pair blocks the write.
Writes ==
    /\ helper = "up" /\ carried # None /\ ~shut /\ Len(channel) < Frames
    /\ channel' = Append(channel, carried)
    /\ carried' = None /\ fresh' = (fresh /\ SentAtTake)
    /\ UNCHANGED <<network, helper, snapshot, shut, workerVars, effective, mainVars, signal>>

\* A failed callback, the death of the connectivity service, a crash, or the
\* end of its standard input.
HelperDies ==
    /\ helper = "up" /\ helper' = "dead"
    /\ UNCHANGED <<network, snapshot, fresh, carried, channel, shut, workerVars, effective, mainVars, signal>>

-----------------------------------------------------------------------------
(* The watcher's thread *)

Reads ==
    /\ worker = "read" /\ channel # <<>>
    /\ channel' = Tail(channel) /\ previous' = Head(channel)
    /\ worker' = IF Head(channel) # previous THEN "update" ELSE "read"
    /\ UNCHANGED <<network, helperVars, shut, cause, failed, effective, mainVars, signal>>

Updates ==
    /\ worker = "update" /\ worker' = "read"
    /\ effective' = previous
    /\ UNCHANGED <<network, helperVars, channel, shut, previous, cause, failed, mainVars, signal>>

\* The end of the stream, after what was written to it; or a frame that
\* snapshot() rejects.
ReadFails ==
    /\ worker = "read"
    /\ \/ channel = <<>> /\ (shut \/ helper = "dead") /\ cause' = (IF shut THEN "asked" ELSE "helper")
       \/ channel # <<>> /\ ~shut /\ cause' = "helper"
    /\ worker' = "check"
    /\ UNCHANGED <<network, helperVars, channel, shut, previous, failed, effective, mainVars, signal>>

\* Mutant: the thread takes the end of its stream for a failure at any time.
NeverExcused == FALSE

Excused == stopping

Checks ==
    /\ worker = "check"
    /\ worker' = IF Excused THEN "reap" ELSE "clear"
    /\ UNCHANGED <<network, helperVars, channel, shut, previous, cause, failed, effective, mainVars, signal>>

Clears ==
    /\ worker = "clear" /\ worker' = "flag"
    /\ effective' = NoServers
    /\ UNCHANGED <<network, helperVars, channel, shut, previous, cause, failed, mainVars, signal>>

Flags ==
    /\ worker = "flag" /\ worker' = "kill"
    /\ failed' = TRUE
    /\ UNCHANGED <<network, helperVars, channel, shut, previous, cause, effective, mainVars, signal>>

\* Mutant: a failed helper only logs.
OnlyLogs == FALSE

Terminates == TRUE

\* SIGTERM to this very process: recorded if its handlers are installed, whether
\* or not run() waits for it yet.
Kills ==
    /\ worker = "kill" /\ worker' = "reap"
    /\ signal' = (signal \/ Terminates)
    /\ UNCHANGED <<network, helperVars, channel, shut, previous, cause, failed, effective, mainVars>>

\* shutdown(), then reap(), which kills the child after two seconds.
Reaps ==
    /\ worker = "reap" /\ worker' = "done"
    /\ shut' = TRUE /\ helper' = "dead"
    /\ UNCHANGED <<network, snapshot, fresh, carried, channel, previous, cause, failed, effective, mainVars, signal>>

-----------------------------------------------------------------------------
(* run() *)

\* Signals have their default action until the handlers are there.
Signalled ==
    /\ main \notin {"exit", "quit", "killed"} /\ ~signal
    /\ IF main = "begin" THEN main' = "killed" /\ UNCHANGED signal ELSE signal' = TRUE /\ UNCHANGED main
    /\ UNCHANGED <<network, helperVars, channel, shut, workerVars, effective, stopping, status>>

InstallsHandlers ==
    /\ main = "begin"
    /\ \/ main' = "watch" /\ UNCHANGED status
       \/ main' = "exit" /\ status' = 1
    /\ UNCHANGED <<network, helperVars, channel, shut, workerVars, effective, stopping, signal>>

\* An error past the spawn drops the socket and neither reaps the helper nor
\* stops the engine.
Quits == main' = "quit" /\ status' = 1 /\ shut' = TRUE

\* Watcher::start(): there is no helper without root; the helper's file, the
\* socket pair or the spawn may fail, or, past the spawn, the socket's set-up.
StartsWatcher ==
    /\ main = "watch"
    /\ \/ main' = "initial" /\ helper' = "up" /\ UNCHANGED <<status, shut>>
       \/ main' = "engine" /\ UNCHANGED <<helper, status, shut>>
       \/ main' = "exit" /\ status' = 1 /\ UNCHANGED <<helper, shut>>
       \/ Quits /\ helper' = "up"
    /\ UNCHANGED <<network, snapshot, fresh, carried, channel, workerVars, effective, stopping, signal>>

\* The list is set before the socket's timeout is lifted, which may fail too.
ReadsInitial ==
    /\ main = "initial" /\ channel # <<>>
    /\ channel' = Tail(channel) /\ effective' = Head(channel)
    /\ \/ /\ previous' = Head(channel) /\ worker' = "read" /\ main' = "engine"
          /\ UNCHANGED <<shut, status>>
       \/ Quits /\ UNCHANGED <<previous, worker>>
    /\ UNCHANGED <<network, helperVars, cause, failed, stopping, signal>>

\* Ten seconds pass, the helper dies or its frame is rejected.
InitialFails ==
    /\ main = "initial"
    /\ shut' = TRUE /\ helper' = "dead"
    /\ main' = "exit" /\ status' = 1
    /\ UNCHANGED <<network, snapshot, fresh, carried, channel, workerVars, effective, stopping, signal>>

\* engine::start(): a failure runs its own stop(), which clears the DNS list
\* while the watcher still runs.
StartsEngine ==
    /\ main = "engine"
    /\ \/ main' = "wait" /\ UNCHANGED <<effective, status>>
       \/ main' = "stop" /\ status' = 1 /\ effective' = NoServers
    /\ UNCHANGED <<network, helperVars, channel, shut, workerVars, stopping, signal>>

Wakes ==
    /\ main = "wait" /\ signal
    /\ main' = "stop"
    /\ UNCHANGED <<network, helperVars, channel, shut, workerVars, effective, stopping, status, signal>>

\* Watcher::stop(): the request is stored before the shutdown that the thread
\* will see, and the thread joined.
Stores ==
    /\ main = "stop"
    /\ IF worker = "none" THEN main' = "end" /\ UNCHANGED stopping ELSE main' = "shut" /\ stopping' = TRUE
    /\ UNCHANGED <<network, helperVars, channel, shut, workerVars, effective, status, signal>>

Shuts ==
    /\ main = "shut" /\ main' = "join"
    /\ shut' = TRUE
    /\ UNCHANGED <<network, helperVars, channel, workerVars, effective, stopping, status, signal>>

Joins ==
    /\ main = "join" /\ worker = "done"
    /\ main' = "end"
    /\ status' = IF failed /\ status = 0 THEN 70 ELSE status
    /\ UNCHANGED <<network, helperVars, channel, shut, workerVars, effective, stopping, signal>>

\* Mutant: only a session that ran is stopped.
StopsIfRan == IF status = 1 THEN effective ELSE NoServers

\* engine::stop() on either way out.
Stopped == NoServers

StopsEngine ==
    /\ main = "end" /\ main' = "exit"
    /\ effective' = Stopped
    /\ UNCHANGED <<network, helperVars, channel, shut, workerVars, stopping, status, signal>>

-----------------------------------------------------------------------------

HelperStep == Publishes \/ Takes \/ Writes \/ HelperDies
WorkerStep == Reads \/ Updates \/ ReadFails \/ Checks \/ Clears \/ Flags \/ Kills \/ Reaps
MainStep ==
    \/ InstallsHandlers \/ StartsWatcher \/ ReadsInitial \/ InitialFails \/ StartsEngine
    \/ Wakes \/ Stores \/ Shuts \/ Joins \/ StopsEngine

DaemonNext == NetworkChanges \/ Signalled \/ HelperStep \/ WorkerStep \/ MainStep

\* Threads and processes run; what waits for a frame, a signal or the thread
\* may wait for ever, and the helper need not die.
DaemonFairness ==
    /\ WF_daemonVars(MainStep) /\ WF_daemonVars(WorkerStep)
    /\ WF_daemonVars(Publishes) /\ WF_daemonVars(Takes) /\ WF_daemonVars(Writes)

DaemonSpec == DaemonInit /\ [][DaemonNext]_daemonVars /\ DaemonFairness

-----------------------------------------------------------------------------
(* Properties *)

DaemonTypeOK ==
    /\ network \in Lists /\ previous \in Lists /\ effective \in Lists
    /\ helper \in {"absent", "up", "dead"}
    /\ snapshot \in Lists \cup {None} /\ carried \in Lists \cup {None}
    /\ channel \in Seq(Lists) /\ Len(channel) <= Frames
    /\ worker \in {"none", "read", "update", "check", "clear", "flag", "kill", "reap", "done"}
    /\ cause \in {None, "asked", "helper"}
    /\ main \in {"begin", "watch", "initial", "engine", "wait"} \cup Stopping
    /\ status \in {0, 1, 70}
    /\ fresh \in BOOLEAN /\ shut \in BOOLEAN /\ stopping \in BOOLEAN
    /\ failed \in BOOLEAN /\ signal \in BOOLEAN

\* Once nothing is on its way from publish() through serve() and the socket to a
\* thread that waits for the next frame, what the helper published last is in
\* effect, although the helper and the thread each skip what they take for old.
NoChangeLost ==
    snapshot # None /\ ~fresh /\ carried = None /\ channel = <<>>
        /\ worker = "read" /\ main \notin Stopping => effective = snapshot

\* A failure of the helper reaches run() whenever it comes: the thread that has
\* seen it is not done before the signal run() waits for is there, and run() does
\* not return success over it.
FailureReported ==
    failed => /\ worker = "kill" \/ signal
              /\ main = "exit" => status # 0

\* While the helper lives, a list the network keeps comes into effect: no change
\* is lost between publish(), serve() and the watcher.
DnsFollows ==
    \A l \in Lists :
        <>[](network = l /\ helper = "up") => <>([](effective = l) \/ main \in Stopping)

\* A helper that fails under a running daemon ends it, with a status that says
\* so, even if it fails before run() waits for signals.
FailureEnds == failed ~> (main = "exit" /\ status # 0)

\* A daemon that is asked to stop and whose helper was well reports no failure.
OrderlyIsClean == (failed \/ status = 70) => cause = "helper"

\* What run() leaves: no list in effect, no helper, and no thread that could still
\* write the one or read the other.  Three exits of Watcher::start() past the
\* spawn are an exception: they leave the helper to the end of its input, and one
\* of them a list in effect, but no thread; the process ends with them.
NothingLeft ==
    /\ main = "exit" => effective = NoServers /\ helper # "up" /\ worker \in {"none", "done"}
    /\ main = "quit" => worker = "none" /\ shut
=============================================================================

---------------------------- MODULE DaemonProofs ----------------------------
(***************************************************************************)
(* Proofs about Daemon, for any lists and any size of the socket pair: its *)
(* type invariant, that an orderly stop never reports a failure, that      *)
(* run() leaves nothing behind, that no change of the network is lost, and *)
(* that a failed helper is reported.                                       *)
(***************************************************************************)
EXTENDS Daemon, SequenceTheorems, TLAPS

\* The socket is shut down on request, or when the thread or the helper is done
\* with; the thread counts a failure only if the helper caused it.
Blamed ==
    /\ shut => stopping \/ worker \in {"none", "done"}
    /\ worker \in {"clear", "flag", "kill"} \/ failed => cause = "helper"
    /\ worker = "check" /\ ~stopping => cause = "helper"
    /\ failed => worker \in {"kill", "reap", "done"}
    /\ status = 70 => failed

\* The helper is there exactly while someone will reap it, but for the exits that
\* leave it, and past the join nobody is left to write the list.
Attended ==
    /\ worker = "none" /\ main \notin {"initial", "quit"} => helper # "up"
    /\ main = "quit" => worker = "none" /\ shut
    /\ worker = "done" => helper = "dead"
    /\ main \in {"begin", "watch", "initial"} => worker = "none" /\ ~shut
    /\ main \in {"shut", "join"} => worker # "none" /\ stopping
    /\ main \in {"end", "exit", "killed"} => worker \in {"none", "done"}
    /\ main \in {"begin", "watch", "initial", "exit"} => effective = NoServers

DInv == DaemonTypeOK /\ Blamed /\ Attended

\* Nothing runs at first.
LEMMA InitDInv == DaemonInit => DInv
<1> SUFFICES ASSUME DaemonInit PROVE DInv
  OBVIOUS
<1> USE ListsAssumption, FramesAssumption DEF DaemonInit
<1>1. DaemonTypeOK
  <2>1. channel \in Seq(Lists) /\ Len(channel) <= Frames
    OBVIOUS
  <2>2. main \in Stopping \cup {"begin", "watch", "initial", "engine", "wait"}
    OBVIOUS
  <2>. QED BY <2>1, <2>2 DEF DaemonTypeOK
<1>2. Blamed /\ Attended
  BY DEF Blamed, Attended
<1>. QED BY <1>1, <1>2 DEF DInv

\* The socket pair holds lists, no more than it can; so do its tail and head.
LEMMA Channel ==
    ASSUME DaemonTypeOK
    PROVE  /\ channel \in Seq(Lists) /\ Len(channel) \in Nat /\ Frames \in Nat
           /\ channel # <<>> =>
                /\ Head(channel) \in Lists /\ Tail(channel) \in Seq(Lists)
                /\ Len(Tail(channel)) <= Frames
BY FramesAssumption DEF DaemonTypeOK

\* The network is no concern of the threads.
LEMMA NetworkChangesInv == ASSUME DInv, NetworkChanges PROVE DInv'
<1> USE ListsAssumption DEF NetworkChanges, DInv, helperVars, workerVars, mainVars
<1>1. DaemonTypeOK'
  BY FramesAssumption DEF DaemonTypeOK, Stopping
<1>2. Blamed'
  BY DEF DaemonTypeOK, Blamed, Attended
<1>3. Attended'
  BY DEF DaemonTypeOK, Attended
<1>. QED BY <1>1, <1>2, <1>3

\* A snapshot is of the network's list.
LEMMA PublishesInv == ASSUME DInv, Publishes PROVE DInv'
<1> USE ListsAssumption DEF Publishes, DInv, helperVars, workerVars, mainVars
<1>1. DaemonTypeOK'
  BY FramesAssumption DEF DaemonTypeOK, Stopping
<1>2. Blamed'
  BY DEF DaemonTypeOK, Blamed, Attended
<1>3. Attended'
  BY DEF DaemonTypeOK, Attended
<1>. QED BY <1>1, <1>2, <1>3

\* What serve() takes is a list.
LEMMA TakesInv == ASSUME DInv, Takes PROVE DInv'
<1> USE ListsAssumption DEF Takes, SentAtTake, DInv, helperVars, workerVars, mainVars
<1>1. DaemonTypeOK'
  BY FramesAssumption DEF DaemonTypeOK, Stopping
<1>2. Blamed'
  BY DEF DaemonTypeOK, Blamed, Attended
<1>3. Attended'
  BY DEF DaemonTypeOK, Attended
<1>. QED BY <1>1, <1>2, <1>3

\* The socket pair holds no more than it can.
LEMMA WritesInv == ASSUME DInv, Writes PROVE DInv'
<1> USE ListsAssumption DEF Writes, SentAtTake, DInv, helperVars, workerVars, mainVars
<1>1. DaemonTypeOK'
  BY Channel, FramesAssumption DEF DaemonTypeOK, Stopping
<1>2. Blamed'
  BY DEF DaemonTypeOK, Blamed, Attended
<1>3. Attended'
  BY DEF DaemonTypeOK, Attended
<1>. QED BY <1>1, <1>2, <1>3

\* A dead helper is as good as none.
LEMMA HelperDiesInv == ASSUME DInv, HelperDies PROVE DInv'
<1> USE ListsAssumption DEF HelperDies, DInv, helperVars, workerVars, mainVars
<1>1. DaemonTypeOK'
  BY FramesAssumption DEF DaemonTypeOK, Stopping
<1>2. Blamed'
  BY DEF DaemonTypeOK, Blamed, Attended
<1>3. Attended'
  BY DEF DaemonTypeOK, Attended
<1>. QED BY <1>1, <1>2, <1>3

\* A frame is read.
LEMMA ReadsInv == ASSUME DInv, Reads PROVE DInv'
<1> USE ListsAssumption DEF Reads, DInv, helperVars, workerVars, mainVars
<1>1. DaemonTypeOK'
  BY Channel, FramesAssumption DEF DaemonTypeOK, Stopping
<1>2. Blamed'
  BY DEF DaemonTypeOK, Blamed, Attended
<1>3. Attended'
  BY DEF DaemonTypeOK, Attended
<1>. QED BY <1>1, <1>2, <1>3

\* It comes into effect.
LEMMA UpdatesInv == ASSUME DInv, Updates PROVE DInv'
<1> USE ListsAssumption DEF Updates, DInv, helperVars, workerVars, mainVars
<1>1. DaemonTypeOK'
  BY FramesAssumption DEF DaemonTypeOK, Stopping
<1>2. Blamed'
  BY DEF DaemonTypeOK, Blamed, Attended
<1>3. Attended'
  BY DEF DaemonTypeOK, Attended
<1>. QED BY <1>1, <1>2, <1>3

\* A failure of the helper is told from a shutdown.
LEMMA ReadFailsInv == ASSUME DInv, ReadFails PROVE DInv'
<1> USE ListsAssumption DEF ReadFails, DInv, helperVars, workerVars, mainVars
<1>0. \/ shut /\ stopping /\ cause' = "asked"
      \/ ~shut /\ cause' = "helper"
  BY DEF DaemonTypeOK, Blamed
<1>1. DaemonTypeOK'
  BY <1>0, FramesAssumption DEF DaemonTypeOK, Stopping
<1>2. Blamed'
  BY <1>0 DEF DaemonTypeOK, Blamed, Attended
<1>3. Attended'
  BY <1>0 DEF DaemonTypeOK, Attended
<1>. QED BY <1>1, <1>2, <1>3

\* The failure counts only if nobody asked for it,
LEMMA ChecksInv == ASSUME DInv, Checks PROVE DInv'
<1> USE ListsAssumption DEF Checks, Excused, DInv, helperVars, workerVars, mainVars
<1>1. DaemonTypeOK'
  BY FramesAssumption DEF DaemonTypeOK, Stopping
<1>2. Blamed'
  BY DEF DaemonTypeOK, Blamed, Attended
<1>3. Attended'
  BY DEF DaemonTypeOK, Attended
<1>. QED BY <1>1, <1>2, <1>3

\* the list is cleared,
LEMMA ClearsInv == ASSUME DInv, Clears PROVE DInv'
<1> USE ListsAssumption DEF Clears, DInv, helperVars, workerVars, mainVars
<1>1. DaemonTypeOK'
  BY FramesAssumption DEF DaemonTypeOK, Stopping
<1>2. Blamed'
  BY DEF DaemonTypeOK, Blamed, Attended
<1>3. Attended'
  BY DEF DaemonTypeOK, Attended
<1>. QED BY <1>1, <1>2, <1>3

\* the failure kept,
LEMMA FlagsInv == ASSUME DInv, Flags PROVE DInv'
<1> USE ListsAssumption DEF Flags, DInv, helperVars, workerVars, mainVars
<1>1. DaemonTypeOK'
  BY FramesAssumption DEF DaemonTypeOK, Stopping
<1>2. Blamed'
  BY DEF DaemonTypeOK, Blamed, Attended
<1>3. Attended'
  BY DEF DaemonTypeOK, Attended
<1>. QED BY <1>1, <1>2, <1>3

\* and the process told.
LEMMA KillsInv == ASSUME DInv, Kills PROVE DInv'
<1> USE ListsAssumption DEF Kills, Terminates, DInv, helperVars, workerVars, mainVars
<1>1. DaemonTypeOK'
  BY FramesAssumption DEF DaemonTypeOK, Stopping
<1>2. Blamed'
  BY DEF DaemonTypeOK, Blamed, Attended
<1>3. Attended'
  BY DEF DaemonTypeOK, Attended
<1>. QED BY <1>1, <1>2, <1>3

\* The child is reaped.
LEMMA ReapsInv == ASSUME DInv, Reaps PROVE DInv'
<1> USE ListsAssumption DEF Reaps, DInv, helperVars, workerVars, mainVars
<1>1. DaemonTypeOK'
  BY FramesAssumption DEF DaemonTypeOK, Stopping
<1>2. Blamed'
  BY DEF DaemonTypeOK, Blamed, Attended
<1>3. Attended'
  BY DEF DaemonTypeOK, Attended
<1>. QED BY <1>1, <1>2, <1>3

\* A signal only wakes run().
LEMMA SignalledInv == ASSUME DInv, Signalled PROVE DInv'
<1> USE ListsAssumption DEF Signalled, DInv, helperVars, workerVars, mainVars
<1>0. \/ main = "begin" /\ main' = "killed" /\ signal' = signal
      \/ main # "begin" /\ main' = main /\ signal' = TRUE
  OBVIOUS
<1>00. main' \in {"begin", "watch", "initial", "engine", "wait"} \cup Stopping /\ signal' \in BOOLEAN
  BY <1>0 DEF DaemonTypeOK, Stopping
<1>1. DaemonTypeOK'
  BY <1>00 DEF DaemonTypeOK
<1>2. Blamed'
  BY <1>0 DEF DaemonTypeOK, Blamed, Attended
<1>3. Attended'
  BY <1>0 DEF DaemonTypeOK, Attended
<1>. QED BY <1>1, <1>2, <1>3

\* Nothing runs yet.
LEMMA InstallsHandlersInv == ASSUME DInv, InstallsHandlers PROVE DInv'
<1> USE ListsAssumption DEF InstallsHandlers, DInv, helperVars, workerVars, mainVars
<1>1. DaemonTypeOK'
  BY FramesAssumption DEF DaemonTypeOK, Stopping
<1>2. Blamed'
  BY DEF DaemonTypeOK, Blamed, Attended
<1>3. Attended'
  BY DEF DaemonTypeOK, Attended
<1>. QED BY <1>1, <1>2, <1>3

\* The helper starts, or not.
LEMMA StartsWatcherInv == ASSUME DInv, StartsWatcher PROVE DInv'
<1> USE ListsAssumption DEF StartsWatcher, Quits, DInv, helperVars, workerVars, mainVars
<1>0. main' \in {"initial", "engine", "exit", "quit"} /\ status' \in {status, 1}
      /\ helper' \in {helper, "up"} /\ shut' \in {shut, TRUE}
  OBVIOUS
<1>00. main' \in {"begin", "watch", "initial", "engine", "wait"} \cup Stopping
  BY <1>0 DEF Stopping
<1>1. DaemonTypeOK'
  <2>1. UNCHANGED <<network, snapshot, fresh, carried, channel, workerVars, effective, stopping, signal>>
    OBVIOUS
  <2> HIDE DEF StartsWatcher, Quits
  <2>2. status' \in {0, 1, 70} /\ helper' \in {"absent", "up", "dead"} /\ shut' \in BOOLEAN
    BY <1>0 DEF DaemonTypeOK
  <2>. QED BY <1>00, <2>1, <2>2 DEF DaemonTypeOK
<1>2. Blamed'
  BY DEF DaemonTypeOK, Blamed, Attended
<1>3. Attended'
  BY DEF DaemonTypeOK, Attended
<1>. QED BY <1>1, <1>2, <1>3

\* The thread starts with the first list.
LEMMA ReadsInitialInv == ASSUME DInv, ReadsInitial PROVE DInv'
<1> USE ListsAssumption DEF ReadsInitial, Quits, DInv, helperVars, workerVars, mainVars
<1>0. main' \in {"engine", "quit"} /\ status' \in {status, 1} /\ worker' \in {worker, "read"}
      /\ previous' \in {previous, Head(channel)} /\ shut' \in {shut, TRUE}
  OBVIOUS
<1>00. main' \in {"begin", "watch", "initial", "engine", "wait"} \cup Stopping
  BY <1>0 DEF Stopping
<1>1. DaemonTypeOK'
  <2>1. /\ channel # <<>> /\ channel' = Tail(channel) /\ effective' = Head(channel)
        /\ UNCHANGED <<network, helperVars, cause, failed, stopping, signal>>
    OBVIOUS
  <2>2. /\ channel' \in Seq(Lists) /\ Len(channel') <= Frames /\ effective' \in Lists
        /\ previous' \in Lists
    BY <1>0, <2>1, Channel DEF DaemonTypeOK
  <2> HIDE DEF ReadsInitial, Quits
  <2>3. /\ status' \in {0, 1, 70} /\ shut' \in BOOLEAN
        /\ worker' \in {"none", "read", "update", "check", "clear", "flag", "kill", "reap", "done"}
    BY <1>0 DEF DaemonTypeOK
  <2>. QED BY <1>00, <2>1, <2>2, <2>3 DEF DaemonTypeOK
<1>2. Blamed'
  BY DEF DaemonTypeOK, Blamed, Attended
<1>3. Attended'
  BY DEF DaemonTypeOK, Attended
<1>. QED BY <1>1, <1>2, <1>3

\* Without a first list the helper is reaped.
LEMMA InitialFailsInv == ASSUME DInv, InitialFails PROVE DInv'
<1> USE ListsAssumption DEF InitialFails, DInv, helperVars, workerVars, mainVars
<1>1. DaemonTypeOK'
  BY FramesAssumption DEF DaemonTypeOK, Stopping
<1>2. Blamed'
  BY DEF DaemonTypeOK, Blamed, Attended
<1>3. Attended'
  BY DEF DaemonTypeOK, Attended
<1>. QED BY <1>1, <1>2, <1>3

\* The engine starts or fails.
LEMMA StartsEngineInv == ASSUME DInv, StartsEngine PROVE DInv'
<1> USE ListsAssumption DEF StartsEngine, DInv, helperVars, workerVars, mainVars
<1>1. DaemonTypeOK'
  BY FramesAssumption DEF DaemonTypeOK, Stopping
<1>2. Blamed'
  BY DEF DaemonTypeOK, Blamed, Attended
<1>3. Attended'
  BY DEF DaemonTypeOK, Attended
<1>. QED BY <1>1, <1>2, <1>3

\* A signal was delivered.
LEMMA WakesInv == ASSUME DInv, Wakes PROVE DInv'
<1> USE ListsAssumption DEF Wakes, DInv, helperVars, workerVars, mainVars
<1>1. DaemonTypeOK'
  BY FramesAssumption DEF DaemonTypeOK, Stopping
<1>2. Blamed'
  BY DEF DaemonTypeOK, Blamed, Attended
<1>3. Attended'
  BY DEF DaemonTypeOK, Attended
<1>. QED BY <1>1, <1>2, <1>3

\* The request comes before the shutdown,
LEMMA StoresInv == ASSUME DInv, Stores PROVE DInv'
<1> USE ListsAssumption DEF Stores, DInv, helperVars, workerVars, mainVars
<1>0. \/ worker = "none" /\ main' = "end" /\ stopping' = stopping
      \/ worker # "none" /\ main' = "shut" /\ stopping' = TRUE
  OBVIOUS
<1>00. main' \in {"begin", "watch", "initial", "engine", "wait"} \cup Stopping /\ stopping' \in BOOLEAN
  BY <1>0 DEF DaemonTypeOK, Stopping
<1>1. DaemonTypeOK'
  BY <1>00 DEF DaemonTypeOK
<1>2. Blamed'
  BY <1>0 DEF DaemonTypeOK, Blamed, Attended
<1>3. Attended'
  BY <1>0 DEF DaemonTypeOK, Attended
<1>. QED BY <1>1, <1>2, <1>3

\* the shutdown after it,
LEMMA ShutsInv == ASSUME DInv, Shuts PROVE DInv'
<1> USE ListsAssumption DEF Shuts, DInv, helperVars, workerVars, mainVars
<1>1. DaemonTypeOK'
  BY FramesAssumption DEF DaemonTypeOK, Stopping
<1>2. Blamed'
  BY DEF DaemonTypeOK, Blamed, Attended
<1>3. Attended'
  BY DEF DaemonTypeOK, Attended
<1>. QED BY <1>1, <1>2, <1>3

\* and the thread is joined.
LEMMA JoinsInv == ASSUME DInv, Joins PROVE DInv'
<1> USE ListsAssumption DEF Joins, DInv, helperVars, workerVars, mainVars
<1>1. DaemonTypeOK'
  BY FramesAssumption DEF DaemonTypeOK, Stopping
<1>2. Blamed'
  BY DEF DaemonTypeOK, Blamed, Attended
<1>3. Attended'
  BY DEF DaemonTypeOK, Attended
<1>. QED BY <1>1, <1>2, <1>3

\* The last thing is to clear the list.
LEMMA StopsEngineInv == ASSUME DInv, StopsEngine PROVE DInv'
<1> USE ListsAssumption DEF StopsEngine, Stopped, DInv, helperVars, workerVars, mainVars
<1>1. DaemonTypeOK'
  BY FramesAssumption DEF DaemonTypeOK, Stopping
<1>2. Blamed'
  BY DEF DaemonTypeOK, Blamed, Attended
<1>3. Attended'
  BY DEF DaemonTypeOK, Attended
<1>. QED BY <1>1, <1>2, <1>3

\* Every step preserves the invariant.
LEMMA NextDInv == ASSUME DInv, [DaemonNext]_daemonVars PROVE DInv'
<1>1. CASE UNCHANGED daemonVars
  BY <1>1 DEF daemonVars, helperVars, workerVars, mainVars, DInv, DaemonTypeOK, Blamed, Attended
<1>2. CASE HelperStep
  BY <1>2, PublishesInv, TakesInv, WritesInv, HelperDiesInv DEF HelperStep
<1>3. CASE WorkerStep
  BY <1>3, ReadsInv, UpdatesInv, ReadFailsInv, ChecksInv, ClearsInv, FlagsInv, KillsInv, ReapsInv DEF WorkerStep
<1>4. CASE MainStep
  BY <1>4, InstallsHandlersInv, StartsWatcherInv, ReadsInitialInv, InitialFailsInv, StartsEngineInv,
     WakesInv, StoresInv, ShutsInv, JoinsInv, StopsEngineInv DEF MainStep
<1>. QED
  BY <1>1, <1>2, <1>3, <1>4, NetworkChangesInv, SignalledInv DEF DaemonNext

\* The inductive invariant holds throughout.
THEOREM DaemonInvariant == DaemonSpec => []DInv
BY InitDInv, NextDInv, PTL DEF DaemonSpec

\* Every variable of the daemon keeps its type, and the socket pair its bound.
THEOREM DaemonTyped == DaemonSpec => []DaemonTypeOK
<1>1. DInv => DaemonTypeOK
  BY DEF DInv
<1>. QED BY <1>1, DaemonInvariant, PTL

\* Asked to stop, the daemon reports no failure of a helper that was well.
THEOREM OrderlyStop == DaemonSpec => []OrderlyIsClean
<1>1. DInv => OrderlyIsClean
  BY DEF DInv, Blamed, OrderlyIsClean
<1>. QED BY <1>1, DaemonInvariant, PTL

\* When run() has returned there is no helper, no thread and no list, but for the
\* errors of Watcher::start() past the spawn, where there is no thread and the
\* helper has lost its input.
THEOREM LeavesNothing == DaemonSpec => []NothingLeft
<1>1. DInv => NothingLeft
  BY DEF DInv, DaemonTypeOK, Attended, NothingLeft
<1>. QED BY <1>1, DaemonInvariant, PTL

-----------------------------------------------------------------------------
(* No change of the network is lost *)

\* The newest list is in the first of the places it passes that is not empty:
\* yet to be taken, being written, last in the socket pair, or read last.  A
\* thread that waits has put into effect what it read last.
OnItsWay ==
    /\ snapshot # None /\ ~fresh /\ carried # None => carried = snapshot
    /\ snapshot # None /\ ~fresh /\ carried = None /\ channel # <<>> =>
           channel[Len(channel)] = snapshot
    /\ snapshot # None /\ ~fresh /\ carried = None /\ channel = <<>> /\ worker # "none" =>
           previous = snapshot
    /\ worker = "read" /\ main \notin Stopping => effective = previous

\* The last frame stays the last one when the first is read; it is the first
\* when it is alone.
LEMMA LastFrame ==
    ASSUME DaemonTypeOK, channel # <<>>
    PROVE  IF Tail(channel) = <<>> THEN Head(channel) = channel[Len(channel)]
           ELSE Tail(channel)[Len(Tail(channel))] = channel[Len(channel)]
<1>1. channel \in Seq(Lists) /\ Len(channel) \in Nat \ {0}
  BY DEF DaemonTypeOK
<1>2. Len(Tail(channel)) = Len(channel) - 1 /\ Tail(channel) \in Seq(Lists)
  BY <1>1
<1>3. CASE Tail(channel) = <<>>
  BY <1>1, <1>2, <1>3
<1>4. CASE Tail(channel) # <<>>
  <2>1. Len(Tail(channel)) \in 1 .. Len(channel) - 1
    BY <1>1, <1>2, <1>4
  <2>2. Tail(channel)[Len(Tail(channel))] = channel[Len(Tail(channel)) + 1]
    BY <1>1, <2>1
  <2>. QED BY <1>1, <1>2, <1>4, <2>2
<1>. QED BY <1>3, <1>4

\* The helper passes on what it took, and remembers what came meanwhile.
LEMMA HelperPassesOn == ASSUME DInv, OnItsWay, HelperStep PROVE OnItsWay'
<1> USE DEF OnItsWay, helperVars, workerVars, mainVars, SentAtTake
<1>1. CASE Publishes
  BY <1>1 DEF Publishes
<1>2. CASE Takes
  BY <1>2 DEF Takes, DInv, DaemonTypeOK
<1>3. CASE Writes
  <2>1. channel \in Seq(Lists) /\ Len(channel) \in Nat
    BY Channel DEF DInv
  <2>2. channel' = Append(channel, carried) /\ carried' = None /\ carried # None /\ snapshot' = snapshot
    BY <1>3 DEF Writes
  <2>3. fresh' = fresh
    BY <1>3 DEF Writes, DInv, DaemonTypeOK
  <2>4. channel' # <<>> /\ channel'[Len(channel')] = carried
    BY <2>1, <2>2, Channel DEF DInv, DaemonTypeOK
  <2>. QED BY <1>3, <2>2, <2>3, <2>4 DEF Writes
<1>4. CASE HelperDies
  BY <1>4 DEF HelperDies
<1>. QED BY <1>1, <1>2, <1>3, <1>4 DEF HelperStep

\* The thread remembers the last frame it read, also one it takes no notice of.
LEMMA ReadsPassesOn == ASSUME DInv, OnItsWay, Reads PROVE OnItsWay'
<1> USE DEF Reads, OnItsWay, helperVars, workerVars, mainVars
<1>1. /\ channel' = Tail(channel) /\ previous' = Head(channel) /\ channel # <<>> /\ worker # "none"
      /\ UNCHANGED <<snapshot, fresh, carried, effective, main>>
  OBVIOUS
<1>2. IF Tail(channel) = <<>> THEN Head(channel) = channel[Len(channel)]
      ELSE Tail(channel)[Len(Tail(channel))] = channel[Len(channel)]
  BY <1>1, LastFrame DEF DInv
<1>3. worker' = "read" => previous' = previous /\ worker = "read"
  OBVIOUS
<1>. QED BY <1>1, <1>2, <1>3

\* The rest of the thread reads no frame.
LEMMA WorkerPassesOn == ASSUME DInv, OnItsWay, WorkerStep PROVE OnItsWay'
<1> USE DEF OnItsWay, helperVars, workerVars, mainVars
<1>1. CASE Updates \/ ReadFails \/ Checks
  BY <1>1 DEF Updates, ReadFails, Checks
<1>2. CASE Clears \/ Flags \/ Kills \/ Reaps
  BY <1>2 DEF Clears, Flags, Kills, Reaps
<1>. QED BY <1>1, <1>2, ReadsPassesOn DEF WorkerStep

\* run() takes the first frame itself; it clears the list only on its way out.
LEMMA MainPassesOn == ASSUME DInv, OnItsWay, MainStep PROVE OnItsWay'
<1> USE DEF OnItsWay, helperVars, workerVars, mainVars
<1>1. CASE InstallsHandlers \/ StartsWatcher \/ InitialFails
  BY <1>1 DEF InstallsHandlers, StartsWatcher, Quits, InitialFails, DInv, Attended
<1>2. CASE ReadsInitial
  <2>1. IF Tail(channel) = <<>> THEN Head(channel) = channel[Len(channel)]
        ELSE Tail(channel)[Len(Tail(channel))] = channel[Len(channel)]
    BY <1>2, LastFrame DEF ReadsInitial, DInv
  <2>2. /\ channel' = Tail(channel) /\ effective' = Head(channel)
        /\ UNCHANGED <<snapshot, fresh, carried>>
    BY <1>2 DEF ReadsInitial
  <2>3. CASE previous' = Head(channel) /\ worker' = "read"
    BY <1>2, <2>1, <2>2, <2>3 DEF ReadsInitial
  <2>4. CASE Quits /\ UNCHANGED <<previous, worker>>
    <3>1. worker' = "none" /\ channel # <<>>
      BY <1>2, <2>4 DEF ReadsInitial, DInv, Attended
    <3>. QED BY <2>1, <2>2, <3>1
  <2>. QED BY <1>2, <2>3, <2>4 DEF ReadsInitial
<1>3. CASE StartsEngine \/ Wakes \/ Stores
  BY <1>3 DEF StartsEngine, Wakes, Stores, Stopping
<1>4. CASE Shuts \/ Joins \/ StopsEngine
  BY <1>4 DEF Shuts, Joins, StopsEngine, Stopping
<1>. QED BY <1>1, <1>2, <1>3, <1>4 DEF MainStep

\* Nothing that Android reports is lost on its way into effect, however the
\* callbacks fall between serve()'s look at the snapshot and its write, however
\* far the thread is behind, and whatever both skip as old.
THEOREM ChangesArrive == DaemonSpec => []NoChangeLost
<1>1. DaemonInit => OnItsWay
  BY DEF DaemonInit, OnItsWay
<1>2. DInv /\ OnItsWay /\ [DaemonNext]_daemonVars => OnItsWay'
  <2> SUFFICES ASSUME DInv, OnItsWay, [DaemonNext]_daemonVars PROVE OnItsWay'
    OBVIOUS
  <2>1. CASE NetworkChanges \/ UNCHANGED daemonVars
    BY <2>1 DEF NetworkChanges, daemonVars, helperVars, workerVars, mainVars, OnItsWay
  <2>2. CASE Signalled
    BY <2>2 DEF Signalled, helperVars, workerVars, OnItsWay, Stopping
  <2>. QED BY <2>1, <2>2, HelperPassesOn, WorkerPassesOn, MainPassesOn DEF DaemonNext
<1>3. OnItsWay => NoChangeLost
  BY DEF OnItsWay, NoChangeLost
<1>. QED BY <1>1, <1>2, <1>3, DaemonInvariant, PTL DEF DaemonSpec

-----------------------------------------------------------------------------
(* No failure of the helper is lost *)

\* The signal stays, and the join turns the flag into a status.
Reported ==
    failed => /\ worker = "kill" \/ signal
              /\ main \in {"end", "exit"} => status # 0

\* The thread flags the failure before it kills, and is not joined before both.
LEMMA WorkerReports == ASSUME DInv, Reported, WorkerStep PROVE Reported'
<1> USE DEF Reported, helperVars, workerVars, mainVars, DInv
<1>1. CASE Reads \/ Updates \/ ReadFails \/ Checks \/ Clears
  BY <1>1 DEF Reads, Updates, ReadFails, Checks, Clears, Blamed
<1>2. CASE Flags
  BY <1>2 DEF Flags, Attended
<1>3. CASE Kills
  BY <1>3 DEF Kills, Terminates
<1>4. CASE Reaps
  BY <1>4 DEF Reaps
<1>. QED BY <1>1, <1>2, <1>3, <1>4 DEF WorkerStep

\* run() reads the flag once it has joined the thread; without a thread there is
\* no flag.
LEMMA MainReports == ASSUME DInv, Reported, MainStep PROVE Reported'
<1> USE DEF Reported, helperVars, workerVars, mainVars, DInv
<1>1. CASE InstallsHandlers \/ StartsWatcher \/ InitialFails \/ ReadsInitial
  BY <1>1 DEF InstallsHandlers, StartsWatcher, Quits, InitialFails, ReadsInitial, Blamed, Attended
<1>2. CASE StartsEngine \/ Wakes
  BY <1>2 DEF StartsEngine, Wakes
<1>3. CASE Stores
  BY <1>3 DEF Stores, Blamed
<1>4. CASE Shuts
  BY <1>4 DEF Shuts
<1>5. CASE Joins
  BY <1>5 DEF Joins, Blamed
<1>6. CASE StopsEngine
  BY <1>6 DEF StopsEngine
<1>. QED BY <1>1, <1>2, <1>3, <1>4, <1>5, <1>6 DEF MainStep

\* A failed helper is never passed over: run() has its signal, be it before it
\* waits for one, and its status tells.
THEOREM FailureIsReported == DaemonSpec => []FailureReported
<1>1. DaemonInit => Reported
  BY DEF DaemonInit, Reported
<1>2. DInv /\ Reported /\ [DaemonNext]_daemonVars => Reported'
  <2> SUFFICES ASSUME DInv, Reported, [DaemonNext]_daemonVars PROVE Reported'
    OBVIOUS
  <2>1. CASE NetworkChanges \/ HelperStep \/ UNCHANGED daemonVars
    BY <2>1 DEF NetworkChanges, HelperStep, Publishes, Takes, Writes, HelperDies, daemonVars,
                helperVars, workerVars, mainVars, Reported
  <2>2. CASE Signalled
    BY <2>2 DEF Signalled, helperVars, workerVars, Reported, DInv, Blamed, Attended
  <2>. QED BY <2>1, <2>2, WorkerReports, MainReports DEF DaemonNext
<1>3. Reported => FailureReported
  BY DEF Reported, FailureReported
<1>. QED BY <1>1, <1>2, <1>3, DaemonInvariant, PTL DEF DaemonSpec
=============================================================================

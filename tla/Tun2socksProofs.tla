-------------------------- MODULE Tun2socksProofs ---------------------------
(***************************************************************************)
(* Proofs about Tun2socks, for any number of flows, reply readers, NAT     *)
(* sessions and openings of the device: its types, that the descriptor     *)
(* goes last, that a session in a map of readers has its reader, and that  *)
(* no stop is lost.                                                        *)
(***************************************************************************)
EXTENDS Tun2socks, TLAPS

\* While run_tun2socks() is under way the device is open and counted as active.
Opened ==
    /\ core \notin {"none", "over"} => active /\ task /\ fd # 0
    /\ fd # 0 => task
    /\ call = "open" => ~task
    /\ call \in {"reap", "open"} => run < MaxRuns

\* What may still run at each of the joins.
Joining ==
    /\ reader # "none" => core = "reader"
    /\ lwip => core \in {"reader", "flows", "lwip"}
    /\ writer => core \in {"reader", "flows", "lwip", "last", "writer"}
    /\ \A f \in Flows : flow[f] # "none" =>
           core \in {"reader", "flows", "lwip"} \/ (core = "last" /\ f \in drained)

\* A flow that found a session has its number.
Found == \A f \in Flows : sess[f] <= sessions /\ (flow[f] = "got" => sess[f] # 0)

TInv == TunTypeOK /\ Opened /\ Joining /\ Found /\ ServedHasReader
-----------------------------------------------------------------------------
(* Each action preserves the invariant *)

\* Nothing runs at first.
LEMMA InitTInv == Init => TInv
<1> SUFFICES ASSUME Init PROVE TInv
  OBVIOUS
<1> USE TunAssumption DEF Init
<1>1. TunTypeOK
  <2>1. /\ run \in 0 .. MaxRuns /\ fd \in {0, run} /\ ingress \in 0 .. Capacity
        /\ nat \in 0 .. sessions /\ sessions \in 0 .. MaxSessions
    OBVIOUS
  <2>2. /\ flow \in [Flows -> {"none", "begun", "sent", "got"}]
        /\ sess \in [Flows -> 0 .. MaxSessions]
        /\ served \in [1 .. MaxRuns -> 0 .. sessions]
        /\ reply \in [Readers -> Replies \cup {NoReply}]
    OBVIOUS
  <2>. QED BY <2>1, <2>2 DEF TunTypeOK
<1>2. Opened /\ Joining /\ Found /\ ServedHasReader
  BY DEF Opened, Joining, Found, ServedHasReader
<1>. QED BY <1>1, <1>2 DEF TInv

\* A stop is requested.
LEMMA StopInv == ASSUME TInv, Stop PROVE TInv'
<1> USE TunAssumption DEF Stop, RequestStop, HoldsNotified, TInv, deviceVars, taskVars, flowVars, natVars
<1>1. TunTypeOK'
  BY DEF TunTypeOK, NoReply, Replies, Opened, Joining, Found
<1>2. Opened' /\ Joining'
  BY DEF TunTypeOK, Opened, Joining
<1>3. Found'
  BY DEF TunTypeOK, Found
<1>4. ServedHasReader'
  BY DEF TunTypeOK, NoReply, Replies, Opened, Joining, ServedHasReader
<1>. QED BY <1>1, <1>2, <1>3, <1>4

\* So it is before an open.
LEMMA StartInv == ASSUME TInv, Start PROVE TInv'
<1> USE TunAssumption DEF Start, RequestStop, HoldsNotified, TInv, deviceVars, taskVars, flowVars, natVars
<1>1. TunTypeOK'
  BY DEF TunTypeOK, NoReply, Replies, Opened, Joining, Found
<1>2. Opened' /\ Joining'
  BY DEF TunTypeOK, Opened, Joining
<1>3. Found'
  BY DEF TunTypeOK, Found
<1>4. ServedHasReader'
  BY DEF TunTypeOK, NoReply, Replies, Opened, Joining, ServedHasReader
<1>. QED BY <1>1, <1>2, <1>3, <1>4

\* The descriptor closes when the task is over, or was none.
LEMMA JoinedInv == ASSUME TInv, Joined PROVE TInv'
<1> USE TunAssumption DEF Joined, MayClose, TInv, deviceVars, taskVars, flowVars, natVars
<1>1. TunTypeOK'
  BY DEF TunTypeOK, NoReply, Replies, Opened, Joining, Found
<1>2. Opened' /\ Joining'
  BY DEF TunTypeOK, Opened, Joining
<1>3. Found'
  BY DEF TunTypeOK, Found
<1>4. ServedHasReader'
  BY DEF TunTypeOK, NoReply, Replies, Opened, Joining, ServedHasReader
<1>. QED BY <1>1, <1>2, <1>3, <1>4

\* An open that fails changes nothing.
LEMMA OpenFailsInv == ASSUME TInv, OpenFails PROVE TInv'
<1> USE TunAssumption DEF OpenFails, TInv, deviceVars, taskVars, flowVars, natVars
<1>1. TunTypeOK'
  BY DEF TunTypeOK, NoReply, Replies, Opened, Joining, Found
<1>2. Opened' /\ Joining'
  BY DEF TunTypeOK, Opened, Joining
<1>3. Found'
  BY DEF TunTypeOK, Found
<1>4. ServedHasReader'
  BY DEF TunTypeOK, NoReply, Replies, Opened, Joining, ServedHasReader
<1>. QED BY <1>1, <1>2, <1>3, <1>4

\* The device opens when none is.
LEMMA OpenInv == ASSUME TInv, Open PROVE TInv'
<1> USE TunAssumption DEF Open, TInv, deviceVars, taskVars, flowVars, natVars
<1>1. TunTypeOK'
  <2>1. /\ active' \in BOOLEAN /\ stopping' \in BOOLEAN /\ task' \in BOOLEAN /\ woken' \in BOOLEAN
        /\ fd' \in {0, run'} /\ run' \in 0 .. MaxRuns
        /\ call' \in {"idle", "reap", "open", "wait", "fail", "stop"}
    <3>1. active' = TRUE /\ stopping' = FALSE /\ task' = TRUE /\ woken' = woken
      OBVIOUS
    <3>2. run' = run + 1 /\ fd' = run' /\ run \in Nat /\ run < MaxRuns
      BY DEF TunTypeOK, Opened
    <3>3. run' \in 0 .. MaxRuns
      BY <3>2
    <3>. QED BY <3>1, <3>2, <3>3 DEF TunTypeOK
  <2>2. /\ core' \in {"none", "setup", "reader", "flows", "lwip", "last", "writer", "core", "ending", "over"}
        /\ ready' \in {"none", "ok", "err"}
        /\ reader' \in {"none", "new", "noted", "sleep", "read", "send"}
        /\ ingress' \in 0 .. Capacity
        /\ lwip' \in BOOLEAN /\ writer' \in BOOLEAN
    BY DEF TunTypeOK
  <2>3. /\ flow' \in [Flows -> {"none", "begun", "sent", "got"}]
        /\ sess' \in [Flows -> 0 .. MaxSessions]
        /\ drained' \subseteq Flows
    BY DEF TunTypeOK
  <2>4. /\ nat' \in 0 .. sessions' /\ sessions' \in 0 .. MaxSessions
        /\ served' \in [1 .. MaxRuns -> 0 .. sessions']
    BY DEF TunTypeOK, Opened, Joining, Found
  <2>5. reply' \in [Readers -> Replies \cup {NoReply}]
    BY DEF TunTypeOK, Opened, Joining, Found, NoReply, Replies
  <2>. QED BY <2>1, <2>2, <2>3, <2>4, <2>5 DEF TunTypeOK
<1>2. Opened' /\ Joining'
  BY DEF TunTypeOK, Opened, Joining
<1>3. Found'
  BY DEF TunTypeOK, Found
<1>4. ServedHasReader'
  BY DEF TunTypeOK, NoReply, Replies, Opened, Joining, ServedHasReader
<1>. QED BY <1>1, <1>2, <1>3, <1>4

\* The caller learns whether the session is up.
LEMMA ToldInv == ASSUME TInv, Told PROVE TInv'
<1> USE TunAssumption DEF Told, RequestStop, HoldsNotified, TInv, deviceVars, taskVars, flowVars, natVars
<1>1. TunTypeOK'
  BY DEF TunTypeOK, NoReply, Replies, Opened, Joining, Found
<1>2. Opened' /\ Joining'
  BY DEF TunTypeOK, Opened, Joining
<1>3. Found'
  BY DEF TunTypeOK, Found
<1>4. ServedHasReader'
  BY DEF TunTypeOK, NoReply, Replies, Opened, Joining, ServedHasReader
<1>. QED BY <1>1, <1>2, <1>3, <1>4

\* A failed session ends.
LEMMA SetupFailsInv == ASSUME TInv, SetupFails PROVE TInv'
<1> USE TunAssumption DEF SetupFails, TInv, deviceVars, taskVars, flowVars, natVars
<1>1. TunTypeOK'
  BY DEF TunTypeOK, NoReply, Replies, Opened, Joining, Found
<1>2. Opened' /\ Joining'
  BY DEF TunTypeOK, Opened, Joining
<1>3. Found'
  BY DEF TunTypeOK, Found
<1>4. ServedHasReader'
  BY DEF TunTypeOK, NoReply, Replies, Opened, Joining, ServedHasReader
<1>. QED BY <1>1, <1>2, <1>3, <1>4

\* All three tasks begin.
LEMMA SetupInv == ASSUME TInv, Setup PROVE TInv'
<1> USE TunAssumption DEF Setup, TInv, deviceVars, taskVars, flowVars, natVars
<1>1. TunTypeOK'
  <2>1. /\ active' \in BOOLEAN /\ stopping' \in BOOLEAN /\ task' \in BOOLEAN /\ woken' \in BOOLEAN
        /\ fd' \in {0, run'} /\ run' \in 0 .. MaxRuns
        /\ call' \in {"idle", "reap", "open", "wait", "fail", "stop"}
    BY DEF TunTypeOK
  <2>2. /\ core' \in {"none", "setup", "reader", "flows", "lwip", "last", "writer", "core", "ending", "over"}
        /\ ready' \in {"none", "ok", "err"}
        /\ reader' \in {"none", "new", "noted", "sleep", "read", "send"}
        /\ ingress' \in 0 .. Capacity
        /\ lwip' \in BOOLEAN /\ writer' \in BOOLEAN
    BY DEF TunTypeOK
  <2>3. /\ flow' \in [Flows -> {"none", "begun", "sent", "got"}]
        /\ sess' \in [Flows -> 0 .. MaxSessions]
        /\ drained' \subseteq Flows
    BY DEF TunTypeOK
  <2>4. /\ nat' \in 0 .. sessions' /\ sessions' \in 0 .. MaxSessions
        /\ served' \in [1 .. MaxRuns -> 0 .. sessions']
    BY DEF TunTypeOK, Opened, Joining, Found
  <2>5. reply' \in [Readers -> Replies \cup {NoReply}]
    BY DEF TunTypeOK, Opened, Joining, Found, NoReply, Replies
  <2>. QED BY <2>1, <2>2, <2>3, <2>4, <2>5 DEF TunTypeOK
<1>2. Opened' /\ Joining'
  BY DEF TunTypeOK, Opened, Joining
<1>3. Found'
  BY DEF TunTypeOK, Found
<1>4. ServedHasReader'
  BY DEF TunTypeOK, NoReply, Replies, Opened, Joining, ServedHasReader
<1>. QED BY <1>1, <1>2, <1>3, <1>4

\* The reader goes first.
LEMMA ReaderJoinedInv == ASSUME TInv, ReaderJoined PROVE TInv'
<1> USE TunAssumption DEF ReaderJoined, Drain, TInv, deviceVars, taskVars, flowVars, natVars
<1>1. TunTypeOK'
  BY DEF TunTypeOK, NoReply, Replies, Opened, Joining, Found
<1>2. Opened' /\ Joining'
  BY DEF TunTypeOK, Opened, Joining
<1>3. Found'
  BY DEF TunTypeOK, Found
<1>4. ServedHasReader'
  BY DEF TunTypeOK, NoReply, Replies, Opened, Joining, ServedHasReader
<1>. QED BY <1>1, <1>2, <1>3, <1>4

\* A flow is aborted.
LEMMA AbortFlowInv == ASSUME TInv, NEW f \in Flows, AbortFlow(f) PROVE TInv'
<1> USE TunAssumption DEF AbortFlow, TInv, deviceVars, taskVars, flowVars, natVars
<1>1. TunTypeOK'
  BY DEF TunTypeOK, NoReply, Replies, Opened, Joining, Found
<1>2. Opened' /\ Joining'
  BY DEF TunTypeOK, Opened, Joining
<1>3. Found'
  BY DEF TunTypeOK, Found
<1>4. ServedHasReader'
  BY DEF TunTypeOK, NoReply, Replies, Opened, Joining, ServedHasReader
<1>. QED BY <1>1, <1>2, <1>3, <1>4

\* Past the last abort no flow is left.
LEMMA FlowsAbortedInv == ASSUME TInv, FlowsAborted PROVE TInv'
<1> USE TunAssumption DEF FlowsAborted, AfterAborts, TInv, deviceVars, taskVars, flowVars, natVars
<1>1. TunTypeOK'
  BY DEF TunTypeOK, NoReply, Replies, Opened, Joining, Found
<1>2. Opened' /\ Joining'
  BY DEF TunTypeOK, Opened, Joining
<1>3. Found'
  BY DEF TunTypeOK, Found
<1>4. ServedHasReader'
  BY DEF TunTypeOK, NoReply, Replies, Opened, Joining, ServedHasReader
<1>. QED BY <1>1, <1>2, <1>3, <1>4

\* The stack is gone, and what it accepted last is drained.
LEMMA LwipJoinedInv == ASSUME TInv, LwipJoined PROVE TInv'
<1> USE TunAssumption DEF LwipJoined, Drain, TInv, deviceVars, taskVars, flowVars, natVars
<1>1. TunTypeOK'
  BY DEF TunTypeOK, NoReply, Replies, Opened, Joining, Found
<1>2. Opened' /\ Joining'
  BY DEF TunTypeOK, Opened, Joining
<1>3. Found'
  BY DEF TunTypeOK, Found
<1>4. ServedHasReader'
  BY DEF TunTypeOK, NoReply, Replies, Opened, Joining, ServedHasReader
<1>. QED BY <1>1, <1>2, <1>3, <1>4

\* The writer goes last.
LEMMA WriterJoinedInv == ASSUME TInv, WriterJoined PROVE TInv'
<1> USE TunAssumption DEF WriterJoined, TInv, deviceVars, taskVars, flowVars, natVars
<1>1. TunTypeOK'
  BY DEF TunTypeOK, NoReply, Replies, Opened, Joining, Found
<1>2. Opened' /\ Joining'
  BY DEF TunTypeOK, Opened, Joining
<1>3. Found'
  BY DEF TunTypeOK, Found
<1>4. ServedHasReader'
  BY DEF TunTypeOK, NoReply, Replies, Opened, Joining, ServedHasReader
<1>. QED BY <1>1, <1>2, <1>3, <1>4

\* lwIP has freed its core.
LEMMA CoreJoinedInv == ASSUME TInv, CoreJoined PROVE TInv'
<1> USE TunAssumption DEF CoreJoined, TInv, deviceVars, taskVars, flowVars, natVars
<1>1. TunTypeOK'
  BY DEF TunTypeOK, NoReply, Replies, Opened, Joining, Found
<1>2. Opened' /\ Joining'
  BY DEF TunTypeOK, Opened, Joining
<1>3. Found'
  BY DEF TunTypeOK, Found
<1>4. ServedHasReader'
  BY DEF TunTypeOK, NoReply, Replies, Opened, Joining, ServedHasReader
<1>. QED BY <1>1, <1>2, <1>3, <1>4

\* The session is over.
LEMMA CoreEndsInv == ASSUME TInv, CoreEnds PROVE TInv'
<1> USE TunAssumption DEF CoreEnds, TInv, deviceVars, taskVars, flowVars, natVars
<1>1. TunTypeOK'
  BY DEF TunTypeOK, NoReply, Replies, Opened, Joining, Found
<1>2. Opened' /\ Joining'
  BY DEF TunTypeOK, Opened, Joining
<1>3. Found'
  BY DEF TunTypeOK, Found
<1>4. ServedHasReader'
  BY DEF TunTypeOK, NoReply, Replies, Opened, Joining, ServedHasReader
<1>. QED BY <1>1, <1>2, <1>3, <1>4

\* The reader creates its Notified,
LEMMA ReaderStartsInv == ASSUME TInv, ReaderStarts PROVE TInv'
<1> USE TunAssumption DEF ReaderStarts, ReaderVars, TInv, deviceVars, taskVars, flowVars, natVars
<1>1. TunTypeOK'
  BY DEF TunTypeOK, NoReply, Replies, Opened, Joining, Found
<1>2. Opened' /\ Joining'
  BY DEF TunTypeOK, Opened, Joining
<1>3. Found'
  BY DEF TunTypeOK, Found
<1>4. ServedHasReader'
  BY DEF TunTypeOK, NoReply, Replies, Opened, Joining, ServedHasReader
<1>. QED BY <1>1, <1>2, <1>3, <1>4

\* reads the flag,
LEMMA ReaderLooksInv == ASSUME TInv, ReaderLooks PROVE TInv'
<1> USE TunAssumption DEF ReaderLooks, ReaderVars, AskedToStop, TInv, deviceVars, taskVars, flowVars, natVars
<1>1. TunTypeOK'
  BY DEF TunTypeOK, NoReply, Replies, Opened, Joining, Found
<1>2. Opened' /\ Joining'
  BY DEF TunTypeOK, Opened, Joining
<1>3. Found'
  BY DEF TunTypeOK, Found
<1>4. ServedHasReader'
  BY DEF TunTypeOK, NoReply, Replies, Opened, Joining, ServedHasReader
<1>. QED BY <1>1, <1>2, <1>3, <1>4

\* is woken
LEMMA ReaderWokenInv == ASSUME TInv, ReaderWoken PROVE TInv'
<1> USE TunAssumption DEF ReaderWoken, ReaderVars, TInv, deviceVars, taskVars, flowVars, natVars
<1>1. TunTypeOK'
  BY DEF TunTypeOK, NoReply, Replies, Opened, Joining, Found
<1>2. Opened' /\ Joining'
  BY DEF TunTypeOK, Opened, Joining
<1>3. Found'
  BY DEF TunTypeOK, Found
<1>4. ServedHasReader'
  BY DEF TunTypeOK, NoReply, Replies, Opened, Joining, ServedHasReader
<1>. QED BY <1>1, <1>2, <1>3, <1>4

\* or finds the device readable.
LEMMA ReaderReadyInv == ASSUME TInv, ReaderReady PROVE TInv'
<1> USE TunAssumption DEF ReaderReady, ReaderVars, TInv, deviceVars, taskVars, flowVars, natVars
<1>1. TunTypeOK'
  BY DEF TunTypeOK, NoReply, Replies, Opened, Joining, Found
<1>2. Opened' /\ Joining'
  BY DEF TunTypeOK, Opened, Joining
<1>3. Found'
  BY DEF TunTypeOK, Found
<1>4. ServedHasReader'
  BY DEF TunTypeOK, NoReply, Replies, Opened, Joining, ServedHasReader
<1>. QED BY <1>1, <1>2, <1>3, <1>4

\* It reads
LEMMA ReaderReadsInv == ASSUME TInv, ReaderReads PROVE TInv'
<1> USE TunAssumption DEF ReaderReads, ReaderVars, Room, TInv, deviceVars, taskVars, flowVars, natVars
<1>1. TunTypeOK'
  BY DEF TunTypeOK, NoReply, Replies, Opened, Joining, Found
<1>2. Opened' /\ Joining'
  BY DEF TunTypeOK, Opened, Joining
<1>3. Found'
  BY DEF TunTypeOK, Found
<1>4. ServedHasReader'
  BY DEF TunTypeOK, NoReply, Replies, Opened, Joining, ServedHasReader
<1>. QED BY <1>1, <1>2, <1>3, <1>4

\* and sends
LEMMA ReaderSendsInv == ASSUME TInv, ReaderSends PROVE TInv'
<1> USE TunAssumption DEF ReaderSends, ReaderVars, Room, TInv, deviceVars, taskVars, flowVars, natVars
<1>1. TunTypeOK'
  BY DEF TunTypeOK, NoReply, Replies, Opened, Joining, Found
<1>2. Opened' /\ Joining'
  BY DEF TunTypeOK, Opened, Joining
<1>3. Found'
  BY DEF TunTypeOK, Found
<1>4. ServedHasReader'
  BY DEF TunTypeOK, NoReply, Replies, Opened, Joining, ServedHasReader
<1>. QED BY <1>1, <1>2, <1>3, <1>4

\* until the device is empty.
LEMMA ReaderDrainedInv == ASSUME TInv, ReaderDrained PROVE TInv'
<1> USE TunAssumption DEF ReaderDrained, ReaderVars, TInv, deviceVars, taskVars, flowVars, natVars
<1>1. TunTypeOK'
  BY DEF TunTypeOK, NoReply, Replies, Opened, Joining, Found
<1>2. Opened' /\ Joining'
  BY DEF TunTypeOK, Opened, Joining
<1>3. Found'
  BY DEF TunTypeOK, Found
<1>4. ServedHasReader'
  BY DEF TunTypeOK, NoReply, Replies, Opened, Joining, ServedHasReader
<1>. QED BY <1>1, <1>2, <1>3, <1>4

\* The stack takes a packet,
LEMMA LwipTakesInv == ASSUME TInv, LwipTakes PROVE TInv'
<1> USE TunAssumption DEF LwipTakes, TInv, deviceVars, taskVars, flowVars, natVars
<1>1. TunTypeOK'
  BY DEF TunTypeOK, NoReply, Replies, Opened, Joining, Found
<1>2. Opened' /\ Joining'
  BY DEF TunTypeOK, Opened, Joining
<1>3. Found'
  BY DEF TunTypeOK, Found
<1>4. ServedHasReader'
  BY DEF TunTypeOK, NoReply, Replies, Opened, Joining, ServedHasReader
<1>. QED BY <1>1, <1>2, <1>3, <1>4

\* accepts a flow,
LEMMA LwipAcceptsInv == ASSUME TInv, NEW f \in Flows, LwipAccepts(f) PROVE TInv'
<1> USE TunAssumption DEF LwipAccepts, TInv, deviceVars, taskVars, flowVars, natVars
<1>1. TunTypeOK'
  BY DEF TunTypeOK, NoReply, Replies, Opened, Joining, Found
<1>2. Opened' /\ Joining'
  BY DEF TunTypeOK, Opened, Joining
<1>3. Found'
  BY DEF TunTypeOK, Found
<1>4. ServedHasReader'
  BY DEF TunTypeOK, NoReply, Replies, Opened, Joining, ServedHasReader
<1>. QED BY <1>1, <1>2, <1>3, <1>4

\* fails
LEMMA LwipFailsInv == ASSUME TInv, LwipFails PROVE TInv'
<1> USE TunAssumption DEF LwipFails, TInv, deviceVars, taskVars, flowVars, natVars
<1>1. TunTypeOK'
  <2>1. /\ active' \in BOOLEAN /\ stopping' \in BOOLEAN /\ task' \in BOOLEAN /\ woken' \in BOOLEAN
        /\ fd' \in {0, run'} /\ run' \in 0 .. MaxRuns
        /\ call' \in {"idle", "reap", "open", "wait", "fail", "stop"}
    BY DEF TunTypeOK
  <2>2. /\ core' \in {"none", "setup", "reader", "flows", "lwip", "last", "writer", "core", "ending", "over"}
        /\ ready' \in {"none", "ok", "err"}
        /\ reader' \in {"none", "new", "noted", "sleep", "read", "send"}
        /\ ingress' \in 0 .. Capacity
        /\ lwip' \in BOOLEAN /\ writer' \in BOOLEAN
    <3>1. ingress' \in 0 .. Capacity
      OBVIOUS
    <3>2. lwip' = FALSE /\ writer' = writer /\ core' = core /\ ready' = ready /\ reader' = reader
      OBVIOUS
    <3>. QED BY <3>1, <3>2 DEF TunTypeOK
  <2>3. /\ flow' \in [Flows -> {"none", "begun", "sent", "got"}]
        /\ sess' \in [Flows -> 0 .. MaxSessions]
        /\ drained' \subseteq Flows
    <3>1. flow' = flow /\ sess' = sess /\ drained' = drained
      OBVIOUS
    <3>. QED BY <3>1 DEF TunTypeOK
  <2>4. /\ nat' \in 0 .. sessions' /\ sessions' \in 0 .. MaxSessions
        /\ served' \in [1 .. MaxRuns -> 0 .. sessions']
    BY DEF TunTypeOK, Opened, Joining, Found
  <2>5. reply' \in [Readers -> Replies \cup {NoReply}]
    BY DEF TunTypeOK, Opened, Joining, Found, NoReply, Replies
  <2>. QED BY <2>1, <2>2, <2>3, <2>4, <2>5 DEF TunTypeOK
<1>2. Opened' /\ Joining'
  BY DEF TunTypeOK, Opened, Joining
<1>3. Found'
  BY DEF TunTypeOK, Found
<1>4. ServedHasReader'
  BY DEF TunTypeOK, NoReply, Replies, Opened, Joining, ServedHasReader
<1>. QED BY <1>1, <1>2, <1>3, <1>4

\* or ends with the channel.
LEMMA LwipClosedInv == ASSUME TInv, LwipClosed PROVE TInv'
<1> USE TunAssumption DEF LwipClosed, TInv, deviceVars, taskVars, flowVars, natVars
<1>1. TunTypeOK'
  BY DEF TunTypeOK, NoReply, Replies, Opened, Joining, Found
<1>2. Opened' /\ Joining'
  BY DEF TunTypeOK, Opened, Joining
<1>3. Found'
  BY DEF TunTypeOK, Found
<1>4. ServedHasReader'
  BY DEF TunTypeOK, NoReply, Replies, Opened, Joining, ServedHasReader
<1>. QED BY <1>1, <1>2, <1>3, <1>4

\* A flow ends.
LEMMA FlowEndsInv == ASSUME TInv, NEW f \in Flows, FlowEnds(f) PROVE TInv'
<1> USE TunAssumption DEF FlowEnds, EndFlow, TInv, deviceVars, taskVars, flowVars, natVars
<1>1. TunTypeOK'
  BY DEF TunTypeOK, NoReply, Replies, Opened, Joining, Found
<1>2. Opened' /\ Joining'
  BY DEF TunTypeOK, Opened, Joining
<1>3. Found'
  BY DEF TunTypeOK, Found
<1>4. ServedHasReader'
  BY DEF TunTypeOK, NoReply, Replies, Opened, Joining, ServedHasReader
<1>. QED BY <1>1, <1>2, <1>3, <1>4

\* A packet has a session,
LEMMA UdpHandledInv == ASSUME TInv, NEW f \in Flows, UdpHandled(f) PROVE TInv'
<1> USE TunAssumption DEF UdpHandled, SlotLeft, TInv, deviceVars, taskVars, flowVars, natVars
<1>1. TunTypeOK'
  BY DEF TunTypeOK, NoReply, Replies, Opened, Joining, Found
<1>2. Opened' /\ Joining'
  BY DEF TunTypeOK, Opened, Joining
<1>3. Found'
  BY DEF TunTypeOK, Found
<1>4. ServedHasReader'
  BY DEF TunTypeOK, NoReply, Replies, Opened, Joining, ServedHasReader
<1>. QED BY <1>1, <1>2, <1>3, <1>4

\* which its flow looks up
LEMMA UdpLooksInv == ASSUME TInv, NEW f \in Flows, UdpLooks(f) PROVE TInv'
<1> USE TunAssumption DEF UdpLooks, EndFlow, TInv, deviceVars, taskVars, flowVars, natVars
<1>1. TunTypeOK'
  <2>1. /\ active' \in BOOLEAN /\ stopping' \in BOOLEAN /\ task' \in BOOLEAN /\ woken' \in BOOLEAN
        /\ fd' \in {0, run'} /\ run' \in 0 .. MaxRuns
        /\ call' \in {"idle", "reap", "open", "wait", "fail", "stop"}
    BY DEF TunTypeOK
  <2>2. /\ core' \in {"none", "setup", "reader", "flows", "lwip", "last", "writer", "core", "ending", "over"}
        /\ ready' \in {"none", "ok", "err"}
        /\ reader' \in {"none", "new", "noted", "sleep", "read", "send"}
        /\ ingress' \in 0 .. Capacity
        /\ lwip' \in BOOLEAN /\ writer' \in BOOLEAN
    BY DEF TunTypeOK
  <2>3. /\ flow' \in [Flows -> {"none", "begun", "sent", "got"}]
        /\ sess' \in [Flows -> 0 .. MaxSessions]
        /\ drained' \subseteq Flows
    <3>1. nat \in 0 .. MaxSessions /\ 0 \in 0 .. MaxSessions
      BY DEF TunTypeOK
    <3>2. flow \in [Flows -> {"none", "begun", "sent", "got"}] /\ sess \in [Flows -> 0 .. MaxSessions]
      BY DEF TunTypeOK
    <3>3. sess' = [sess EXCEPT ![f] = 0] \/ sess' = [sess EXCEPT ![f] = nat]
      OBVIOUS
    <3>4. flow' = [flow EXCEPT ![f] = "none"] \/ flow' = [flow EXCEPT ![f] = "got"]
      OBVIOUS
    <3>5. drained' \subseteq Flows
      BY DEF TunTypeOK
    <3>. QED BY <3>1, <3>2, <3>3, <3>4, <3>5
  <2>4. /\ nat' \in 0 .. sessions' /\ sessions' \in 0 .. MaxSessions
        /\ served' \in [1 .. MaxRuns -> 0 .. sessions']
    BY DEF TunTypeOK, Opened, Joining, Found
  <2>5. reply' \in [Readers -> Replies \cup {NoReply}]
    BY DEF TunTypeOK, Opened, Joining, Found, NoReply, Replies
  <2>. QED BY <2>1, <2>2, <2>3, <2>4, <2>5 DEF TunTypeOK
<1>2. Opened' /\ Joining'
  BY DEF TunTypeOK, Opened, Joining
<1>3. Found'
  BY DEF TunTypeOK, Found
<1>4. ServedHasReader'
  BY DEF TunTypeOK, NoReply, Replies, Opened, Joining, ServedHasReader
<1>. QED BY <1>1, <1>2, <1>3, <1>4

\* and gives a reader unless it has one.
LEMMA UdpServedInv == ASSUME TInv, NEW f \in Flows, UdpServed(f) PROVE TInv'
<1> USE TunAssumption DEF UdpServed, EndFlow, HasReader, TInv, deviceVars, taskVars, flowVars, natVars
<1>1. TunTypeOK'
  <2>1. /\ active' \in BOOLEAN /\ stopping' \in BOOLEAN /\ task' \in BOOLEAN /\ woken' \in BOOLEAN
        /\ fd' \in {0, run'} /\ run' \in 0 .. MaxRuns
        /\ call' \in {"idle", "reap", "open", "wait", "fail", "stop"}
    BY DEF TunTypeOK
  <2>2. /\ core' \in {"none", "setup", "reader", "flows", "lwip", "last", "writer", "core", "ending", "over"}
        /\ ready' \in {"none", "ok", "err"}
        /\ reader' \in {"none", "new", "noted", "sleep", "read", "send"}
        /\ ingress' \in 0 .. Capacity
        /\ lwip' \in BOOLEAN /\ writer' \in BOOLEAN
    BY DEF TunTypeOK
  <2>3. /\ flow' \in [Flows -> {"none", "begun", "sent", "got"}]
        /\ sess' \in [Flows -> 0 .. MaxSessions]
        /\ drained' \subseteq Flows
    BY DEF TunTypeOK
  <2>4. /\ nat' \in 0 .. sessions' /\ sessions' \in 0 .. MaxSessions
        /\ served' \in [1 .. MaxRuns -> 0 .. sessions']
    <3>1. served \in [1 .. MaxRuns -> 0 .. sessions] /\ sess[f] \in 0 .. sessions
      BY DEF TunTypeOK, Found
    <3>2. served' = served \/ served' = [served EXCEPT ![run] = sess[f]]
      OBVIOUS
    <3>3. served' \in [1 .. MaxRuns -> 0 .. sessions]
      BY <3>1, <3>2
    <3>. QED BY <3>3 DEF TunTypeOK
  <2>5. reply' \in [Readers -> Replies \cup {NoReply}]
    <3>1. run \in 1 .. MaxRuns /\ sess[f] \in 1 .. MaxSessions
      BY DEF TunTypeOK, Opened, Joining, Found
    <3>2. [at |-> "relay", run |-> run, session |-> sess[f]] \in Replies
      BY <3>1 DEF Replies
    <3>. QED BY <3>2 DEF TunTypeOK
  <2>. QED BY <2>1, <2>2, <2>3, <2>4, <2>5 DEF TunTypeOK
<1>2. Opened' /\ Joining'
  BY DEF TunTypeOK, Opened, Joining
<1>3. Found'
  BY DEF TunTypeOK, Found
<1>4. ServedHasReader'
  <2> SUFFICES ASSUME NEW r \in 1 .. MaxRuns, served'[r] # 0
              PROVE  \E i \in Readers : reply'[i].run = r /\ reply'[i].session = served'[r]
    BY DEF ServedHasReader
  <2>1. CASE HasReader(f)
    BY <2>1 DEF ServedHasReader
  <2>2. CASE ~HasReader(f)
    <3>1. PICK i \in Readers :
             /\ reply[i] = NoReply
             /\ reply' = [reply EXCEPT ![i] = [at |-> "relay", run |-> run, session |-> sess[f]]]
      BY <2>2
    <3>2. served' = [served EXCEPT ![run] = sess[f]] /\ served \in [1 .. MaxRuns -> 0 .. sessions]
      BY <2>2 DEF TunTypeOK
    <3>3. reply'[i] = [at |-> "relay", run |-> run, session |-> sess[f]]
      BY <3>1 DEF TunTypeOK
    <3>4. CASE r = run
      BY <3>2, <3>3, <3>4
    <3>5. CASE r # run
      <4>1. served[r] # 0 /\ served'[r] = served[r]
        BY <3>2, <3>5
      <4>2. PICK j \in Readers : reply[j].run = r /\ reply[j].session = served[r]
        BY <4>1 DEF ServedHasReader
      <4>3. j # i
        BY <3>1, <4>2 DEF NoReply
      <4>4. reply'[j] = reply[j]
        BY <3>1, <4>3 DEF TunTypeOK
      <4>. QED BY <4>1, <4>2, <4>4
    <3>. QED BY <3>4, <3>5
  <2>. QED BY <2>1, <2>2
<1>. QED BY <1>1, <1>2, <1>3, <1>4

\* A reader leaves its loop,
LEMMA ReplyLeavesInv == ASSUME TInv, NEW i \in Readers, ReplyLeaves(i) PROVE TInv'
<1> USE TunAssumption DEF ReplyLeaves, TInv, deviceVars, taskVars, flowVars, natVars
<1>1. TunTypeOK'
  <2>1. /\ active' \in BOOLEAN /\ stopping' \in BOOLEAN /\ task' \in BOOLEAN /\ woken' \in BOOLEAN
        /\ fd' \in {0, run'} /\ run' \in 0 .. MaxRuns
        /\ call' \in {"idle", "reap", "open", "wait", "fail", "stop"}
    BY DEF TunTypeOK
  <2>2. /\ core' \in {"none", "setup", "reader", "flows", "lwip", "last", "writer", "core", "ending", "over"}
        /\ ready' \in {"none", "ok", "err"}
        /\ reader' \in {"none", "new", "noted", "sleep", "read", "send"}
        /\ ingress' \in 0 .. Capacity
        /\ lwip' \in BOOLEAN /\ writer' \in BOOLEAN
    BY DEF TunTypeOK
  <2>3. /\ flow' \in [Flows -> {"none", "begun", "sent", "got"}]
        /\ sess' \in [Flows -> 0 .. MaxSessions]
        /\ drained' \subseteq Flows
    BY DEF TunTypeOK
  <2>4. /\ nat' \in 0 .. sessions' /\ sessions' \in 0 .. MaxSessions
        /\ served' \in [1 .. MaxRuns -> 0 .. sessions']
    BY DEF TunTypeOK, Opened, Joining, Found
  <2>5. reply' \in [Readers -> Replies \cup {NoReply}]
    <3>1. reply \in [Readers -> Replies \cup {NoReply}]
      BY DEF TunTypeOK
    <3>2. reply[i] \in Replies
      BY <3>1 DEF NoReply
    <3>3. [reply[i] EXCEPT !.at = "left"] \in Replies
      BY <3>2 DEF Replies
    <3>. QED BY <3>1, <3>3
  <2>. QED BY <2>1, <2>2, <2>3, <2>4, <2>5 DEF TunTypeOK
<1>2. Opened' /\ Joining'
  BY DEF TunTypeOK, Opened, Joining
<1>3. Found'
  BY DEF TunTypeOK, Found
<1>4. ServedHasReader'
  BY DEF TunTypeOK, NoReply, Replies, Opened, Joining, ServedHasReader
<1>. QED BY <1>1, <1>2, <1>3, <1>4

\* takes its session out of the table
LEMMA ReplyEvictsInv == ASSUME TInv, NEW i \in Readers, ReplyEvicts(i) PROVE TInv'
<1> USE TunAssumption DEF ReplyEvicts, Without, TInv, deviceVars, taskVars, flowVars, natVars
<1>1. TunTypeOK'
  <2>1. /\ active' \in BOOLEAN /\ stopping' \in BOOLEAN /\ task' \in BOOLEAN /\ woken' \in BOOLEAN
        /\ fd' \in {0, run'} /\ run' \in 0 .. MaxRuns
        /\ call' \in {"idle", "reap", "open", "wait", "fail", "stop"}
    BY DEF TunTypeOK
  <2>2. /\ core' \in {"none", "setup", "reader", "flows", "lwip", "last", "writer", "core", "ending", "over"}
        /\ ready' \in {"none", "ok", "err"}
        /\ reader' \in {"none", "new", "noted", "sleep", "read", "send"}
        /\ ingress' \in 0 .. Capacity
        /\ lwip' \in BOOLEAN /\ writer' \in BOOLEAN
    BY DEF TunTypeOK
  <2>3. /\ flow' \in [Flows -> {"none", "begun", "sent", "got"}]
        /\ sess' \in [Flows -> 0 .. MaxSessions]
        /\ drained' \subseteq Flows
    BY DEF TunTypeOK
  <2>4. /\ nat' \in 0 .. sessions' /\ sessions' \in 0 .. MaxSessions
        /\ served' \in [1 .. MaxRuns -> 0 .. sessions']
    BY DEF TunTypeOK, Opened, Joining, Found
  <2>5. reply' \in [Readers -> Replies \cup {NoReply}]
    <3>1. reply \in [Readers -> Replies \cup {NoReply}]
      BY DEF TunTypeOK
    <3>2. reply[i] \in Replies
      BY <3>1 DEF NoReply
    <3>3. [reply[i] EXCEPT !.at = "evicted"] \in Replies
      BY <3>2 DEF Replies
    <3>. QED BY <3>1, <3>3
  <2>. QED BY <2>1, <2>2, <2>3, <2>4, <2>5 DEF TunTypeOK
<1>2. Opened' /\ Joining'
  BY DEF TunTypeOK, Opened, Joining
<1>3. Found'
  BY DEF TunTypeOK, Found
<1>4. ServedHasReader'
  BY DEF TunTypeOK, NoReply, Replies, Opened, Joining, ServedHasReader
<1>. QED BY <1>1, <1>2, <1>3, <1>4

\* and its entry out of the map.
LEMMA ReplyForgetsInv == ASSUME TInv, NEW i \in Readers, ReplyForgets(i) PROVE TInv'
<1> USE TunAssumption DEF ReplyForgets, Without, TInv, deviceVars, taskVars, flowVars, natVars
<1>1. TunTypeOK'
  BY DEF TunTypeOK, NoReply, Replies, Opened, Joining, Found
<1>2. Opened' /\ Joining'
  BY DEF TunTypeOK, Opened, Joining
<1>3. Found'
  BY DEF TunTypeOK, Found
<1>4. ServedHasReader'
  BY DEF TunTypeOK, NoReply, Replies, Opened, Joining, ServedHasReader
<1>. QED BY <1>1, <1>2, <1>3, <1>4

\* The session is swept.
LEMMA SweepInv == ASSUME TInv, Sweep PROVE TInv'
<1> USE TunAssumption DEF Sweep, TInv, deviceVars, taskVars, flowVars, natVars
<1>1. TunTypeOK'
  BY DEF TunTypeOK, NoReply, Replies, Opened, Joining, Found
<1>2. Opened' /\ Joining'
  BY DEF TunTypeOK, Opened, Joining
<1>3. Found'
  BY DEF TunTypeOK, Found
<1>4. ServedHasReader'
  BY DEF TunTypeOK, NoReply, Replies, Opened, Joining, ServedHasReader
<1>. QED BY <1>1, <1>2, <1>3, <1>4

\* So does every step.
LEMMA NextTInv == ASSUME TInv, Next PROVE TInv'
<1>1. CASE CallerStep
  BY <1>1, JoinedInv, OpenFailsInv, OpenInv, ToldInv DEF CallerStep
<1>2. CASE CoreStep
  BY <1>2, SetupInv, SetupFailsInv, ReaderJoinedInv, FlowsAbortedInv, LwipJoinedInv, WriterJoinedInv, CoreJoinedInv, CoreEndsInv DEF CoreStep
<1>3. CASE ReaderStep
  BY <1>3, ReaderStartsInv, ReaderLooksInv, ReaderWokenInv, ReaderReadyInv, ReaderReadsInv, ReaderSendsInv, ReaderDrainedInv DEF ReaderStep
<1>4. CASE LwipStep
  BY <1>4, LwipTakesInv, LwipFailsInv, LwipClosedInv, LwipAcceptsInv DEF LwipStep
<1>5. CASE FlowStep
  BY <1>5, AbortFlowInv, FlowEndsInv, UdpHandledInv, UdpLooksInv, UdpServedInv DEF FlowStep
<1>6. CASE ReplyStep
  BY <1>6, SweepInv, ReplyLeavesInv, ReplyEvictsInv, ReplyForgetsInv DEF ReplyStep
<1>7. CASE Start \/ Stop
  BY <1>7, StartInv, StopInv
<1>. QED BY <1>1, <1>2, <1>3, <1>4, <1>5, <1>6, <1>7 DEF Next

\* And a step that changes nothing.
LEMMA StutterTInv == ASSUME TInv, UNCHANGED vars PROVE TInv'
BY DEF vars, deviceVars, taskVars, flowVars, natVars, TInv, TunTypeOK, Opened, Joining, Found, ServedHasReader

-----------------------------------------------------------------------------
(* The theorems *)

\* The invariant holds in every reachable state.
THEOREM TunInvariant == Spec => []TInv
<1>1. TInv /\ [Next]_vars => TInv'
  BY NextTInv, StutterTInv
<1>. QED BY InitTInv, <1>1, PTL DEF Spec

\* The state of the device and of its tasks is well typed; the channel never
\* holds more than its capacity.
THEOREM TunTyped == Spec => []TunTypeOK
<1>1. TInv => TunTypeOK
  BY DEF TInv
<1>. QED BY <1>1, TunInvariant, PTL

\* The descriptor closes, and another may be opened, only when no task of
\* run_tun2socks() is left, whichever of them ended first.
THEOREM DescriptorGoesLast == Spec => []ClosedLast
<1>1. TInv => ClosedLast
  BY DEF TInv, TunTypeOK, Opened, Joining, ClosedLast, NothingRuns
<1>. QED BY <1>1, TunInvariant, PTL

\* A session that dispatch_udp() finds in its map has its reply reader.
THEOREM EntriesHaveReaders == Spec => []ServedHasReader
<1>1. TInv => ServedHasReader
  BY DEF TInv
<1>. QED BY <1>1, TunInvariant, PTL

-----------------------------------------------------------------------------
(* No stop is lost *)

\* A caller that waits has raised the flag, and a raised flag is either still
\* to be read or came with a notification to a reader that had its Notified.
Raised ==
    /\ call \in {"reap", "fail", "stop"} => stopping
    /\ stopping /\ reader \in {"sleep", "read", "send"} => woken

\* A stop reaches every reader that no longer reads the flag.
LEMMA RequestRaises == ASSUME TInv, Raised, Start \/ Stop \/ Told PROVE Raised'
<1>1. reader' = reader
  BY DEF Start, Stop, Told
<1>2. CASE stopping' = TRUE /\ woken' = (woken \/ HoldsNotified)
  BY <1>1, <1>2 DEF HoldsNotified, Raised
<1>3. CASE call' = "idle" /\ UNCHANGED <<stopping, woken>>
  BY <1>1, <1>3 DEF Raised
<1>4. \/ stopping' = TRUE /\ woken' = (woken \/ HoldsNotified)
      \/ call' = "idle" /\ UNCHANGED <<stopping, woken>>
  BY DEF Start, Stop, Told, RequestStop
<1>. QED BY <1>2, <1>3, <1>4

\* The flag falls only when a device opens: the last reader is gone by then.
LEMMA OpenRaises == ASSUME TInv, Raised, Open PROVE Raised'
<1>1. reader = "none" /\ reader' = reader
  BY DEF TInv, Opened, Joining, Open
<1>. QED BY <1>1 DEF Open, Raised

\* The new reader has neither its Notified nor read the flag.
LEMMA SetupRaises == ASSUME Raised, Setup PROVE Raised'
BY DEF Setup, Raised, deviceVars

\* The reader reads the flag with its Notified in hand; past that it keeps it.
LEMMA ReaderRaises == ASSUME Raised, ReaderStep PROVE Raised'
BY DEF ReaderStep, ReaderStarts, ReaderLooks, ReaderWoken, ReaderReady, ReaderReads, ReaderSends,
       ReaderDrained, ReaderVars, AskedToStop, Raised, deviceVars

\* No other step touches the flag, the notification or the reader.
LEMMA OthersRaise ==
    ASSUME Raised,
           \/ Joined \/ OpenFails \/ SetupFails \/ ReaderJoined \/ FlowsAborted \/ LwipJoined
           \/ WriterJoined \/ CoreJoined \/ CoreEnds \/ LwipStep \/ FlowStep \/ ReplyStep \/ UNCHANGED vars
    PROVE  Raised'
<1> USE DEF Raised, vars, deviceVars, taskVars
<1>1. CASE Joined \/ OpenFails
  BY <1>1 DEF Joined, OpenFails
<1>2. CASE SetupFails \/ ReaderJoined \/ FlowsAborted \/ LwipJoined \/ WriterJoined \/ CoreJoined \/ CoreEnds
  BY <1>2 DEF SetupFails, ReaderJoined, FlowsAborted, LwipJoined, WriterJoined, CoreJoined, CoreEnds
<1>3. CASE LwipStep
  BY <1>3 DEF LwipStep, LwipTakes, LwipFails, LwipClosed, LwipAccepts
<1>4. CASE FlowStep
  BY <1>4 DEF FlowStep, AbortFlow, FlowEnds, UdpHandled, UdpLooks, UdpServed
<1>5. CASE ReplyStep
  BY <1>5 DEF ReplyStep, Sweep, ReplyLeaves, ReplyEvicts, ReplyForgets
<1>6. CASE UNCHANGED vars
  BY <1>6
<1>. QED BY <1>1, <1>2, <1>3, <1>4, <1>5, <1>6

\* A stop() that waits has reached every reader that will not read the flag
\* again, whenever it came: before the reader's Notified, between it and the
\* look at the flag, or while the reader is busy with packets.
THEOREM StopIsHeard == Spec => []NoLostStop
<1>1. Init => Raised
  BY DEF Init, Raised
<1>2. TInv /\ Raised /\ [Next]_vars => Raised'
  BY RequestRaises, OpenRaises, SetupRaises, ReaderRaises, OthersRaise
     DEF Next, CallerStep, CoreStep
<1>3. Raised => NoLostStop
  BY DEF Raised, NoLostStop
<1>. QED BY <1>1, <1>2, <1>3, TunInvariant, PTL DEF Spec
=============================================================================

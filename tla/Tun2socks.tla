----------------------------- MODULE Tun2socks ------------------------------
(***************************************************************************)
(* tun2socks.rs: the TUN device's life in the Rust library.  One caller at *)
(* a time (the JNI layer holds engine.rs's OPERATION mutex) starts and     *)
(* stops it; run_tun2socks() joins a reader, a task that drives the lwIP   *)
(* stack, a writer and one task per flow; UDP replies are read by detached *)
(* tasks that share the engine's NAT table and outlive all of these.       *)
(*                                                                         *)
(* Abstracted: packets carry no contents; the lwIP stack may accept a flow *)
(* or fail at any time; all UDP packets belong to one NAT key (two keys    *)
(* share no state but the locks); a TCP or hijacked-DNS flow is a "begun"  *)
(* one that ends, as does a UDP packet that is dropped.  External, in the  *)
(* meow crates: handle_udp(), the NAT sweeper, and when lwIP says that its *)
(* core is done.                                                           *)
(***************************************************************************)
EXTENDS Naturals, FiniteSets

CONSTANTS
    Flows,       \* slots for flow tasks
    Readers,     \* slots for UDP reply readers
    Capacity,    \* of the channel from the TUN reader to the stack (256)
    MaxRuns,     \* bound: times the device is opened
    MaxSessions  \* bound: NAT sessions created

ASSUME TunAssumption ==
    /\ IsFiniteSet(Flows)
    /\ Capacity \in Nat \ {0} /\ MaxRuns \in Nat \ {0} /\ MaxSessions \in Nat \ {0}

VARIABLES
    active,     \* TUN2SOCKS_ACTIVE
    stopping,   \* TUN2SOCKS_STOP_REQUESTED
    fd,         \* TUN_FD: the run whose duplicate is open, 0 when none
    task,       \* TUN2SOCKS_TASK is Some
    call,       \* where the caller of start() or stop() is
    run,        \* how many times the device has been opened
    core,       \* where run_tun2socks() of that run is
    ready,      \* what the caller of start() was told
    reader,     \* the TUN reader task
    woken,      \* notify_waiters() reached its Notified
    ingress,    \* packets in the channel to the stack
    lwip,       \* the task that owns the stack
    writer,     \* the TUN writer task
    flow,       \* what each flow task is about to do
    sess,       \* the NAT session a UDP flow task found
    drained,    \* flow tasks abort_flow_tasks() took to abort
    nat,        \* the engine's NAT session of the key, 0 when none
    sessions,   \* how many have been created
    served,     \* ReplyReaders of each run: the session that has a reader
    reply       \* reply readers

deviceVars == <<active, stopping, fd, task, call, run>>
taskVars == <<core, ready, reader, woken, ingress, lwip, writer>>
flowVars == <<flow, sess, drained>>
natVars == <<nat, sessions, served, reply>>
vars == <<deviceVars, taskVars, flowVars, natVars>>

NoReply == [at |-> "none", run |-> 0, session |-> 0]
Replies == [at : {"relay", "left", "evicted"}, run : 1 .. MaxRuns, session : 1 .. MaxSessions]

TunTypeOK ==
    /\ active \in BOOLEAN /\ stopping \in BOOLEAN /\ task \in BOOLEAN /\ woken \in BOOLEAN
    /\ fd \in {0, run} /\ run \in 0 .. MaxRuns
    /\ call \in {"idle", "reap", "open", "wait", "fail", "stop"}
    /\ core \in {"none", "setup", "reader", "flows", "lwip", "last", "writer", "core", "ending", "over"}
    /\ ready \in {"none", "ok", "err"}
    /\ reader \in {"none", "new", "noted", "sleep", "read", "send"}
    /\ ingress \in 0 .. Capacity
    /\ lwip \in BOOLEAN /\ writer \in BOOLEAN
    /\ flow \in [Flows -> {"none", "begun", "sent", "got"}]
    /\ sess \in [Flows -> 0 .. MaxSessions]
    /\ drained \subseteq Flows
    /\ nat \in 0 .. sessions /\ sessions \in 0 .. MaxSessions
    /\ served \in [1 .. MaxRuns -> 0 .. sessions]
    /\ reply \in [Readers -> Replies \cup {NoReply}]

Init ==
    /\ active = FALSE /\ stopping = FALSE /\ fd = 0 /\ task = FALSE /\ call = "idle" /\ run = 0
    /\ core = "none" /\ ready = "none" /\ reader = "none" /\ woken = FALSE
    /\ ingress = 0 /\ lwip = FALSE /\ writer = FALSE
    /\ flow = [f \in Flows |-> "none"] /\ sess = [f \in Flows |-> 0] /\ drained = {}
    /\ nat = 0 /\ sessions = 0
    /\ served = [r \in 1 .. MaxRuns |-> 0]
    /\ reply = [i \in Readers |-> NoReply]

-----------------------------------------------------------------------------
(* start() and stop() *)

\* Mutant: only a reader in its select! is reached.
NotifiedAsleep == reader = "sleep"

\* The reader holds its Notified from before it reads the flag to its end.
HoldsNotified == reader \in {"noted", "sleep", "read", "send"}

\* stop() up to the join of the task, on the way to `c`.
RequestStop(c) ==
    /\ stopping' = TRUE
    /\ woken' = (woken \/ HoldsNotified)
    /\ call' = c

\* stopTun(), engine::stop() and reload call stop(), whatever the TUN does.
Stop ==
    /\ call = "idle"
    /\ RequestStop("stop")
    /\ UNCHANGED <<active, fd, task, run, core, ready, reader, ingress, lwip, writer, flowVars, natVars>>

\* start() refuses while active and on a bad DNS list, which changes nothing;
\* otherwise it first reaps a session that ended by itself.
Start ==
    /\ call = "idle" /\ ~active /\ run < MaxRuns
    /\ RequestStop("reap")
    /\ UNCHANGED <<active, fd, task, run, core, ready, reader, ingress, lwip, writer, flowVars, natVars>>

\* Mutant: stop() drops the task's handle instead of joining it.
Detached == TRUE

MayClose == task => core = "over"

\* stop() from the join on: only then does the descriptor go.
Joined ==
    /\ call \in {"reap", "fail", "stop"}
    /\ MayClose
    /\ fd' = 0 /\ active' = FALSE /\ task' = FALSE
    /\ call' = IF call = "reap" THEN "open" ELSE "idle"
    /\ UNCHANGED <<stopping, run, taskVars, flowVars, natVars>>

\* fcntl fails: the duplicate is dropped and start() returns an error.
OpenFails ==
    /\ call = "open"
    /\ call' = "idle"
    /\ UNCHANGED <<active, stopping, fd, task, run, taskVars, flowVars, natVars>>

Open ==
    /\ call = "open"
    /\ run' = run + 1 /\ fd' = run + 1
    /\ stopping' = FALSE /\ active' = TRUE /\ task' = TRUE
    /\ core' = "setup" /\ ready' = "none" /\ call' = "wait"
    /\ UNCHANGED <<reader, woken, ingress, lwip, writer, flowVars, natVars>>

\* ready_rx.recv(): a session that failed before it was ready is stopped.
Told ==
    /\ call = "wait"
    /\ \/ ready = "ok" /\ call' = "idle" /\ UNCHANGED <<stopping, woken>>
       \/ ready = "err" /\ RequestStop("fail")
    /\ UNCHANGED <<active, fd, task, run, core, ready, reader, ingress, lwip, writer, flowVars, natVars>>

-----------------------------------------------------------------------------
(* run_tun2socks() *)

\* The fd cannot be registered, or lwIP cannot be built.
SetupFails ==
    /\ core = "setup"
    /\ ready' = "err" /\ core' = "ending"
    /\ UNCHANGED <<deviceVars, reader, woken, ingress, lwip, writer, flowVars, natVars>>

Setup ==
    /\ core = "setup"
    /\ ready' = "ok" /\ core' = "reader"
    /\ reader' = "new" /\ woken' = FALSE
    /\ ingress' = 0 /\ lwip' = TRUE /\ writer' = TRUE
    /\ UNCHANGED <<deviceVars, flowVars, natVars>>

\* abort_flow_tasks(): what it aborts is what runs when it drains the vector.
Drain == drained' = {f \in Flows : flow[f] # "none"}

ReaderJoined ==
    /\ core = "reader" /\ reader = "none"
    /\ core' = "flows" /\ Drain
    /\ UNCHANGED <<deviceVars, ready, reader, woken, ingress, lwip, writer, flow, sess, natVars>>

\* An abort takes effect where the task awaits: not between the look at the
\* NAT table and the spawn of the reply reader.
AbortFlow(f) ==
    /\ core \in {"flows", "last"} /\ f \in drained
    /\ flow[f] # "got"
    /\ flow' = [flow EXCEPT ![f] = "none"]
    /\ sess' = [sess EXCEPT ![f] = 0]
    /\ drained' = drained \ {f}
    /\ UNCHANGED <<deviceVars, taskVars, natVars>>

AfterAborts == IF core = "flows" THEN "lwip" ELSE "writer"

FlowsAborted ==
    /\ core \in {"flows", "last"} /\ drained = {}
    /\ core' = AfterAborts
    /\ UNCHANGED <<deviceVars, ready, reader, woken, ingress, lwip, writer, flowVars, natVars>>

\* The stack accepted flows until its task ended: they are aborted too.
LwipJoined ==
    /\ core = "lwip" /\ ~lwip
    /\ core' = "last" /\ Drain
    /\ UNCHANGED <<deviceVars, ready, reader, woken, ingress, lwip, writer, flow, sess, natVars>>

WriterJoined ==
    /\ core = "writer"
    /\ writer' = FALSE /\ core' = "core"
    /\ UNCHANGED <<deviceVars, ready, reader, woken, ingress, lwip, flowVars, natVars>>

\* External: lwIP frees its core, and core_done() turns true, when the stack,
\* the listener and the UDP halves, which the stack's task owns, are dropped
\* and with them every stream it accepted, which the flow tasks own.
CoreDone == ~lwip /\ \A f \in Flows : flow[f] = "none"

CoreJoined ==
    /\ core = "core" /\ CoreDone
    /\ core' = "ending"
    /\ UNCHANGED <<deviceVars, ready, reader, woken, ingress, lwip, writer, flowVars, natVars>>

CoreEnds ==
    /\ core = "ending"
    /\ active' = FALSE /\ core' = "over"
    /\ UNCHANGED <<stopping, fd, task, call, run, ready, reader, woken, ingress, lwip, writer,
                   flowVars, natVars>>

-----------------------------------------------------------------------------
(* The TUN reader *)

ReaderVars(r, n) == reader' = r /\ ingress' = n

\* Mutant: the flag is not read again once the Notified exists.
NeverAsked == FALSE

AskedToStop == stopping

\* The Notified is created first, then the flag is read.
ReaderStarts ==
    /\ reader = "new"
    /\ ReaderVars("noted", ingress)
    /\ UNCHANGED <<deviceVars, core, ready, woken, lwip, writer, flowVars, natVars>>

ReaderLooks ==
    /\ reader = "noted"
    /\ ReaderVars(IF AskedToStop THEN "none" ELSE "sleep", ingress)
    /\ UNCHANGED <<deviceVars, core, ready, woken, lwip, writer, flowVars, natVars>>

ReaderWoken ==
    /\ reader = "sleep" /\ woken
    /\ ReaderVars("none", ingress)
    /\ UNCHANGED <<deviceVars, core, ready, woken, lwip, writer, flowVars, natVars>>

\* The device is readable, or epoll fails.
ReaderReady ==
    /\ reader = "sleep"
    /\ \E r \in {"read", "none"} : ReaderVars(r, ingress)
    /\ UNCHANGED <<deviceVars, core, ready, woken, lwip, writer, flowVars, natVars>>

Room == ingress < Capacity

\* One packet: into the channel, or wait for room, or the stack is gone.
ReaderReads ==
    /\ reader = "read"
    /\ \/ lwip /\ Room /\ ReaderVars("read", ingress + 1)
       \/ lwip /\ ~Room /\ ReaderVars("send", ingress)
       \/ ~lwip /\ ReaderVars("none", ingress)
    /\ UNCHANGED <<deviceVars, core, ready, woken, lwip, writer, flowVars, natVars>>

\* send().await: an error (the stack is gone) is ignored.
ReaderSends ==
    /\ reader = "send"
    /\ \/ lwip /\ Room /\ ReaderVars("read", ingress + 1)
       \/ ~lwip /\ ReaderVars("read", ingress)
    /\ UNCHANGED <<deviceVars, core, ready, woken, lwip, writer, flowVars, natVars>>

\* EAGAIN or another failure: only now does the reader look at `stopped`.
ReaderDrained ==
    /\ reader = "read"
    /\ ReaderVars("sleep", ingress)
    /\ UNCHANGED <<deviceVars, core, ready, woken, lwip, writer, flowVars, natVars>>

-----------------------------------------------------------------------------
(* The task that drives lwIP, and the flow tasks *)

LwipTakes ==
    /\ lwip /\ ingress > 0
    /\ ingress' = ingress - 1
    /\ UNCHANGED <<deviceVars, core, ready, reader, woken, lwip, writer, flowVars, natVars>>

LwipAccepts(f) ==
    /\ lwip /\ flow[f] = "none" /\ f \notin drained
    /\ flow' = [flow EXCEPT ![f] = "begun"]
    /\ UNCHANGED <<deviceVars, taskVars, sess, drained, natVars>>

\* The stack, the writer side of UDP or a listener fails.
LwipFails ==
    /\ lwip
    /\ lwip' = FALSE /\ ingress' = 0
    /\ UNCHANGED <<deviceVars, core, ready, reader, woken, writer, flowVars, natVars>>

\* The reader, which owned the channel's sender, has ended.
LwipClosed ==
    /\ lwip /\ reader = "none" /\ ingress = 0
    /\ lwip' = FALSE
    /\ UNCHANGED <<deviceVars, core, ready, reader, woken, ingress, writer, flowVars, natVars>>

EndFlow(f) ==
    /\ flow' = [flow EXCEPT ![f] = "none"]
    /\ sess' = [sess EXCEPT ![f] = 0]

\* TCP and DNS flows end with their relay, by a timeout or with the engine; a
\* UDP packet may be dropped by the engine or for want of an address.
FlowEnds(f) ==
    /\ flow[f] = "begun"
    /\ EndFlow(f)
    /\ UNCHANGED <<deviceVars, taskVars, drained, natVars>>

\* Bound: a reply reader's slot for every packet that may need one.
SlotLeft ==
    Cardinality({g \in Flows : flow[g] \in {"sent", "got"}})
        < Cardinality({i \in Readers : reply[i] = NoReply})

\* handle_udp() sends on the key's session and creates it first if need be.
UdpHandled(f) ==
    /\ flow[f] = "begun" /\ SlotLeft
    /\ IF nat # 0 THEN UNCHANGED <<nat, sessions>>
       ELSE sessions < MaxSessions /\ sessions' = sessions + 1 /\ nat' = sessions + 1
    /\ flow' = [flow EXCEPT ![f] = "sent"]
    /\ UNCHANGED <<deviceVars, taskVars, sess, drained, served, reply>>

\* nat_table.get() of the key.
UdpLooks(f) ==
    /\ flow[f] = "sent"
    /\ IF nat = 0 THEN EndFlow(f)
       ELSE flow' = [flow EXCEPT ![f] = "got"] /\ sess' = [sess EXCEPT ![f] = nat]
    /\ UNCHANGED <<deviceVars, taskVars, drained, natVars>>

HasReader(f) == served[run] = sess[f]

\* Under the lock of reply_readers: one reader for each session.
UdpServed(f) ==
    /\ flow[f] = "got"
    /\ IF HasReader(f) THEN UNCHANGED <<served, reply>>
       ELSE /\ served' = [served EXCEPT ![run] = sess[f]]
            /\ \E i \in {j \in Readers : reply[j] = NoReply} :
                   reply' = [reply EXCEPT ![i] =
                                 [at |-> "relay", run |-> run, session |-> sess[f]]]
    /\ EndFlow(f)
    /\ UNCHANGED <<deviceVars, taskVars, drained, nat, sessions>>

-----------------------------------------------------------------------------
(* UDP reply readers *)

\* The read fails, the reply channel is full or closed, or the check finds
\* that the session left the table or went idle.
ReplyLeaves(i) ==
    /\ reply[i].at = "relay"
    /\ reply' = [reply EXCEPT ![i].at = "left"]
    /\ UNCHANGED <<deviceVars, taskVars, flowVars, nat, sessions, served>>

\* Mutant: the entry stays behind.
With(current, s) == current

Without(current, s) == IF current = s THEN 0 ELSE current

ReplyEvicts(i) ==
    /\ reply[i].at = "left"
    /\ nat' = Without(nat, reply[i].session)
    /\ reply' = [reply EXCEPT ![i].at = "evicted"]
    /\ UNCHANGED <<deviceVars, taskVars, flowVars, sessions, served>>

ReplyForgets(i) ==
    /\ reply[i].at = "evicted"
    /\ served' = [served EXCEPT ![reply[i].run] = Without(@, reply[i].session)]
    /\ reply' = [reply EXCEPT ![i] = NoReply]
    /\ UNCHANGED <<deviceVars, taskVars, flowVars, nat, sessions>>

\* The idle sweeper, a flush, or a write that failed in handle_udp().
Sweep ==
    /\ nat # 0
    /\ nat' = 0
    /\ UNCHANGED <<deviceVars, taskVars, flowVars, sessions, served, reply>>

-----------------------------------------------------------------------------

CallerStep == Joined \/ OpenFails \/ Open \/ Told
CoreStep == Setup \/ SetupFails \/ ReaderJoined \/ FlowsAborted \/ LwipJoined \/ WriterJoined
                \/ CoreJoined \/ CoreEnds
ReaderStep == ReaderStarts \/ ReaderLooks \/ ReaderWoken \/ ReaderReady \/ ReaderReads
                \/ ReaderSends \/ ReaderDrained
LwipStep == LwipTakes \/ LwipFails \/ LwipClosed \/ \E f \in Flows : LwipAccepts(f)
FlowStep == \E f \in Flows : AbortFlow(f) \/ FlowEnds(f) \/ UdpHandled(f) \/ UdpLooks(f) \/ UdpServed(f)
ReplyStep == Sweep \/ \E i \in Readers : ReplyLeaves(i) \/ ReplyEvicts(i) \/ ReplyForgets(i)

Next == Start \/ Stop \/ CallerStep \/ CoreStep \/ ReaderStep \/ LwipStep \/ FlowStep \/ ReplyStep

Spec == Init /\ [][Next]_vars

\* The runtime polls every ready task.  select! picks at random among ready
\* branches, and the apps do not fill the device for ever: it is drained again
\* and again, which is all that lets the reader see a stop.
Fairness ==
    /\ WF_vars(CallerStep) /\ WF_vars(CoreStep)
    /\ WF_vars(ReaderStarts) /\ WF_vars(ReaderLooks) /\ WF_vars(ReaderSends)
    /\ SF_vars(ReaderWoken) /\ SF_vars(ReaderDrained)
    /\ WF_vars(LwipTakes) /\ WF_vars(LwipClosed)
    /\ \A f \in Flows : WF_vars(AbortFlow(f)) /\ WF_vars(UdpServed(f))
    /\ \A i \in Readers : WF_vars(ReplyEvicts(i)) /\ WF_vars(ReplyForgets(i))

FairSpec == Spec /\ Fairness

-----------------------------------------------------------------------------
(* Properties *)

NothingRuns ==
    /\ core \in {"none", "over"}
    /\ reader = "none" /\ ~lwip /\ ~writer
    /\ \A f \in Flows : flow[f] = "none"

\* The descriptor is closed, and start() may open another over lwIP's global
\* state, only when no task of the session is left: reader and writer use the
\* number of the descriptor, flows and stack the C state behind it.
ClosedLast == fd = 0 \/ ~active => NothingRuns

\* dispatch_udp() spawns no reader for a session it finds in the map.  Were an
\* entry to outlive its reader, the flow would get no more replies.
ServedHasReader ==
    \A r \in 1 .. MaxRuns :
        served[r] # 0 => \E i \in Readers : reply[i].run = r /\ reply[i].session = served[r]

\* A stop() that waits for the task is never lost: a reader past its look at
\* the flag has been notified, also one busy with packets or with a channel
\* that is full, so its next select! ends it.
NoLostStop ==
    call \in {"reap", "fail", "stop"} /\ reader \in {"sleep", "read", "send"} => woken

\* stop() and start() return: no stop is lost on a silent device, whatever the
\* reader is doing, and the joins in run_tun2socks() do not wait on each other.
StopEnds == call # "idle" ~> call = "idle"

\* A session has one reply reader: reads of a stream-framed connection must not
\* be shared.  NOT so across stop() and start(): see the README.
OneReader ==
    \A i, j \in Readers :
        i # j /\ reply[i].at = "relay" /\ reply[j].at = "relay" => reply[i].session # reply[j].session
=============================================================================

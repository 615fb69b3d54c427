------------------------------- MODULE GoScan -------------------------------
(***************************************************************************)
(* The Go scan: findReplacement() and testAll() of                         *)
(* native/autoswitch/autoswitch.go.  A dispatcher hands the members of a   *)
(* tier over an unbuffered channel to min(concurrency, members) workers;   *)
(* a worker looks at `accepted` and the context before it probes, and      *)
(* again, under the mutex, before it counts the result.  testAll returns   *)
(* once the workers are done or a result is accepted; the probes then in   *)
(* flight go on.                                                           *)
(*                                                                         *)
(* Workers have no identity: `idle` counts those waiting for a job.        *)
(* Abstracted as in ScanPool: the order of probing and the counts.  A      *)
(* panic ends the process, so no probe is ever lost.                       *)
(***************************************************************************)
EXTENDS Scan

CONSTANT MaxScans \* bound: scans in one behaviour

ASSUME MaxScansOK == MaxScans \in Nat \ {0}

VARIABLES
    stage,     \* the tier being tested, or "idle" between two scans
    step,      \* of testAll: "dispatch", then "wait"
    queue,     \* members not handed to a worker yet
    idle,      \* workers waiting for a job
    took,      \* members a worker received and did not look at `accepted` for
    testing,   \* members being probed
    accepted,  \* a result below expected-delay was counted; stop is closed
    cancelled, \* the checker's context is done
    best,      \* the fastest healthy member counted so far
    late,      \* for each candidate, its probes still running after an accept
    scans      \* how many scans have begun

goVars == <<stage, step, queue, idle, took, testing, accepted, cancelled, best, late, scans>>
vars == <<scanVars, goVars>>

\* min(concurrency, len(proxies))
Workers(s, in) ==
    IF Cardinality(TierOf(s, in)) < in.concurrency THEN Cardinality(TierOf(s, in)) ELSE in.concurrency

GoTypeOK ==
    /\ input \in Inputs
    /\ healthy \subseteq Candidates /\ failed \subseteq Candidates /\ lost = {}
    /\ outcome \in Candidates \cup {Open, Nobody, Abandoned}
    /\ stage \in {"preferred", "all", "idle"}
    /\ step \in {"dispatch", "wait"}
    /\ queue \subseteq Candidates
    /\ idle \in 0 .. input.concurrency
    /\ took \subseteq Candidates /\ testing \subseteq Candidates
    /\ accepted \in BOOLEAN /\ cancelled \in BOOLEAN
    /\ best \in Candidates \cup {Nobody}
    /\ late \in [Candidates -> 0 .. MaxScans]
    /\ scans \in 1 .. MaxScans

-----------------------------------------------------------------------------

\* testAll() up to its dispatch loop.  An empty tier is skipped; here its
\* dispatch ends at once.
Begin(s, in) ==
    /\ stage' = s /\ step' = "dispatch"
    /\ queue' = TierOf(s, in) /\ idle' = Workers(s, in)
    /\ took' = {} /\ testing' = {}
    /\ accepted' = FALSE /\ best' = Nobody

\* jobs <- proxy: taken at random if ctx.Done() or stop is ready as well.
Dispatch(n) ==
    /\ stage # "idle" /\ step = "dispatch"
    /\ n \in queue /\ idle > 0
    /\ queue' = queue \ {n} /\ took' = took \cup {n} /\ idle' = idle - 1
    /\ UNCHANGED <<scanVars, stage, step, testing, accepted, cancelled, best, late, scans>>

\* Wrong: only an empty queue or a cancelled context ends the loop.
LoopEndsDeaf == queue = {} \/ cancelled

LoopEnds == queue = {} \/ cancelled \/ accepted

\* close(jobs): idle workers end, and others when they come back for a job.
CloseJobs ==
    /\ stage # "idle" /\ step = "dispatch" /\ LoopEnds
    /\ step' = "wait"
    /\ UNCHANGED <<scanVars, stage, queue, idle, took, testing, accepted, cancelled, best, late, scans>>

\* Wrong: a worker looks at its context only.
MayTestAccepted == ~cancelled

MayTest == ~accepted /\ ~cancelled

\* The worker that received n begins its probe, or ends.
Look(n) ==
    /\ stage # "idle" /\ n \in took
    /\ took' = took \ {n}
    /\ testing' = IF MayTest THEN testing \cup {n} ELSE testing
    /\ UNCHANGED <<scanVars, stage, step, queue, idle, accepted, cancelled, best, late, scans>>

\* Wrong: late results count as well.
CountsLate == ~cancelled

\* Late and cancelled probes do not count.
Counts == ~accepted /\ ~cancelled

BestWith(n) ==
    IF best = Nobody \/ input.delay[n] < input.delay[best] THEN n ELSE best

\* Wrong: a worker ends with its first probe.
ComeOnce == idle

\* The worker goes back to the channel.
ComeBack == idle + 1

\* A worker's probe ends.
Report(n) ==
    /\ stage # "idle" /\ n \in testing
    /\ testing' = testing \ {n} /\ idle' = ComeBack
    /\ \/ /\ Counts
          /\ healthy' = healthy \cup {n}
          /\ best' = BestWith(n)
          /\ accepted' = Fast(n)
          /\ UNCHANGED failed
       \/ Counts /\ failed' = failed \cup {n} /\ UNCHANGED <<healthy, best, accepted>>
       \/ ~Counts /\ UNCHANGED <<healthy, failed, best, accepted>>
    /\ UNCHANGED <<input, lost, outcome, stage, step, queue, took, cancelled, late, scans>>

Cancelled == cancelled

Idle ==
    /\ stage' = "idle"
    /\ queue' = {} /\ idle' = 0 /\ took' = {} /\ testing' = {}
    /\ UNCHANGED <<step, accepted, best>>

\* testAll returns, and findReplacement goes on to the next tier or returns.
Return ==
    /\ stage # "idle" /\ step = "wait"
    /\ accepted \/ took \cup testing = {}
    /\ late' = [n \in Candidates |-> IF n \in testing THEN late[n] + 1 ELSE late[n]]
    /\ IF ~Cancelled /\ best = Nobody /\ stage = "preferred"
       THEN Begin("all", input) /\ UNCHANGED outcome
       ELSE Idle /\ outcome' = IF Cancelled THEN Abandoned ELSE best
    /\ UNCHANGED <<input, healthy, failed, lost, cancelled, scans>>

\* A probe that outlived its scan ends within its timeout.
Drain(n) ==
    /\ late[n] > 0
    /\ late' = [late EXCEPT ![n] = @ - 1]
    /\ UNCHANGED <<scanVars, stage, step, queue, idle, took, testing, accepted, cancelled, best, scans>>

\* restartLocked() cancels the checker's context.
Cancel ==
    /\ ~cancelled /\ cancelled' = TRUE
    /\ UNCHANGED <<scanVars, stage, step, queue, idle, took, testing, accepted, best, late, scans>>

\* The next call of findReplacement, by the same checker or by a new one.
NextScan ==
    /\ stage = "idle" /\ scans < MaxScans
    /\ scans' = scans + 1
    /\ input' \in Inputs
    /\ healthy' = {} /\ failed' = {} /\ lost' = {} /\ outcome' = Open
    /\ cancelled' = FALSE
    /\ Begin("preferred", input')
    /\ UNCHANGED late

Rest == stage = "idle" /\ scans = MaxScans /\ UNCHANGED vars

-----------------------------------------------------------------------------

Init ==
    /\ ScanInit
    /\ stage = "preferred" /\ step = "dispatch"
    /\ queue = Preferred /\ idle = Workers("preferred", input)
    /\ took = {} /\ testing = {}
    /\ accepted = FALSE /\ cancelled = FALSE /\ best = Nobody
    /\ late = [n \in Candidates |-> 0]
    /\ scans = 1

Scanning ==
    \/ \E n \in Candidates : Dispatch(n) \/ Look(n) \/ Report(n)
    \/ CloseJobs \/ Return

Next == Scanning \/ (\E n \in Candidates : Drain(n)) \/ Cancel \/ NextScan \/ Rest

Spec == Init /\ [][Next]_vars

\* Probes end within their timeout and every goroutine is scheduled.
FairSpec == Spec /\ WF_vars(Scanning)

-----------------------------------------------------------------------------

\* "Queued members are then never probed" (testAll): once a result is accepted
\* no member still queued or on its way to a worker is probed, in whatever
\* order the dispatcher's select and the workers look at it.
QueuedNeverProbed == [][accepted => testing' \subseteq testing]_vars

\* While nothing is accepted or cancelled every worker is waiting or busy, and
\* each member is queued, with one worker, or answered, exactly one of these: no
\* member is probed twice or dropped by the hand-over.
HandedOverOnce ==
    stage # "idle" =>
        /\ ~accepted /\ ~cancelled =>
              /\ idle + Cardinality(took) + Cardinality(testing) = Workers(stage, input)
              /\ TierOf(stage, input) \subseteq queue \cup took \cup testing \cup Answered
        /\ queue \cap (took \cup testing \cup Answered) = {}
        /\ took \cap (testing \cup Answered) = {}
        /\ testing \cap Answered = {}
=============================================================================

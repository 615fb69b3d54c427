------------------------------ MODULE ScanPool ------------------------------
(***************************************************************************)
(* The Rust scan: replacement(), test_all() and spawn_probe() of           *)
(* autoswitch/checker.rs.  A JoinSet holds at most `concurrency` probes;   *)
(* each joined result starts the next queued probe, except the result of a *)
(* probe that panicked.  After an early acceptance the probes in flight    *)
(* move to Checker.background and drain there, while the round goes on to  *)
(* its next group.                                                         *)
(*                                                                         *)
(* Abstracted: the order in which a tier is probed (any order here; the    *)
(* code sorts by the last delay when expected-delay is set), progress and  *)
(* event texts, and the counts `tested` and `available`, which are the     *)
(* sizes of healthy \cup failed and of healthy.                            *)
(***************************************************************************)
EXTENDS Scan

CONSTANT MaxScans \* bound: scans in one behaviour

ASSUME MaxScansOK == MaxScans \in Nat \ {0}

VARIABLES
    stage,      \* the tier being tested, "return" once one is accepted, "idle"
    queue,      \* `pending`: members of the tier not probed yet
    jobs,       \* probes in the JoinSet, running or not joined yet
    ready,      \* those that have ended
    best,       \* the fastest healthy member joined so far
    background, \* for each candidate, its probes still draining
    scans       \* how many scans have begun

poolVars == <<stage, queue, jobs, ready, best, background, scans>>
vars == <<scanVars, poolVars>>

Tier == TierOf(stage, input)

PoolTypeOK ==
    /\ input \in Inputs
    /\ healthy \subseteq Candidates /\ failed \subseteq Candidates /\ lost \subseteq Candidates
    /\ outcome \in Candidates \cup {Open, Nobody, Abandoned}
    /\ stage \in {"preferred", "all", "return", "idle"}
    /\ queue \subseteq Candidates
    /\ jobs \subseteq Candidates
    /\ ready \subseteq jobs
    /\ best \in Candidates \cup {Nobody}
    /\ background \in [Candidates -> 0 .. MaxScans]
    /\ scans \in 1 .. MaxScans

-----------------------------------------------------------------------------

\* The probes test_all may start with.
First(s, in) ==
    {js \in SUBSET TierOf(s, in) :
        /\ Cardinality(js) <= in.concurrency
        /\ Cardinality(js) = in.concurrency \/ js = TierOf(s, in)}

\* test_all() up to its loop.  An empty tier is skipped; its loop ends at once.
Begin(s, in) ==
    /\ stage' = s
    /\ \E js \in First(s, in) : jobs' = js /\ queue' = TierOf(s, in) \ js
    /\ ready' = {} /\ best' = Nobody

\* A probe of the pool ends: it answered, failed, timed out or panicked.
Finish(n) ==
    /\ n \in jobs \ ready
    /\ ready' = ready \cup {n}
    /\ UNCHANGED <<scanVars, stage, queue, jobs, best, background, scans>>

BestWith(n) ==
    IF best = Nobody \/ input.delay[n] < input.delay[best] THEN n ELSE best

\* Wrong: a joined probe is not followed by a queued one.
SpawnNone(n) == jobs' = jobs \ {n} /\ UNCHANGED queue

\* Wrong: a joined probe goes back to the queue.
SpawnAgain(n) ==
    \E m \in queue \cup {n} :
        jobs' = (jobs \ {n}) \cup {m} /\ queue' = (queue \cup {n}) \ {m}

\* The joined probe leaves the pool, and the next one of the queue starts.
SpawnNext(n) ==
    \/ queue = {} /\ jobs' = jobs \ {n} /\ UNCHANGED queue
    \/ \E m \in queue : jobs' = (jobs \ {n}) \cup {m} /\ queue' = queue \ {m}

\* Wrong: a delay of exactly expected-delay is accepted.
FastOrEqual(n) == input.expected > 0 /\ input.delay[n] <= input.expected

\* Strictly below expected-delay.
Accepts(n) == Fast(n)

\* One turn of the loop in test_all.
Join(n) ==
    /\ stage \in {"preferred", "all"} /\ n \in ready
    /\ ready' = ready \ {n}
    /\ \/ /\ healthy' = healthy \cup {n}
          /\ best' = BestWith(n)
          /\ IF Accepts(n)
             THEN stage' = "return" /\ jobs' = jobs \ {n} /\ UNCHANGED queue
             ELSE SpawnNext(n) /\ UNCHANGED stage
          /\ UNCHANGED <<failed, lost>>
       \/ /\ failed' = failed \cup {n}
          /\ SpawnNext(n)
          /\ UNCHANGED <<healthy, lost, best, stage>>
       \/ /\ lost' = lost \cup {n}
          /\ jobs' = jobs \ {n}
          /\ UNCHANGED <<healthy, failed, best, queue, stage>>
    /\ UNCHANGED <<input, outcome, background, scans>>

\* The early return: what is in flight drains in the background.
Accept ==
    /\ stage = "return"
    /\ outcome' = best
    /\ background' = [n \in Candidates |->
                        IF n \in jobs \ ready THEN background[n] + 1 ELSE background[n]]
    /\ stage' = "idle" /\ jobs' = {} /\ ready' = {} /\ queue' = {}
    /\ UNCHANGED <<input, healthy, failed, lost, best, scans>>

\* The loop of a tier has joined all its probes.
EndTier ==
    /\ stage \in {"preferred", "all"} /\ jobs = {}
    /\ IF best = Nobody /\ stage = "preferred"
       THEN Begin("all", input) /\ UNCHANGED outcome
       ELSE /\ outcome' = best
            /\ stage' = "idle" /\ queue' = {}
            /\ UNCHANGED <<jobs, ready, best>>
    /\ UNCHANGED <<input, healthy, failed, lost, background, scans>>

\* A probe in the background ends within its timeout; nobody reads its result.
Drain(n) ==
    /\ background[n] > 0
    /\ background' = [background EXCEPT ![n] = @ - 1]
    /\ UNCHANGED <<scanVars, stage, queue, jobs, ready, best, scans>>

\* The checker is aborted while it waits, for a probe or between two scans:
\* the JoinSets it owns are dropped, and with them every probe.
AbortTask ==
    /\ stage # "return"
    /\ outcome' = IF outcome = Open THEN Abandoned ELSE outcome
    /\ stage' = "idle" /\ jobs' = {} /\ ready' = {} /\ queue' = {}
    /\ background' = [n \in Candidates |-> 0]
    /\ UNCHANGED <<input, healthy, failed, lost, best, scans>>

\* The next call of replacement(), by the same checker with the same settings,
\* or by one that succeeded it after the background was dropped.
NextScan ==
    /\ stage = "idle" /\ scans < MaxScans
    /\ scans' = scans + 1
    /\ input' \in Inputs
    /\ \/ background = [n \in Candidates |-> 0]
       \/ input'.expected = input.expected /\ input'.concurrency = input.concurrency
    /\ healthy' = {} /\ failed' = {} /\ lost' = {} /\ outcome' = Open
    /\ Begin("preferred", input')
    /\ UNCHANGED background

Rest == stage = "idle" /\ scans = MaxScans /\ UNCHANGED vars

-----------------------------------------------------------------------------

Init ==
    /\ ScanInit
    /\ stage = "preferred"
    /\ jobs \in First("preferred", input)
    /\ queue = Preferred \ jobs
    /\ ready = {} /\ best = Nobody
    /\ background = [n \in Candidates |-> 0]
    /\ scans = 1

Scanning ==
    \/ \E n \in Candidates : Finish(n) \/ Join(n)
    \/ Accept \/ EndTier

Next == Scanning \/ (\E n \in Candidates : Drain(n)) \/ AbortTask \/ NextScan \/ Rest

Spec == Init /\ [][Next]_vars

\* Probes end within their timeout and the runtime polls the checker.
FairSpec == Spec /\ WF_vars(Scanning)

-----------------------------------------------------------------------------

\* At most `concurrency` probes of a scan run at once, and as long as members
\* are queued exactly that many do, less those that panicked.
PoolFull ==
    stage \in {"preferred", "all"} =>
        /\ Cardinality(jobs) <= input.concurrency
        /\ queue # {} => Cardinality(jobs) + Cardinality(lost \cap Tier) = input.concurrency

\* go/README.md on `concurrency`: "1-32 candidate tests at once".  NOT so while
\* an earlier scan's probes drain: see the README.
InFlight == LET Late == {late \in Candidates \X (1 .. MaxScans) : late[2] <= background[late[1]]}
            IN  Cardinality(jobs \ ready) + Cardinality(Late)
AtMostConcurrency == InFlight <= input.concurrency
=============================================================================

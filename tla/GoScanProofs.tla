---------------------------- MODULE GoScanProofs ----------------------------
(***************************************************************************)
(* Proofs about GoScan, for any candidates, delays and settings and any    *)
(* number of workers and scans: its types, that the hand-over drops and    *)
(* repeats no member, that no probe starts after an acceptance, that it    *)
(* implements Scan, and that it neither blocks nor goes round in circles.  *)
(*                                                                         *)
(* The invariant counts workers, says where each member of the tier is,    *)
(* and what has been found so far.                                         *)
(***************************************************************************)
EXTENDS GoScan, FiniteSetTheorems, TLAPS

T == TierOf(stage, input)

\* No worker is lost before an acceptance or a cancelled context, none is added.
Counted ==
    stage # "idle" =>
        /\ idle + Cardinality(took) + Cardinality(testing) <= Workers(stage, input)
        /\ ~accepted /\ ~cancelled =>
               idle + Cardinality(took) + Cardinality(testing) = Workers(stage, input)

\* Each member is in one place, and the loop ends with members left only after
\* an acceptance or a cancelled context.
Handed ==
    stage # "idle" =>
        /\ queue \cup took \cup testing \subseteq T
        /\ queue \cap (took \cup testing \cup Answered) = {}
        /\ took \cap (testing \cup Answered) = {}
        /\ testing \cap Answered = {}
        /\ ~accepted /\ ~cancelled => T \subseteq queue \cup took \cup testing \cup Answered
        /\ step = "wait" /\ ~accepted /\ ~cancelled => queue = {}

\* What is known of the tiers.
Known ==
    /\ outcome = Open <=> stage # "idle"
    /\ stage # "idle" => healthy \subseteq T /\ (accepted <=> Accepted)
    /\ stage = "preferred" => failed \subseteq Preferred
    /\ stage = "all" => Preferred \subseteq Answered

\* best is the fastest of the healthy members.
Fastest ==
    stage # "idle" =>
        /\ best = Nobody <=> healthy = {}
        /\ best # Nobody => best \in healthy /\ \A m \in healthy : input.delay[best] <= input.delay[m]

\* A scan leaves each probe behind at most once.
Left == \A n \in Candidates : late[n] <= (IF stage = "idle" THEN scans ELSE scans - 1)

GInv == GoTypeOK /\ Counted /\ Handed /\ Known /\ Fastest /\ Left

-----------------------------------------------------------------------------
(* Facts about the constants *)

\* Delays are numbers, and the outcomes that are no candidate differ.
LEMMA InputTypes ==
    ASSUME NEW in \in Inputs
    PROVE  /\ in.preferred \subseteq Candidates
           /\ in.delay \in [Candidates -> Nat] /\ in.expected \in Nat
           /\ in.concurrency \in Nat /\ in.concurrency > 0
           /\ Open \notin Candidates /\ Nobody \notin Candidates /\ Abandoned \notin Candidates
<1>1. /\ in.preferred \in SUBSET Candidates /\ in.delay \in [Candidates -> Delays]
      /\ in.expected \in Expecteds /\ in.concurrency \in Concurrencies
  BY DEF Inputs
<1>2. in.delay \in [Candidates -> Nat]
  BY <1>1, ScanConstantsOK
<1>3. in.concurrency \in Nat \ {0} /\ in.expected \in Nat
  BY <1>1, ScanConstantsOK
<1>4. Open \notin Candidates /\ Nobody \notin Candidates /\ Abandoned \notin Candidates
  BY ScanConstantsOK
<1>. QED BY <1>1, <1>2, <1>3, <1>4

\* A tier is a finite set of candidates.
LEMMA Tiers ==
    ASSUME NEW in \in Inputs, NEW s
    PROVE  /\ TierOf(s, in) \subseteq Candidates /\ IsFiniteSet(TierOf(s, in))
           /\ Cardinality(TierOf(s, in)) \in Nat
<1>1. TierOf(s, in) \subseteq Candidates
  BY InputTypes DEF TierOf
<1>. QED BY <1>1, ScanConstantsOK, FS_Subset, FS_CardinalityType

\* There are at most `concurrency` workers.
LEMMA WorkersBound ==
    ASSUME NEW in \in Inputs, NEW s
    PROVE  Workers(s, in) \in Nat /\ Workers(s, in) <= in.concurrency
BY Tiers, InputTypes DEF Workers

\* A set of candidates is finite.
LEMMA Countable ==
    ASSUME NEW S \in SUBSET Candidates
    PROVE  IsFiniteSet(S) /\ Cardinality(S) \in Nat
BY ScanConstantsOK, FS_Subset, FS_CardinalityType

\* One member more, or less.
LEMMA OneMore ==
    ASSUME NEW S \in SUBSET Candidates, NEW n, n \notin S
    PROVE  Cardinality(S \cup {n}) = Cardinality(S) + 1
BY Countable, FS_AddElement

LEMMA OneLess ==
    ASSUME NEW S \in SUBSET Candidates, NEW n \in S
    PROVE  Cardinality(S \ {n}) = Cardinality(S) - 1
BY Countable, FS_RemoveElement

\* Nobody is in an empty set.
LEMMA NoneLeft == Cardinality({}) = 0
BY FS_EmptySet

-----------------------------------------------------------------------------
(* Each action preserves the invariant *)

\* The first tier of the first scan.
LEMMA InitGInv == Init => GInv
<1> SUFFICES ASSUME Init PROVE GInv
  OBVIOUS
<1> USE ScanConstantsOK, MaxScansOK DEF Init, ScanInit, Fresh
<1>1. Workers("preferred", input) \in Nat /\ Workers("preferred", input) <= input.concurrency
  BY WorkersBound
<1>2. GoTypeOK
  <2>1. late \in [Candidates -> 0 .. MaxScans] /\ scans \in 1 .. MaxScans
    OBVIOUS
  <2>2. queue \subseteq Candidates /\ idle \in 0 .. input.concurrency
    BY <1>1, Tiers, InputTypes DEF Preferred
  <2>. QED BY <2>1, <2>2 DEF GoTypeOK
<1>3. Counted
  BY <1>1, NoneLeft DEF Counted
<1>4. Handed
  BY DEF Handed, T, Preferred, Answered
<1>5. Known /\ Fastest
  BY DEF Known, Fastest, T, Accepted
<1>6. Left
  BY DEF Left
<1>. QED BY <1>2, <1>3, <1>4, <1>5, <1>6 DEF GInv

\* The worker that waited has n.
LEMMA DispatchInv == ASSUME GInv, NEW n \in Candidates, Dispatch(n) PROVE GInv'
<1> USE DEF Dispatch, GInv, scanVars
<1>1. n \notin took /\ took \subseteq Candidates /\ n \in queue
  BY DEF Handed, GoTypeOK
<1>2. Cardinality(took') = Cardinality(took) + 1 /\ Cardinality(took) \in Nat /\ Cardinality(testing) \in Nat
  BY <1>1, OneMore, Countable DEF GoTypeOK
<1>3. GoTypeOK'
  BY <1>1, InputTypes DEF GoTypeOK
<1>4. Counted'
  BY <1>2, WorkersBound DEF Counted, GoTypeOK, Workers
<1>5. Handed'
  BY <1>1 DEF Handed, T, Answered
<1>6. Known' /\ Fastest' /\ Left'
  BY DEF Known, Fastest, T, Accepted, Answered, Preferred, Fast, Left
<1>. QED BY <1>3, <1>4, <1>5, <1>6

\* The loop ends.
LEMMA CloseJobsInv == ASSUME GInv, CloseJobs PROVE GInv'
<1> USE DEF CloseJobs, LoopEnds, GInv, scanVars
<1>1. GoTypeOK' /\ Counted'
  BY DEF GoTypeOK, Counted, Workers
<1>2. Handed'
  BY DEF Handed, T, Answered
<1>3. Known' /\ Fastest' /\ Left'
  BY DEF Known, Fastest, T, Accepted, Answered, Preferred, Fast, Left
<1>. QED BY <1>1, <1>2, <1>3

\* The worker that has n probes it, or leaves.
LEMMA LookInv == ASSUME GInv, NEW n \in Candidates, Look(n) PROVE GInv'
<1> USE DEF Look, MayTest, GInv, scanVars
<1>1. n \in took /\ n \notin testing /\ took \subseteq Candidates /\ testing \subseteq Candidates
  BY DEF Handed, GoTypeOK
<1>2. /\ Cardinality(took') = Cardinality(took) - 1
      /\ Cardinality(took) \in Nat /\ Cardinality(testing) \in Nat
      /\ Cardinality(testing \cup {n}) = Cardinality(testing) + 1
  BY <1>1, OneLess, OneMore, Countable
<1>3. GoTypeOK'
  BY <1>1 DEF GoTypeOK
<1>4. Counted'
  <2>1. Workers(stage, input) \in Nat /\ idle \in Nat
    BY WorkersBound, InputTypes DEF GoTypeOK
  <2>2. CASE MayTest
    BY <2>1, <2>2, <1>2 DEF Counted, Workers
  <2>3. CASE ~MayTest
    BY <2>1, <2>3, <1>2 DEF Counted, Workers
  <2>. QED BY <2>2, <2>3
<1>5. Handed'
  BY <1>1 DEF Handed, T, Answered
<1>6. Known' /\ Fastest' /\ Left'
  BY DEF Known, Fastest, T, Accepted, Answered, Preferred, Fast, Left
<1>. QED BY <1>3, <1>4, <1>5, <1>6

\* The faster of two.
LEMMA Best ==
    ASSUME GInv, stage # "idle", NEW n \in Candidates
    PROVE  /\ BestWith(n) \in healthy \cup {n}
           /\ \A m \in healthy \cup {n} : input.delay[BestWith(n)] <= input.delay[m]
<1>1. input.delay \in [Candidates -> Nat] /\ healthy \subseteq Candidates /\ Nobody \notin Candidates
  BY InputTypes DEF GInv, GoTypeOK
<1>2. CASE best = Nobody
  BY <1>1, <1>2 DEF GInv, Fastest, BestWith
<1>3. CASE best # Nobody
  BY <1>1, <1>3 DEF GInv, Fastest, BestWith
<1>. QED BY <1>2, <1>3

\* A probe ends.
LEMMA ReportInv == ASSUME GInv, NEW n \in Candidates, Report(n) PROVE GInv'
<1> USE DEF Report, Counts, ComeBack, GInv, scanVars
<1>1. n \in testing /\ testing \subseteq Candidates /\ stage # "idle"
  BY DEF GoTypeOK
<1>2. /\ Cardinality(testing') = Cardinality(testing) - 1
      /\ Cardinality(took) \in Nat /\ Cardinality(testing) \in Nat
  BY <1>1, OneLess, Countable DEF GoTypeOK
<1>3. Counted'
  <2>1. Workers(stage, input) \in Nat /\ idle \in Nat
    BY WorkersBound, InputTypes DEF GoTypeOK
  <2>2. accepted' = FALSE => accepted = FALSE
    BY DEF GoTypeOK
  <2>. QED BY <2>1, <2>2, <1>1, <1>2 DEF Counted, Workers, GoTypeOK
<1>4. idle' \in 0 .. input'.concurrency
  <2>1. Cardinality(testing') \in Nat
    BY <1>1, Countable
  <2>2. Workers(stage, input) \in Nat /\ Workers(stage, input) <= input.concurrency /\ input.concurrency \in Nat
    BY WorkersBound, InputTypes DEF GoTypeOK
  <2>3. idle \in Nat /\ idle + Cardinality(took) + Cardinality(testing) <= Workers(stage, input)
    BY <1>1, InputTypes DEF Counted, GoTypeOK
  <2>. QED BY <1>2, <2>1, <2>2, <2>3
<1>5. GoTypeOK'
  <2>1. healthy' \subseteq Candidates /\ failed' \subseteq Candidates /\ testing' \subseteq Candidates
    BY DEF GoTypeOK
  <2>2. best' \in Candidates \cup {Nobody}
    BY Best, <1>1 DEF GoTypeOK
  <2>3. accepted' \in BOOLEAN
    BY InputTypes DEF GoTypeOK, Fast
  <2>. QED BY <1>4, <2>1, <2>2, <2>3 DEF GoTypeOK
<1>6. Handed'
  <2>1. Answered' \subseteq Answered \cup {n}
    BY DEF Answered
  <2>2. Counts => Answered' = Answered \cup {n}
    BY DEF Answered
  <2>3. ~accepted' /\ ~cancelled' => Counts
    BY DEF GoTypeOK
  <2>. QED BY <2>1, <2>2, <2>3, <1>1 DEF Handed, T
<1>7. Known' /\ Fastest'
  <2>1. CASE Counts /\ healthy' = healthy \cup {n} /\ best' = BestWith(n) /\ accepted' = Fast(n) /\ failed' = failed
    <3>1. ~Accepted
      BY <2>1, <1>1 DEF Known
    <3>2. accepted' <=> Accepted'
      BY <2>1, <3>1 DEF Accepted, Fast
    <3>3. n \in T
      BY <1>1 DEF Handed
    <3>4. Known'
      BY <2>1, <3>2, <3>3, <1>1 DEF Known, T, Answered, Preferred
    <3>5. Fastest'
      BY <2>1, <1>1, Best, InputTypes DEF Fastest, GoTypeOK
    <3>. QED BY <3>4, <3>5
  <2>2. CASE Counts /\ failed' = failed \cup {n} /\ UNCHANGED <<healthy, best, accepted>>
    <3>1. n \in T
      BY <1>1 DEF Handed
    <3>2. Known'
      BY <2>2, <3>1, <1>1 DEF Known, T, Answered, Preferred, Accepted, Fast
    <3>. QED BY <3>2, <2>2, <1>1 DEF Fastest
  <2>3. CASE ~Counts /\ UNCHANGED <<healthy, failed, best, accepted>>
    BY <2>3, <1>1 DEF Known, Fastest, T, Answered, Preferred, Accepted, Fast
  <2>. QED BY <2>1, <2>2, <2>3
<1>8. Left'
  BY DEF Left
<1>. QED BY <1>3, <1>5, <1>6, <1>7, <1>8

\* Every member of the tier was probed, if testAll returns with nothing.
LEMMA TierDone ==
    ASSUME GInv, stage # "idle", step = "wait", ~accepted, ~cancelled, took \cup testing = {}
    PROVE  T \subseteq Answered
BY DEF GInv, Handed

\* testAll returns.
LEMMA ReturnInv == ASSUME GInv, Return PROVE GInv'
<1> USE ScanConstantsOK DEF Return, Cancelled, GInv
<1>0. late' \in [Candidates -> 0 .. MaxScans] /\ \A n \in Candidates : late'[n] <= scans
  BY MaxScansOK DEF GoTypeOK, Left
<1>1. CASE ~cancelled /\ best = Nobody /\ stage = "preferred"
  <2> USE <1>1
  <2>1. healthy = {} /\ ~accepted
    BY DEF Fastest, Known, Accepted
  <2>2. Preferred \subseteq Answered /\ took = {} /\ testing = {}
    BY <2>1, TierDone DEF T, Preferred
  <2>3. Workers("all", input) \in Nat /\ Workers("all", input) <= input.concurrency
    BY WorkersBound DEF GoTypeOK
  <2>4. GoTypeOK'
    <3>1. idle' \in 0 .. input'.concurrency
      BY <2>3, InputTypes DEF GoTypeOK, Begin
    <3>2. queue' \subseteq Candidates
      BY Tiers DEF GoTypeOK, Begin
    <3>. QED BY <1>0, <3>1, <3>2 DEF GoTypeOK, Begin
  <2>5. Counted'
    BY <2>3, NoneLeft DEF Counted, Begin, Workers
  <2>6. Handed'
    BY <2>1 DEF Handed, Begin, T, Answered, Known, Preferred, TierOf, GoTypeOK
  <2>7. Known' /\ Fastest'
    BY <2>1, <2>2 DEF Known, Fastest, Begin, T, Answered, Accepted, Preferred
  <2>8. Left'
    <3>1. late' = late
      BY <2>2 DEF GoTypeOK
    <3>. QED BY <3>1 DEF Left, Begin
  <2>. QED BY <2>4, <2>5, <2>6, <2>7, <2>8
<1>2. CASE ~(~cancelled /\ best = Nobody /\ stage = "preferred")
  <2> USE <1>2
  <2>1. outcome' # Open
    BY InputTypes DEF GoTypeOK
  <2>2. GoTypeOK'
    BY <1>0, InputTypes DEF GoTypeOK, Idle
  <2>3. Counted' /\ Handed' /\ Known' /\ Fastest'
    BY <2>1 DEF Counted, Handed, Known, Fastest, Idle
  <2>4. Left'
    BY <1>0 DEF Left, Idle
  <2>. QED BY <2>2, <2>3, <2>4
<1>. QED BY <1>1, <1>2

\* A probe left behind ends.
LEMMA DrainInv == ASSUME GInv, NEW n \in Candidates, Drain(n) PROVE GInv'
<1> USE DEF Drain, GInv, scanVars
<1>1. late[n] \in 1 .. MaxScans
  BY MaxScansOK DEF GoTypeOK
<1>2. late' \in [Candidates -> 0 .. MaxScans] /\ \A m \in Candidates : late'[m] <= late[m]
  BY <1>1, MaxScansOK DEF GoTypeOK
<1>3. GoTypeOK'
  BY <1>2 DEF GoTypeOK
<1>4. Left'
  BY <1>2, MaxScansOK DEF Left, GoTypeOK
<1>5. Counted' /\ Handed' /\ Known' /\ Fastest'
  BY DEF Counted, Workers, Handed, T, Answered, Known, Fastest, Accepted, Preferred, Fast
<1>. QED BY <1>3, <1>4, <1>5

\* A cancelled context ends the counting.
LEMMA CancelInv == ASSUME GInv, Cancel PROVE GInv'
<1> USE DEF Cancel, GInv, scanVars
<1>1. GoTypeOK' /\ Left'
  BY DEF GoTypeOK, Left
<1>2. Counted' /\ Handed' /\ Known' /\ Fastest'
  BY DEF Counted, Workers, Handed, T, Answered, Known, Fastest, Accepted, Preferred, Fast
<1>. QED BY <1>1, <1>2

\* The next scan begins as the first did.
LEMMA NextScanInv == ASSUME GInv, NextScan PROVE GInv'
<1> USE ScanConstantsOK, MaxScansOK DEF NextScan, Begin, GInv
<1>1. input' \in Inputs
  OBVIOUS
<1>2. Workers("preferred", input') \in Nat /\ Workers("preferred", input') <= input'.concurrency
  BY <1>1, WorkersBound
<1>3. GoTypeOK'
  <2>1. scans' \in 1 .. MaxScans
    BY DEF GoTypeOK
  <2>2. queue' \subseteq Candidates /\ idle' \in 0 .. input'.concurrency
    BY <1>1, <1>2, Tiers, InputTypes
  <2>. QED BY <1>1, <2>1, <2>2 DEF GoTypeOK
<1>4. Counted'
  BY <1>2, NoneLeft DEF Counted
<1>5. Handed'
  BY DEF Handed, T, Answered
<1>6. Known' /\ Fastest'
  BY DEF Known, Fastest, T, Accepted, Preferred
<1>7. Left'
  BY DEF Left, GoTypeOK
<1>. QED BY <1>3, <1>4, <1>5, <1>6, <1>7

\* So does every step,
LEMMA NextGInv == ASSUME GInv, Next PROVE GInv'
<1>1. CASE Scanning
  BY <1>1, DispatchInv, LookInv, ReportInv, CloseJobsInv, ReturnInv DEF Scanning
<1>2. CASE \E n \in Candidates : Drain(n)
  BY <1>2, DrainInv
<1>3. CASE Rest
  BY <1>3 DEF Rest, vars, goVars, scanVars, GInv, GoTypeOK, Counted, Workers, Handed, T, Answered,
              Known, Fastest, Accepted, Preferred, Fast, Left
<1>. QED BY <1>1, <1>2, <1>3, CancelInv, NextScanInv DEF Next

\* and one that changes nothing.
LEMMA StutterGInv == ASSUME GInv, UNCHANGED vars PROVE GInv'
BY DEF vars, goVars, scanVars, GInv, GoTypeOK, Counted, Workers, Handed, T, Answered,
       Known, Fastest, Accepted, Preferred, Fast, Left

-----------------------------------------------------------------------------
(* Each action is a step of Scan, or none *)

\* A probe that counts is an answer.
LEMMA ReportRefines ==
    ASSUME GInv, NEW n \in Candidates, Report(n) PROVE Answer(n) \/ UNCHANGED scanVars
<1> USE DEF Report, GInv
<1>1. CASE ~Counts
  BY <1>1 DEF scanVars
<1>2. CASE Counts
  <2>1. outcome = Open /\ ~Accepted
    BY <1>2 DEF Known, Counts
  <2>2. n \notin Answered /\ n \in T
    BY DEF Handed
  <2>3. n \in Preferred \/ NoneIn(Preferred)
    <3>1. CASE stage = "preferred"
      BY <3>1, <2>2 DEF T, Preferred
    <3>2. CASE stage = "all"
      <4>1. Preferred \subseteq Answered /\ healthy \cap Preferred = {}
        BY <3>2 DEF Known, T, TierOf, Preferred
      <4>. QED BY <4>1 DEF NoneIn, Over
    <3>. QED BY <3>1, <3>2 DEF GoTypeOK
  <2>. QED BY <1>2, <2>1, <2>2, <2>3 DEF Answer, Counts
<1>. QED BY <1>1, <1>2

\* Returning chooses the best, gives up, abandons, or goes on.
LEMMA ReturnRefines == ASSUME GInv, Return PROVE ScanNext \/ UNCHANGED scanVars
<1> USE ScanConstantsOK DEF Return, Cancelled, GInv
<1>0. outcome = Open /\ stage \in {"preferred", "all"}
  BY DEF Known, GoTypeOK
<1>1. CASE ~cancelled /\ best = Nobody /\ stage = "preferred"
  BY <1>1 DEF scanVars
<1>2. CASE cancelled
  BY <1>0, <1>2 DEF Abandon, ScanNext
<1>3. CASE ~cancelled /\ accepted
  <2>1. PICK m \in healthy : Fast(m)
    BY <1>0, <1>3 DEF Known, Accepted
  <2>2. best \in healthy /\ input.delay[best] <= input.delay[m] /\ best # Nobody
    BY <1>0, <2>1 DEF Fastest
  <2>3. Fast(best)
    <3>1. input.delay[best] \in Nat /\ input.delay[m] \in Nat /\ input.expected \in Nat
      BY <2>1, <2>2, InputTypes DEF GoTypeOK
    <3>. QED BY <2>1, <2>2, <3>1 DEF Fast
  <2>4. Choose(best)
    BY <1>0, <1>3, <2>2, <2>3 DEF Choose
  <2>. QED BY <2>2, <2>4 DEF ScanNext, GoTypeOK
<1>4. CASE ~cancelled /\ ~accepted /\ ~(best = Nobody /\ stage = "preferred")
  <2>1. T \subseteq Answered /\ ~Accepted
    BY <1>0, <1>4, TierDone DEF Known
  <2>2. stage = "all" => NoneIn(Preferred)
    BY DEF Known, T, TierOf, Preferred, NoneIn, Over
  <2>3. CASE best = Nobody
    <3>1. stage = "all" /\ healthy = {}
      BY <1>0, <1>4, <2>3 DEF Fastest
    <3>2. NoneIn(Others)
      BY <2>1, <3>1 DEF T, Others, NoneIn, Over
    <3>3. GiveUp
      BY <1>0, <1>4, <2>2, <2>3, <3>1, <3>2 DEF GiveUp
    <3>. QED BY <3>3 DEF ScanNext
  <2>4. CASE best # Nobody
    <3>1. FastestIn(best, T)
      BY <1>0, <2>4 DEF Fastest, Known, FastestIn
    <3>2. Over(T)
      BY <2>1 DEF Over
    <3>3. outcome' = best /\ UNCHANGED <<input, healthy, failed, lost>>
      BY <1>4, <2>4
    <3>4. CASE stage = "preferred"
      <4>1. T = Preferred
        BY <3>4 DEF T, Preferred
      <4>2. Choose(best)
        BY <1>0, <2>1, <3>1, <3>2, <3>3, <4>1 DEF Choose
      <4>. QED BY <2>4, <4>2 DEF ScanNext, GoTypeOK
    <3>5. CASE stage = "all"
      <4>1. T = Others
        BY <3>5 DEF T, Others
      <4>2. Choose(best)
        BY <1>0, <2>1, <2>2, <3>1, <3>2, <3>3, <3>5, <4>1 DEF Choose
      <4>. QED BY <2>4, <4>2 DEF ScanNext, GoTypeOK
    <3>. QED BY <1>0, <3>4, <3>5
  <2>. QED BY <2>3, <2>4
<1>. QED BY <1>1, <1>2, <1>3, <1>4

\* Every step of the Go scan is one of Scan, or changes nothing it sees.
LEMMA NextRefines == ASSUME GInv, [Next]_vars PROVE [ScanNext]_scanVars
<1>1. ASSUME NEW n \in Candidates, Dispatch(n) \/ Look(n) \/ Drain(n) PROVE UNCHANGED scanVars
  BY <1>1 DEF Dispatch, Look, Drain
<1>2. ASSUME NEW n \in Candidates, Report(n) PROVE [ScanNext]_scanVars
  BY <1>2, ReportRefines DEF ScanNext
<1>3. CASE NextScan
  <2>1. outcome # Open
    BY <1>3 DEF NextScan, GInv, Known
  <2>. QED BY <1>3, <2>1 DEF NextScan, Again, ScanNext
<1>4. CASE CloseJobs \/ Cancel \/ Rest \/ UNCHANGED vars
  BY <1>4 DEF CloseJobs, Cancel, Rest, vars
<1>. QED BY <1>1, <1>2, <1>3, <1>4, ReturnRefines DEF Next, Scanning

-----------------------------------------------------------------------------
(* A scan neither blocks nor goes round in circles *)

\* One of the guards of Scanning holds: the dispatcher can hand a member over or
\* close the channel, a worker can go on, or testAll can return.
CanGoOn ==
    stage # "idle" =>
        \/ step = "dispatch" /\ (LoopEnds \/ (queue # {} /\ idle > 0))
        \/ took \cup testing # {}
        \/ step = "wait" /\ (accepted \/ took \cup testing = {})

\* What a scan still has to do: a queued member is handed over, looked at and
\* probed, and after the preferred tier there may be the other one.
Effort ==
    IF stage = "idle" THEN 0
    ELSE (IF stage = "preferred" THEN 3 * Cardinality(Candidates) + 2 ELSE 0)
         + 3 * Cardinality(queue) + 2 * Cardinality(took) + Cardinality(testing)
         + (IF step = "dispatch" THEN 2 ELSE 1)

\* Every step of a scan brings it nearer to its end, and nothing sets it back.
Shrinks == stage # "idle" => Effort' <= Effort /\ (Scanning => Effort' < Effort)

\* Without an acceptance or a cancelled context a tier with members has a worker,
\* and each worker waits or has a member.
LEMMA GuardHolds == ASSUME GInv PROVE CanGoOn
<1>0. step \in {"dispatch", "wait"}
  BY DEF GInv, GoTypeOK
<1> SUFFICES ASSUME stage # "idle", step = "dispatch", ~LoopEnds, took \cup testing = {}
             PROVE  queue # {} /\ idle > 0
  BY <1>0 DEF CanGoOn
<1>1. queue # {} /\ ~accepted /\ ~cancelled
  BY DEF LoopEnds
<1>2. idle + Cardinality(took) + Cardinality(testing) = Workers(stage, input)
  BY <1>1 DEF GInv, Counted
<1>3. Cardinality(took) = 0 /\ Cardinality(testing) = 0
  BY NoneLeft
<1>4. T # {} /\ input \in Inputs
  BY <1>1 DEF GInv, Handed, GoTypeOK
<1>5. Cardinality(T) \in Nat \ {0}
  BY <1>4, Tiers, FS_EmptySet DEF T
<1>6. input.concurrency \in Nat \ {0}
  BY <1>4, InputTypes
<1>7. Workers(stage, input) > 0
  BY <1>5, <1>6 DEF Workers, T
<1>8. idle \in Nat
  BY <1>6 DEF GInv, GoTypeOK
<1>. QED BY <1>1, <1>2, <1>3, <1>7, <1>8

\* The sizes are numbers.
LEMMA Sizes ==
    ASSUME GInv
    PROVE  /\ Cardinality(queue) \in Nat /\ Cardinality(took) \in Nat /\ Cardinality(testing) \in Nat
           /\ Cardinality(Candidates) \in Nat /\ Effort \in Nat
<1>1. /\ Cardinality(queue) \in Nat /\ Cardinality(took) \in Nat /\ Cardinality(testing) \in Nat
      /\ Cardinality(Candidates) \in Nat
  BY Countable DEF GInv, GoTypeOK
<1>. QED BY <1>1 DEF Effort

LEMMA NextSizes == (GInv => Effort \in Nat)'
<1>1. GInv => Effort \in Nat
  BY Sizes
<1>. QED BY <1>1, PTL

\* Handing over, looking, probing and closing each take one part away.
LEMMA TierShrinks ==
    ASSUME GInv, \/ \E n \in Candidates : Dispatch(n) \/ Look(n) \/ Report(n)
                 \/ CloseJobs
    PROVE  Effort' < Effort
<1> USE Sizes DEF GInv, Effort
<1>1. ASSUME NEW n \in Candidates, Dispatch(n) PROVE Effort' < Effort
  <2>1. n \in queue /\ n \notin took /\ queue \subseteq Candidates /\ took \subseteq Candidates
    BY <1>1 DEF Dispatch, Handed, GoTypeOK
  <2>2. Cardinality(queue') = Cardinality(queue) - 1 /\ Cardinality(took') = Cardinality(took) + 1
    BY <1>1, <2>1, OneLess, OneMore DEF Dispatch
  <2>. QED BY <1>1, <2>2 DEF Dispatch
<1>2. ASSUME NEW n \in Candidates, Look(n) PROVE Effort' < Effort
  <2>1. n \in took /\ n \notin testing /\ took \subseteq Candidates /\ testing \subseteq Candidates
    BY <1>2 DEF Look, Handed, GoTypeOK
  <2>2. Cardinality(took') = Cardinality(took) - 1 /\ Cardinality(testing \cup {n}) = Cardinality(testing) + 1
    BY <1>2, <2>1, OneLess, OneMore DEF Look
  <2>3. Cardinality(testing') <= Cardinality(testing) + 1 /\ Cardinality(testing') \in Nat
    BY <1>2, <2>2 DEF Look
  <2>. QED BY <1>2, <2>2, <2>3 DEF Look
<1>3. ASSUME NEW n \in Candidates, Report(n) PROVE Effort' < Effort
  <2>1. n \in testing /\ testing \subseteq Candidates
    BY <1>3 DEF Report, GoTypeOK
  <2>2. Cardinality(testing') = Cardinality(testing) - 1
    BY <1>3, <2>1, OneLess DEF Report
  <2>. QED BY <1>3, <2>2 DEF Report
<1>4. CASE CloseJobs
  BY <1>4 DEF CloseJobs
<1>. QED BY <1>1, <1>2, <1>3, <1>4

\* Returning takes the preferred tier away, or ends the scan.
LEMMA ReturnShrinks == ASSUME GInv, Return PROVE Effort' < Effort
<1> USE Sizes DEF GInv, Effort, Return
<1>1. CASE ~Cancelled /\ best = Nobody /\ stage = "preferred"
  <2>1. /\ queue' = TierOf("all", input) /\ took' = {} /\ testing' = {}
        /\ stage' = "all" /\ step' = "dispatch"
    BY <1>1 DEF Begin
  <2>2. TierOf("all", input) \subseteq Candidates
    BY Tiers DEF GoTypeOK
  <2>3. Cardinality(queue') \in Nat /\ Cardinality(queue') <= Cardinality(Candidates)
    BY <2>1, <2>2, Countable, ScanConstantsOK, FS_Subset
  <2>4. Cardinality(took') = 0 /\ Cardinality(testing') = 0
    BY <2>1, NoneLeft
  <2>5. Effort' = 3 * Cardinality(queue') + 2
    BY <2>1, <2>3, <2>4
  <2>6. Effort >= 3 * Cardinality(Candidates) + 3
    BY <1>1
  <2>. QED BY <2>3, <2>5, <2>6
<1>2. CASE ~(~Cancelled /\ best = Nobody /\ stage = "preferred")
  BY <1>2 DEF Idle
<1>. QED BY <1>1, <1>2

-----------------------------------------------------------------------------
(* The theorems *)

\* The invariant holds in every reachable state.
THEOREM GoScanInvariant == Spec => []GInv
<1>1. GInv /\ [Next]_vars => GInv'
  BY NextGInv, StutterGInv
<1>. QED BY InitGInv, <1>1, PTL DEF Spec

\* testAll()'s variables are well typed: never more idle workers than
\* `concurrency`, and no probe outlives more scans than there were.
THEOREM GoScanTyped == Spec => []GoTypeOK
<1>1. GInv => GoTypeOK
  BY DEF GInv
<1>. QED BY <1>1, GoScanInvariant, PTL

\* Each member is queued, with one worker, or answered, and no worker is lost
\* before an acceptance or a cancelled context.
THEOREM HandsOverOnce == Spec => []HandedOverOnce
<1>1. GInv => HandedOverOnce
  BY DEF GInv, Counted, Handed, HandedOverOnce, T
<1>. QED BY <1>1, GoScanInvariant, PTL

\* After an acceptance no worker of testAll() begins another probe.
THEOREM AcceptanceIsFinal == Spec => QueuedNeverProbed
<1>1. [Next]_vars => [accepted => testing' \subseteq testing]_vars
  <2>1. ASSUME NEW n \in Candidates, Dispatch(n) \/ Look(n) \/ Report(n) \/ Drain(n), accepted
        PROVE  testing' \subseteq testing
    BY <2>1 DEF Dispatch, Look, MayTest, Report, Drain
  <2>2. ASSUME CloseJobs \/ Return \/ Cancel \/ NextScan \/ Rest, accepted
        PROVE  testing' \subseteq testing
    BY <2>2 DEF CloseJobs, Return, Begin, Idle, Cancel, NextScan, Rest, vars, goVars
  <2>. QED BY <2>1, <2>2 DEF Next, Scanning
<1>. QED BY <1>1, PTL DEF Spec, QueuedNeverProbed

\* findReplacement() and testAll() implement what the documentation promises of
\* a scan.
THEOREM GoScanImplementsScan == Spec => ScanSpec
<1>1. Init => ScanInit
  BY DEF Init
<1>2. GInv /\ [Next]_vars => [ScanNext]_scanVars
  BY NextRefines
<1>. QED BY <1>1, <1>2, GoScanInvariant, PTL DEF Spec, ScanSpec

\* The hand-over never blocks: "close(jobs)" and the workers' channel leave no
\* state in which the dispatcher waits for a worker, the workers for the
\* dispatcher, and testAll() for both.
THEOREM ScanCanGoOn == Spec => []CanGoOn
BY GuardHolds, GoScanInvariant, PTL

\* Every step of findReplacement() and testAll() lessens what the scan has to do.
\* With ScanCanGoOn it is what ScanEnds needs besides fairness.
THEOREM ScanWearsDown == Spec => [][Shrinks]_vars
<1>1. GInv /\ [Next]_vars => [Shrinks]_vars
  <2> SUFFICES ASSUME GInv, Next, stage # "idle"
               PROVE  Effort' <= Effort /\ (Scanning => Effort' < Effort)
    BY DEF Shrinks
  <2>1. GInv'
    BY NextGInv
  <2>2. Effort \in Nat /\ Effort' \in Nat
    BY <2>1, Sizes, NextSizes
  <2>3. Scanning => Effort' < Effort
    BY TierShrinks, ReturnShrinks DEF Scanning
  <2>4. ASSUME ~Scanning PROVE Effort' = Effort
    BY <2>4 DEF Next, Drain, Cancel, NextScan, Rest, Effort, vars, goVars
  <2>. QED BY <2>2, <2>3, <2>4
<1>. QED BY <1>1, GoScanInvariant, PTL DEF Spec
=============================================================================

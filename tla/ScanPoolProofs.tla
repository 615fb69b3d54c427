--------------------------- MODULE ScanPoolProofs ---------------------------
(***************************************************************************)
(* Proofs about ScanPool, for any candidates, delays, settings, panics and *)
(* any number of scans: its types, that the pool stays full while members  *)
(* are queued, that the Rust scan implements Scan, and that each of its    *)
(* steps brings it nearer to its end.                                      *)
(*                                                                         *)
(* The invariant says where each member of the tier is, that every probe   *)
(* the pool lacks was lost in this tier, and what has been found so far.   *)
(***************************************************************************)
EXTENDS ScanPool, FiniteSetTheorems, TLAPS

Testing == stage \in {"preferred", "all"}

\* Each member of the tier is queued, in the pool, or answered.
Sorted ==
    Testing =>
        /\ queue \cup jobs \subseteq Tier /\ Tier \subseteq queue \cup jobs \cup Answered
        /\ queue \cap (jobs \cup Answered) = {} /\ jobs \cap Answered = {}

\* What is known of the tiers.
Known ==
    /\ outcome = Open <=> stage # "idle"
    /\ Testing => healthy \subseteq Tier /\ ~Accepted
    /\ stage = "preferred" => Answered \subseteq Preferred
    /\ stage = "all" => Over(Preferred)
    /\ stage = "return" => best \in healthy /\ Fast(best)

\* best is the fastest of the healthy members.
Fastest ==
    Testing =>
        /\ best = Nobody <=> healthy = {}
        /\ best # Nobody => best \in healthy /\ \A m \in healthy : input.delay[best] <= input.delay[m]

\* A scan leaves each probe behind at most once.
Left == \A n \in Candidates : background[n] <= (IF stage = "idle" THEN scans ELSE scans - 1)

PInv == PoolTypeOK /\ Sorted /\ Known /\ Fastest /\ Left /\ PoolFull

-----------------------------------------------------------------------------
(* Facts about the constants *)

\* Delays are numbers, and the outcomes that are no candidate differ.
LEMMA InputTypes ==
    ASSUME NEW in \in Inputs
    PROVE  /\ in.preferred \subseteq Candidates
           /\ in.delay \in [Candidates -> Nat] /\ in.expected \in Nat
           /\ in.concurrency \in Nat /\ in.concurrency > 0
           /\ Open \notin Candidates /\ Nobody \notin Candidates /\ Abandoned \notin Candidates
<1>1. /\ in.preferred \in SUBSET Candidates /\ in.delay \in [Candidates -> Delays]
      /\ in.expected \in Expecteds /\ in.concurrency \in Concurrencies
  BY DEF Inputs
<1>2. in.delay \in [Candidates -> Nat]
  BY <1>1, ScanConstantsOK
<1>3. in.concurrency \in Nat \ {0} /\ in.expected \in Nat
  BY <1>1, ScanConstantsOK
<1>4. Open \notin Candidates /\ Nobody \notin Candidates /\ Abandoned \notin Candidates
  BY ScanConstantsOK
<1>. QED BY <1>1, <1>2, <1>3, <1>4

\* A tier is a set of candidates.
LEMMA Tiers == ASSUME NEW in \in Inputs, NEW s PROVE TierOf(s, in) \subseteq Candidates
BY InputTypes DEF TierOf

\* A set of candidates is finite.
LEMMA Countable ==
    ASSUME NEW S \in SUBSET Candidates
    PROVE  IsFiniteSet(S) /\ Cardinality(S) \in Nat
BY ScanConstantsOK, FS_Subset, FS_CardinalityType

\* One member more, one less, or one for another.
LEMMA OneMore ==
    ASSUME NEW S \in SUBSET Candidates, NEW n, n \notin S
    PROVE  Cardinality(S \cup {n}) = Cardinality(S) + 1
BY Countable, FS_AddElement

LEMMA OneLess ==
    ASSUME NEW S \in SUBSET Candidates, NEW n \in S
    PROVE  Cardinality(S \ {n}) = Cardinality(S) - 1
BY Countable, FS_RemoveElement

LEMMA Exchange ==
    ASSUME NEW S \in SUBSET Candidates, NEW n \in S, NEW m \in Candidates \ S
    PROVE  Cardinality((S \ {n}) \cup {m}) = Cardinality(S)
<1>1. Cardinality(S \ {n}) = Cardinality(S) - 1 /\ Cardinality(S) \in Nat
  BY OneLess, Countable
<1>2. Cardinality((S \ {n}) \cup {m}) = Cardinality(S \ {n}) + 1
  BY OneMore
<1>. QED BY <1>1, <1>2

\* Nobody is in an empty set.
LEMMA NoneLeft == Cardinality({}) = 0
BY FS_EmptySet

-----------------------------------------------------------------------------
(* The beginning of a tier *)

\* A tier of which nobody has answered begins with a full pool or an empty queue.
LEMMA BeginPool ==
    ASSUME NEW in \in Inputs, NEW s, NEW js \in First(s, in)
    PROVE  /\ js \subseteq TierOf(s, in) /\ js \subseteq Candidates
           /\ Cardinality(js) <= in.concurrency
           /\ TierOf(s, in) \ js # {} => Cardinality(js) = in.concurrency
BY Tiers DEF First

\* The first tier of the first scan.
LEMMA InitPInv == Init => PInv
<1> SUFFICES ASSUME Init PROVE PInv
  OBVIOUS
<1> USE ScanConstantsOK, MaxScansOK DEF Init, ScanInit, Fresh
<1>1. /\ jobs \subseteq Preferred /\ jobs \subseteq Candidates
      /\ Cardinality(jobs) <= input.concurrency
      /\ queue # {} => Cardinality(jobs) = input.concurrency
  BY BeginPool DEF Preferred
<1>2. PoolTypeOK
  <2>1. background \in [Candidates -> 0 .. MaxScans] /\ scans \in 1 .. MaxScans
    OBVIOUS
  <2>2. queue \subseteq Candidates
    BY Tiers DEF Preferred
  <2>. QED BY <1>1, <2>1, <2>2 DEF PoolTypeOK
<1>3. Sorted /\ Known /\ Fastest /\ Left
  BY <1>1 DEF Sorted, Known, Fastest, Left, Testing, Tier, Preferred, Answered, Accepted
<1>4. PoolFull
  <2>1. lost \cap Tier = {} /\ Cardinality(jobs) \in Nat
    BY <1>1, Countable
  <2>. QED BY <1>1, <2>1, NoneLeft, InputTypes DEF PoolFull
<1>. QED BY <1>2, <1>3, <1>4 DEF PInv

-----------------------------------------------------------------------------
(* Each action preserves the invariant *)

\* A probe ends; nothing is counted yet.
LEMMA FinishInv == ASSUME PInv, NEW n \in Candidates, Finish(n) PROVE PInv'
<1> USE DEF Finish, PInv, scanVars
<1>1. PoolTypeOK' /\ Left'
  BY DEF PoolTypeOK, Left
<1>2. Sorted' /\ Known' /\ Fastest' /\ PoolFull'
  BY DEF Sorted, Known, Fastest, PoolFull, Testing, Tier, Preferred, Answered, Accepted, Fast, Over
<1>. QED BY <1>1, <1>2

\* The faster of two.
LEMMA Best ==
    ASSUME PInv, Testing, NEW n \in Candidates
    PROVE  /\ BestWith(n) \in healthy \cup {n}
           /\ \A m \in healthy \cup {n} : input.delay[BestWith(n)] <= input.delay[m]
<1>1. input.delay \in [Candidates -> Nat] /\ healthy \subseteq Candidates /\ Nobody \notin Candidates
  BY InputTypes DEF PInv, PoolTypeOK
<1>2. CASE best = Nobody
  BY <1>1, <1>2 DEF PInv, Fastest, BestWith
<1>3. CASE best # Nobody
  BY <1>1, <1>3 DEF PInv, Fastest, BestWith
<1>. QED BY <1>2, <1>3

\* The pool stays full when the next queued probe starts.
LEMMA Spawned ==
    ASSUME PInv, Testing, NEW n \in jobs, SpawnNext(n)
    PROVE  /\ jobs' \cup queue' = (jobs \ {n}) \cup queue /\ jobs' \cap queue' = {}
           /\ jobs \ {n} \subseteq jobs' /\ n \notin jobs'
           /\ Cardinality(jobs') <= Cardinality(jobs)
           /\ queue' # {} => Cardinality(jobs') = Cardinality(jobs)
           /\ queue' # {} => queue # {}
<1> USE DEF PInv
<1>1. jobs \subseteq Candidates /\ queue \subseteq Candidates /\ queue \cap jobs = {}
  BY DEF PoolTypeOK, Sorted
<1>2. Cardinality(jobs \ {n}) = Cardinality(jobs) - 1 /\ Cardinality(jobs) \in Nat
  BY <1>1, OneLess, Countable
<1>3. CASE queue = {} /\ jobs' = jobs \ {n} /\ queue' = queue
  BY <1>2, <1>3
<1>4. ASSUME NEW m \in queue, jobs' = (jobs \ {n}) \cup {m}, queue' = queue \ {m}
      PROVE  /\ Cardinality(jobs') = Cardinality(jobs)
             /\ jobs' \cup queue' = (jobs \ {n}) \cup queue /\ jobs' \cap queue' = {}
             /\ jobs \ {n} \subseteq jobs' /\ n \notin jobs' /\ queue # {}
  BY <1>1, <1>4, Exchange
<1>. QED BY <1>2, <1>3, <1>4 DEF SpawnNext

\* The joined probe answered, and is not accepted.
LEMMA JoinHealthyInv ==
    ASSUME PInv, NEW n \in ready, Testing,
           healthy' = healthy \cup {n}, best' = BestWith(n), ~Accepts(n),
           SpawnNext(n), ready' = ready \ {n},
           UNCHANGED <<stage, failed, lost, input, outcome, background, scans>>
    PROVE  PInv'
<1> USE DEF PInv
<1>1. /\ n \in jobs /\ n \in Candidates /\ n \in Tier /\ n \notin Answered
      /\ jobs \subseteq Candidates /\ queue \subseteq Candidates
  BY DEF PoolTypeOK, Sorted
<1>2. /\ jobs' \cup queue' = (jobs \ {n}) \cup queue /\ jobs' \cap queue' = {}
      /\ jobs \ {n} \subseteq jobs' /\ n \notin jobs'
      /\ Cardinality(jobs') <= Cardinality(jobs)
      /\ queue' # {} => Cardinality(jobs') = Cardinality(jobs)
      /\ queue' # {} => queue # {}
  BY <1>1, Spawned
<1>3. PoolTypeOK'
  <2>1. best' \in Candidates \cup {Nobody}
    BY <1>1, Best DEF PoolTypeOK
  <2>2. jobs' \subseteq Candidates /\ queue' \subseteq Candidates /\ ready' \subseteq jobs'
    BY <1>1, <1>2 DEF PoolTypeOK
  <2>. QED BY <1>1, <2>1, <2>2 DEF PoolTypeOK
<1>4. Sorted'
  <2>1. Answered' = Answered \cup {n} /\ Tier' = Tier
    BY DEF Answered, Tier
  <2>2. n \notin queue
    BY <1>1 DEF Sorted
  <2>. QED BY <1>1, <1>2, <2>1, <2>2 DEF Sorted, Testing
<1>5. Known'
  <2>1. ~Accepted'
    BY DEF Known, Accepted, Accepts, Fast
  <2>2. Answered' = Answered \cup {n} /\ Tier' = Tier /\ Preferred' = Preferred
    BY DEF Answered, Tier, Preferred
  <2>3. Over(Preferred) => Over(Preferred)'
    BY <2>2 DEF Over
  <2>. QED BY <1>1, <2>1, <2>2, <2>3 DEF Known, Testing, Tier, Preferred
<1>6. Fastest'
  BY <1>1, Best, InputTypes DEF Fastest, PoolTypeOK, Testing
<1>7. Left'
  BY DEF Left
<1>8. PoolFull'
  <2>1. Cardinality(jobs) \in Nat /\ Cardinality(jobs') \in Nat /\ input.concurrency \in Nat
    BY <1>3, Countable, InputTypes DEF PoolTypeOK
  <2>. QED BY <1>2, <2>1 DEF PoolFull, Tier
<1>. QED BY <1>3, <1>4, <1>5, <1>6, <1>7, <1>8

\* It is accepted: the loop returns.
LEMMA JoinAcceptInv ==
    ASSUME PInv, NEW n \in ready, Testing,
           healthy' = healthy \cup {n}, best' = BestWith(n), Accepts(n),
           stage' = "return", jobs' = jobs \ {n}, ready' = ready \ {n},
           UNCHANGED <<queue, failed, lost, input, outcome, background, scans>>
    PROVE  PInv'
<1> USE DEF PInv
<1>1. n \in Candidates
  BY DEF PoolTypeOK
<1>2. best' \in healthy' /\ Fast(best')
  <2>1. best' \in healthy' /\ input.delay[best'] <= input.delay[n]
    BY <1>1, Best
  <2>2. input.delay[best'] \in Nat /\ input.delay[n] \in Nat /\ input.expected \in Nat
    BY <1>1, <2>1, InputTypes DEF PoolTypeOK
  <2>. QED BY <2>1, <2>2 DEF Accepts, Fast
<1>3. PoolTypeOK'
  BY <1>1, <1>2 DEF PoolTypeOK
<1>4. Sorted' /\ Fastest' /\ PoolFull'
  BY DEF Sorted, Fastest, PoolFull, Testing
<1>5. Known'
  BY <1>2 DEF Known, Testing, Fast
<1>6. Left'
  BY DEF Left, Testing
<1>. QED BY <1>3, <1>4, <1>5, <1>6

\* It failed.
LEMMA JoinFailedInv ==
    ASSUME PInv, NEW n \in ready, Testing,
           failed' = failed \cup {n}, SpawnNext(n), ready' = ready \ {n},
           UNCHANGED <<healthy, lost, best, stage, input, outcome, background, scans>>
    PROVE  PInv'
<1> USE DEF PInv
<1>1. /\ n \in jobs /\ n \in Candidates /\ n \in Tier /\ n \notin Answered
      /\ jobs \subseteq Candidates /\ queue \subseteq Candidates
  BY DEF PoolTypeOK, Sorted
<1>2. /\ jobs' \cup queue' = (jobs \ {n}) \cup queue /\ jobs' \cap queue' = {}
      /\ jobs \ {n} \subseteq jobs' /\ n \notin jobs'
      /\ Cardinality(jobs') <= Cardinality(jobs)
      /\ queue' # {} => Cardinality(jobs') = Cardinality(jobs)
      /\ queue' # {} => queue # {}
  BY <1>1, Spawned
<1>3. PoolTypeOK'
  <2>1. jobs' \subseteq Candidates /\ queue' \subseteq Candidates /\ ready' \subseteq jobs'
    BY <1>1, <1>2 DEF PoolTypeOK
  <2>. QED BY <1>1, <2>1 DEF PoolTypeOK
<1>4. Sorted'
  <2>1. Answered' = Answered \cup {n} /\ Tier' = Tier
    BY DEF Answered, Tier
  <2>2. n \notin queue
    BY <1>1 DEF Sorted
  <2>. QED BY <1>1, <1>2, <2>1, <2>2 DEF Sorted, Testing
<1>5. Known'
  <2>1. Answered' = Answered \cup {n} /\ Tier' = Tier /\ Preferred' = Preferred
    BY DEF Answered, Tier, Preferred
  <2>2. Over(Preferred) => Over(Preferred)'
    BY <2>1 DEF Over
  <2>. QED BY <1>1, <2>1, <2>2 DEF Known, Testing, Tier, Preferred, Accepted, Fast
<1>6. Fastest' /\ Left'
  BY DEF Fastest, Testing, Left
<1>7. PoolFull'
  <2>1. Cardinality(jobs) \in Nat /\ Cardinality(jobs') \in Nat /\ input.concurrency \in Nat
    BY <1>3, Countable, InputTypes DEF PoolTypeOK
  <2>. QED BY <1>2, <2>1 DEF PoolFull, Tier
<1>. QED BY <1>3, <1>4, <1>5, <1>6, <1>7

\* It panicked: no probe follows.
LEMMA JoinLostInv ==
    ASSUME PInv, NEW n \in ready, Testing,
           lost' = lost \cup {n}, jobs' = jobs \ {n}, ready' = ready \ {n},
           UNCHANGED <<healthy, failed, best, queue, stage, input, outcome, background, scans>>
    PROVE  PInv'
<1> USE DEF PInv
<1>1. /\ n \in jobs /\ n \in Candidates /\ n \in Tier /\ n \notin Answered
      /\ jobs \subseteq Candidates /\ queue \subseteq Candidates /\ lost \subseteq Candidates
  BY DEF PoolTypeOK, Sorted
<1>2. PoolTypeOK'
  BY <1>1 DEF PoolTypeOK
<1>3. Sorted'
  BY <1>1 DEF Sorted, Testing, Answered, Tier
<1>4. Known'
  <2>1. Answered' = Answered \cup {n} /\ Tier' = Tier /\ Preferred' = Preferred
    BY DEF Answered, Tier, Preferred
  <2>2. stage = "all" => Preferred \cap lost' = Preferred \cap lost
    BY <1>1 DEF Tier, TierOf, Preferred
  <2>3. stage = "all" => Over(Preferred)'
    BY <2>1, <2>2 DEF Known, Over
  <2>. QED BY <1>1, <2>1, <2>3 DEF Known, Testing, Tier, Preferred, Accepted, Fast
<1>5. Fastest' /\ Left'
  BY DEF Fastest, Testing, Left
<1>6. PoolFull'
  <2>1. Cardinality(jobs') = Cardinality(jobs) - 1 /\ Cardinality(jobs) \in Nat
    BY <1>1, OneLess, Countable
  <2>2. lost' \cap Tier = (lost \cap Tier) \cup {n} /\ n \notin lost \cap Tier
    BY <1>1 DEF Answered
  <2>3. Cardinality(lost' \cap Tier) = Cardinality(lost \cap Tier) + 1 /\ Cardinality(lost \cap Tier) \in Nat
    BY <1>1, <2>2, OneMore, Countable
  <2>4. input.concurrency \in Nat /\ Tier' = Tier
    BY InputTypes DEF PoolTypeOK, Tier
  <2>. QED BY <2>1, <2>3, <2>4 DEF PoolFull
<1>. QED BY <1>2, <1>3, <1>4, <1>5, <1>6

\* One turn of the loop is one of these.
LEMMA JoinInv == ASSUME PInv, NEW n \in Candidates, Join(n) PROVE PInv'
BY JoinHealthyInv, JoinAcceptInv, JoinFailedInv, JoinLostInv DEF Join, Testing

\* The probes in flight go to the background.
LEMMA AcceptInv == ASSUME PInv, Accept PROVE PInv'
<1> USE ScanConstantsOK DEF Accept, PInv
<1>1. best \in Candidates
  BY DEF Known, PoolTypeOK
<1>2. background' \in [Candidates -> 0 .. MaxScans] /\ \A n \in Candidates : background'[n] <= scans
  BY MaxScansOK DEF PoolTypeOK, Left
<1>3. PoolTypeOK'
  BY <1>1, <1>2 DEF PoolTypeOK
<1>4. outcome' # Open
  BY <1>1
<1>5. Sorted' /\ Known' /\ Fastest' /\ PoolFull'
  BY <1>4 DEF Sorted, Known, Fastest, PoolFull, Testing
<1>6. Left'
  BY <1>2 DEF Left
<1>. QED BY <1>3, <1>5, <1>6

\* The tier is done: all answered, or as many were lost as run at once.
LEMMA TierDone == ASSUME PInv, Testing, jobs = {} PROVE Over(Tier)
<1> USE DEF PInv
<1>1. CASE queue = {}
  BY <1>1 DEF Sorted, Over
<1>2. CASE queue # {}
  <2>1. Cardinality(lost \cap Tier) \in Nat /\ input.concurrency \in Nat
    BY Countable, InputTypes DEF PoolTypeOK
  <2>2. Tier \cap lost = lost \cap Tier
    OBVIOUS
  <2>3. Cardinality(jobs) + Cardinality(lost \cap Tier) = input.concurrency
    BY <1>2 DEF PoolFull, Testing
  <2>4. Cardinality(jobs) = 0
    <3>. HIDE DEF PInv
    <3>. QED BY NoneLeft
  <2>5. Cardinality(Tier \cap lost) = Cardinality(lost \cap Tier)
    <3>. HIDE DEF PInv
    <3>. QED BY <2>2
  <2>6. Cardinality(Tier \cap lost) >= input.concurrency
    <3>. HIDE DEF PInv
    <3>. QED BY <2>1, <2>3, <2>4, <2>5
  <2>. QED BY <2>6 DEF Over
<1>. QED BY <1>1, <1>2

\* The next tier begins, or the scan is over.
LEMMA EndTierInv == ASSUME PInv, EndTier PROVE PInv'
<1> USE ScanConstantsOK DEF EndTier, PInv
<1>1. CASE best = Nobody /\ stage = "preferred"
  <2> USE <1>1
  <2>1. healthy = {} /\ Answered \subseteq Preferred /\ Over(Preferred)
    BY TierDone DEF Fastest, Known, Testing, Tier, Preferred
  <2>2. PICK js \in First("all", input) :
           jobs' = js /\ queue' = TierOf("all", input) \ js /\ ready' = {} /\ best' = Nobody /\ stage' = "all"
    BY DEF Begin
  <2>3. /\ js \subseteq TierOf("all", input) /\ js \subseteq Candidates
        /\ Cardinality(js) <= input.concurrency
        /\ TierOf("all", input) \ js # {} => Cardinality(js) = input.concurrency
    BY BeginPool DEF PoolTypeOK
  <2>4. TierOf("all", input) \subseteq Candidates /\ TierOf("all", input) \cap Preferred = {}
    BY Tiers DEF PoolTypeOK, TierOf, Preferred
  <2>5. PoolTypeOK'
    BY <2>2, <2>3, <2>4 DEF PoolTypeOK
  <2>6. Sorted'
    BY <2>1, <2>2, <2>3, <2>4 DEF Sorted, Testing, Tier, Answered
  <2>7. Known' /\ Fastest'
    BY <2>1, <2>2 DEF Known, Fastest, Testing, Tier, Answered, Accepted, Preferred, Over
  <2>8. Left'
    BY <2>2 DEF Left
  <2>9. PoolFull'
    <3>1. lost' \cap Tier' = {}
      BY <2>1, <2>2, <2>4 DEF Answered, Tier
    <3>2. Cardinality(js) \in Nat
      BY <2>3, Countable
    <3>3. Cardinality(lost' \cap Tier') = 0 /\ jobs' = js /\ input' = input /\ queue' = TierOf("all", input) \ js
      BY <2>2, <3>1, NoneLeft
    <3>4. input.concurrency \in Nat
      BY InputTypes DEF PoolTypeOK
    <3>. QED BY <2>3, <3>2, <3>3, <3>4 DEF PoolFull
  <2>. QED BY <2>5, <2>6, <2>7, <2>8, <2>9
<1>2. CASE ~(best = Nobody /\ stage = "preferred")
  <2> USE <1>2
  <2>1. outcome' # Open
    BY InputTypes DEF PoolTypeOK
  <2>2. PoolTypeOK'
    BY DEF PoolTypeOK
  <2>3. Sorted' /\ Known' /\ Fastest' /\ PoolFull'
    BY <2>1 DEF Sorted, Known, Fastest, PoolFull, Testing
  <2>4. Left'
    BY DEF Left, PoolTypeOK
  <2>. QED BY <2>2, <2>3, <2>4
<1>. QED BY <1>1, <1>2

\* A probe in the background ends.
LEMMA DrainInv == ASSUME PInv, NEW n \in Candidates, Drain(n) PROVE PInv'
<1> USE DEF Drain, PInv, scanVars
<1>1. /\ background' \in [Candidates -> 0 .. MaxScans]
      /\ \A m \in Candidates : background'[m] <= background[m]
  BY MaxScansOK DEF PoolTypeOK
<1>2. PoolTypeOK'
  BY <1>1 DEF PoolTypeOK
<1>3. Left'
  BY <1>1, MaxScansOK DEF Left, PoolTypeOK
<1>4. Sorted' /\ Known' /\ Fastest' /\ PoolFull'
  BY DEF Sorted, Known, Fastest, PoolFull, Testing, Tier, Preferred, Answered, Accepted, Fast, Over
<1>. QED BY <1>2, <1>3, <1>4

\* An aborted checker drops both sets of probes.
LEMMA AbortTaskInv == ASSUME PInv, AbortTask PROVE PInv'
<1> USE ScanConstantsOK, MaxScansOK DEF AbortTask, PInv
<1>1. PoolTypeOK'
  BY DEF PoolTypeOK
<1>2. outcome' # Open
  OBVIOUS
<1>3. Sorted' /\ Known' /\ Fastest' /\ PoolFull'
  BY <1>2 DEF Sorted, Known, Fastest, PoolFull, Testing
<1>4. Left'
  BY DEF Left, PoolTypeOK
<1>. QED BY <1>1, <1>3, <1>4

\* The next scan begins as the first did.
LEMMA NextScanInv == ASSUME PInv, NextScan PROVE PInv'
<1> USE ScanConstantsOK, MaxScansOK DEF NextScan, PInv
<1>1. PICK js \in First("preferred", input') :
         jobs' = js /\ queue' = TierOf("preferred", input') \ js /\ ready' = {} /\ best' = Nobody /\ stage' = "preferred"
  BY DEF Begin
<1>2. /\ js \subseteq TierOf("preferred", input') /\ js \subseteq Candidates
      /\ Cardinality(js) <= input'.concurrency
      /\ TierOf("preferred", input') \ js # {} => Cardinality(js) = input'.concurrency
  BY BeginPool
<1>3. PoolTypeOK'
  <2>1. queue' \subseteq Candidates
    BY <1>1, Tiers
  <2>2. scans' \in 1 .. MaxScans
    BY DEF PoolTypeOK
  <2>. QED BY <1>1, <1>2, <2>1, <2>2 DEF PoolTypeOK
<1>4. Sorted' /\ Known' /\ Fastest'
  BY <1>1, <1>2 DEF Sorted, Known, Fastest, Testing, Tier, Answered, Accepted, Preferred
<1>5. Left'
  BY <1>1 DEF Left, PoolTypeOK
<1>6. PoolFull'
  <2>1. lost' \cap Tier' = {} /\ Cardinality(js) \in Nat
    BY <1>2, Countable
  <2>. QED BY <1>1, <1>2, <2>1, NoneLeft, InputTypes DEF PoolFull
<1>. QED BY <1>3, <1>4, <1>5, <1>6

\* So does every step,
LEMMA NextPInv == ASSUME PInv, Next PROVE PInv'
<1>1. CASE Rest
  BY <1>1 DEF Rest, vars, poolVars, scanVars, PInv, PoolTypeOK, Sorted, Known, Fastest, Left, PoolFull,
              Testing, Tier, Preferred, Answered, Accepted, Fast, Over
<1>. QED BY <1>1, FinishInv, JoinInv, AcceptInv, EndTierInv, DrainInv, AbortTaskInv, NextScanInv
         DEF Next, Scanning

\* and one that changes nothing.
LEMMA StutterPInv == ASSUME PInv, UNCHANGED vars PROVE PInv'
BY DEF vars, poolVars, scanVars, PInv, PoolTypeOK, Sorted, Known, Fastest, Left, PoolFull,
       Testing, Tier, Preferred, Answered, Accepted, Fast, Over

-----------------------------------------------------------------------------
(* Each action is a step of Scan, or none *)

\* A joined probe is an answer.
LEMMA JoinRefines == ASSUME PInv, NEW n \in Candidates, Join(n) PROVE Answer(n)
<1> USE DEF Join, PInv
<1>1. Testing /\ outcome = Open /\ ~Accepted
  BY DEF Known, Testing
<1>2. n \notin Answered /\ n \in Tier
  BY <1>1 DEF Sorted, PoolTypeOK
<1>3. n \in Preferred \/ NoneIn(Preferred)
  <2>1. CASE stage = "preferred"
    BY <1>2, <2>1 DEF Tier, Preferred
  <2>2. CASE stage = "all"
    BY <1>1, <2>2 DEF Known, Tier, TierOf, Preferred, NoneIn
  <2>. QED BY <1>1, <2>1, <2>2 DEF Testing
<1>. QED BY <1>1, <1>2, <1>3 DEF Answer

\* The early return chooses a member below expected-delay.
LEMMA AcceptRefines == ASSUME PInv, Accept PROVE ScanNext
<1>1. best \in Candidates /\ Choose(best)
  BY DEF Accept, PInv, Known, PoolTypeOK, Choose
<1>. QED BY <1>1 DEF ScanNext

\* The end of a tier chooses its fastest, gives up, or goes on.
LEMMA EndTierRefines == ASSUME PInv, EndTier PROVE ScanNext \/ UNCHANGED scanVars
<1> USE DEF EndTier, PInv
<1>0. Testing /\ outcome = Open /\ ~Accepted /\ Over(Tier)
  BY TierDone DEF Known, Testing
<1>1. CASE best = Nobody /\ stage = "preferred"
  BY <1>1 DEF scanVars
<1>2. CASE best = Nobody /\ stage = "all"
  <2>1. healthy = {} /\ Tier = Others /\ Over(Preferred)
    BY <1>0, <1>2 DEF Fastest, Known, Tier, Others
  <2>2. NoneIn(Preferred) /\ NoneIn(Others)
    BY <1>0, <2>1 DEF NoneIn
  <2>. QED BY <1>0, <1>2, <2>2 DEF GiveUp, ScanNext
<1>3. CASE best # Nobody
  <2>1. FastestIn(best, Tier) /\ best \in Candidates
    BY <1>0, <1>3 DEF Fastest, Known, FastestIn, PoolTypeOK
  <2>2. CASE stage = "preferred"
    <3>1. Tier = Preferred
      BY <2>2 DEF Tier, Preferred
    <3>. QED BY <1>0, <1>3, <2>1, <3>1 DEF Choose, ScanNext
  <2>3. CASE stage = "all"
    <3>1. Tier = Others /\ NoneIn(Preferred)
      BY <1>0, <2>3 DEF Tier, TierOf, Others, Preferred, NoneIn, Known
    <3>. QED BY <1>0, <1>3, <2>1, <3>1 DEF Choose, ScanNext
  <2>. QED BY <1>0, <2>2, <2>3 DEF Testing
<1>. QED BY <1>0, <1>1, <1>2, <1>3 DEF Testing

\* Every step of the Rust scan is one of Scan, or changes nothing it sees.
LEMMA NextRefines == ASSUME PInv, [Next]_vars PROVE [ScanNext]_scanVars
<1>1. ASSUME NEW n \in Candidates, Finish(n) \/ Drain(n) PROVE UNCHANGED scanVars
  BY <1>1 DEF Finish, Drain
<1>2. ASSUME NEW n \in Candidates, Join(n) PROVE ScanNext
  BY <1>2, JoinRefines DEF ScanNext
<1>3. CASE AbortTask
  <2>1. CASE outcome = Open
    BY <1>3, <2>1 DEF AbortTask, Abandon, ScanNext
  <2>2. CASE outcome # Open
    BY <1>3, <2>2 DEF AbortTask, scanVars
  <2>. QED BY <2>1, <2>2
<1>4. CASE NextScan
  <2>1. outcome # Open
    BY <1>4 DEF NextScan, PInv, Known
  <2>. QED BY <1>4, <2>1 DEF NextScan, Again, ScanNext
<1>5. CASE Rest \/ UNCHANGED vars
  BY <1>5 DEF Rest, vars
<1>. QED BY <1>1, <1>2, <1>3, <1>4, <1>5, AcceptRefines, EndTierRefines DEF Next, Scanning

-----------------------------------------------------------------------------
(* A scan does not go round in circles *)

\* What a scan still has to do: a queued member becomes a probe, a probe ends and
\* is joined, and after the preferred tier there may be the other one.
Effort ==
    IF stage = "idle" THEN 0
    ELSE (IF stage = "preferred" THEN 5 * Cardinality(Candidates) + 1 ELSE 0)
         + 3 * Cardinality(queue) + Cardinality(jobs) + Cardinality(jobs \ ready) + 1

\* Every step of a scan brings it nearer to its end, and nothing sets it back.
Shrinks == stage # "idle" => Effort' <= Effort /\ (Scanning => Effort' < Effort)

\* The sizes are numbers.
LEMMA Sizes ==
    ASSUME PInv
    PROVE  /\ Cardinality(queue) \in Nat /\ Cardinality(jobs) \in Nat /\ Cardinality(jobs \ ready) \in Nat
           /\ Cardinality(Candidates) \in Nat /\ Effort \in Nat
<1>1. queue \subseteq Candidates /\ jobs \subseteq Candidates /\ jobs \ ready \subseteq Candidates
  BY DEF PInv, PoolTypeOK
<1>2. /\ Cardinality(queue) \in Nat /\ Cardinality(jobs) \in Nat /\ Cardinality(jobs \ ready) \in Nat
      /\ Cardinality(Candidates) \in Nat
  BY <1>1, Countable
<1>. QED BY <1>2 DEF Effort

LEMMA NextSizes == (PInv => Effort \in Nat)'
<1>1. PInv => Effort \in Nat
  BY Sizes
<1>. QED BY <1>1, PTL

\* A probe that ends waits to be joined.
LEMMA FinishShrinks ==
    ASSUME PInv, stage # "idle", NEW n \in Candidates, Finish(n)
    PROVE  Effort' < Effort
<1>1. jobs \ ready \subseteq Candidates /\ n \in jobs \ ready
  BY DEF Finish, PInv, PoolTypeOK
<1>2. jobs' \ ready' = (jobs \ ready) \ {n}
  BY DEF Finish
<1>3. Cardinality(jobs' \ ready') = Cardinality(jobs \ ready) - 1
  BY <1>1, <1>2, OneLess
<1>. QED BY <1>1, <1>3, Sizes DEF Finish, Effort

\* A joined probe is gone, and one that replaces it was queued before.
LEMMA JoinShrinks == ASSUME PInv, NEW n \in Candidates, Join(n) PROVE Effort' < Effort
<1> USE DEF PInv
<1>1. /\ n \in ready /\ n \in jobs /\ ready' = ready \ {n} /\ Testing
      /\ jobs \subseteq Candidates /\ queue \subseteq Candidates /\ ready \subseteq jobs
      /\ queue \cap jobs = {}
  BY DEF Join, PoolTypeOK, Sorted, Testing
<1>2. Cardinality(jobs \ {n}) = Cardinality(jobs) - 1
  BY <1>1, OneLess
<1>3. CASE jobs' = jobs \ {n} /\ queue' = queue /\ stage' \in {stage, "return"}
  <2>1. jobs' \ ready' = jobs \ ready
    BY <1>1, <1>3
  <2>2. Cardinality(jobs') = Cardinality(jobs) - 1 /\ Cardinality(jobs' \ ready') = Cardinality(jobs \ ready)
    BY <1>2, <1>3, <2>1
  <2>3. CASE stage' = stage
    BY <1>1, <1>3, <2>2, <2>3, Sizes DEF Effort, Testing
  <2>4. CASE stage' = "return"
    BY <1>1, <1>3, <2>2, <2>4, Sizes DEF Effort, Testing
  <2>. QED BY <1>3, <2>3, <2>4
<1>4. ASSUME NEW m \in queue, jobs' = (jobs \ {n}) \cup {m}, queue' = queue \ {m}, stage' = stage
      PROVE  Effort' < Effort
  <2>1. Cardinality(jobs') = Cardinality(jobs)
    BY <1>1, <1>4, Exchange
  <2>2. Cardinality(queue') = Cardinality(queue) - 1
    BY <1>1, <1>4, OneLess
  <2>3. jobs' \ ready' = (jobs \ ready) \cup {m} /\ m \notin jobs \ ready
    BY <1>1, <1>4
  <2>4. Cardinality(jobs' \ ready') = Cardinality(jobs \ ready) + 1
    BY <1>1, <2>3, OneMore
  <2>. QED BY <1>1, <1>4, <2>1, <2>2, <2>4, Sizes DEF Effort, Testing
<1>. QED BY <1>3, <1>4 DEF Join, SpawnNext

\* The second tier is no greater than what the first one was counted for.
LEMMA EndTierShrinks == ASSUME PInv, EndTier PROVE Effort' < Effort
<1> USE Sizes DEF PInv, Effort
<1>1. CASE best = Nobody /\ stage = "preferred"
  <2>1. PICK js \in First("all", input) : jobs' = js /\ queue' = TierOf("all", input) \ js
    BY <1>1 DEF EndTier, Begin
  <2>2. stage' = "all" /\ ready' = {}
    BY <1>1 DEF EndTier, Begin
  <2>3. jobs' \subseteq Candidates /\ queue' \subseteq Candidates /\ jobs' \ ready' = jobs'
    BY <2>1, <2>2, BeginPool, Tiers DEF PoolTypeOK
  <2>4. /\ Cardinality(jobs') \in Nat /\ Cardinality(jobs') <= Cardinality(Candidates)
        /\ Cardinality(queue') \in Nat /\ Cardinality(queue') <= Cardinality(Candidates)
    BY <2>3, Countable, ScanConstantsOK, FS_Subset
  <2>5. Effort' = 3 * Cardinality(queue') + 2 * Cardinality(jobs') + 1
    BY <2>2, <2>3, <2>4
  <2>6. Effort >= 5 * Cardinality(Candidates) + 2
    BY <1>1
  <2>. QED BY <2>4, <2>5, <2>6
<1>2. CASE ~(best = Nobody /\ stage = "preferred")
  BY <1>2 DEF EndTier
<1>. QED BY <1>1, <1>2

-----------------------------------------------------------------------------
(* The theorems *)

\* The invariant holds in every reachable state.
THEOREM PoolInvariant == Spec => []PInv
<1>1. PInv /\ [Next]_vars => PInv'
  BY NextPInv, StutterPInv
<1>. QED BY InitPInv, <1>1, PTL DEF Spec

\* test_all()'s variables are well typed, and no probe outlives more scans than
\* there were.
THEOREM PoolTyped == Spec => []PoolTypeOK
<1>1. PInv => PoolTypeOK
  BY DEF PInv
<1>. QED BY <1>1, PoolInvariant, PTL

\* While members are queued the JoinSet holds exactly `concurrency` probes less
\* those of the tier that panicked, and it never holds more.
THEOREM PoolStaysFull == Spec => []PoolFull
<1>1. PInv => PoolFull
  BY DEF PInv
<1>. QED BY <1>1, PoolInvariant, PTL

\* replacement() and test_all() implement what the documentation promises of a
\* scan.
THEOREM PoolImplementsScan == Spec => ScanSpec
<1>1. Init => ScanInit
  BY DEF Init
<1>2. PInv /\ [Next]_vars => [ScanNext]_scanVars
  BY NextRefines
<1>. QED BY <1>1, <1>2, PoolInvariant, PTL DEF Spec, ScanSpec

\* Every step of replacement() and test_all() lessens what the scan has to do,
\* whatever probes answer, fail, panic or are dropped: it makes finitely many.
THEOREM PoolWearsDown == Spec => [][Shrinks]_vars
<1>1. PInv /\ [Next]_vars => [Shrinks]_vars
  <2> SUFFICES ASSUME PInv, Next, stage # "idle"
               PROVE  Effort' <= Effort /\ (Scanning => Effort' < Effort)
    BY DEF Shrinks
  <2>1. PInv'
    BY NextPInv
  <2>2. Effort \in Nat /\ Effort' \in Nat
    BY <2>1, Sizes, NextSizes
  <2>3. Accept => Effort' < Effort
    BY Sizes DEF Accept, Effort
  <2>4. Scanning => Effort' < Effort
    BY <2>3, FinishShrinks, JoinShrinks, EndTierShrinks DEF Scanning
  <2>5. AbortTask => Effort' = 0
    BY DEF AbortTask, Effort
  <2>6. ASSUME ~Scanning, ~AbortTask PROVE Effort' = Effort
    BY <2>6 DEF Next, Drain, NextScan, Rest, Effort, vars, poolVars
  <2>. QED BY <2>2, <2>4, <2>5, <2>6
<1>. QED BY <1>1, PoolInvariant, PTL DEF Spec
=============================================================================

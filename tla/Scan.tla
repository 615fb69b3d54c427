-------------------------------- MODULE Scan --------------------------------
(***************************************************************************)
(* What a scan for a replacement promises (go/README.md, "Auto-switch"):   *)
(* healthy members matching the preferred filter come first, otherwise any *)
(* healthy member; the lowest delay wins within a tier; with a nonzero     *)
(* expected-delay the first member answering strictly below it wins        *)
(* instead.  ScanPool (Rust) and GoScan (Go) implement it.                 *)
(*                                                                         *)
(* A probe that neither succeeds nor fails (its task panicked) is lost.  A *)
(* tier may be given up once as many probes were lost as may run at once.  *)
(***************************************************************************)
EXTENDS Naturals, FiniteSets

CONSTANTS
    Candidates,  \* the leaf members other than the failing selection
    Delays,      \* delays a healthy member may answer with
    Expecteds,   \* values of expected-delay; 0: test all
    Concurrencies, \* values of concurrency: how many are tested at once
    Open, Nobody, Abandoned \* outcomes that are no candidate

\* What a scan finds: the members the filter matches, the delay each would
\* answer with, and the settings.
Inputs == [preferred: SUBSET Candidates, delay: [Candidates -> Delays],
           expected: Expecteds, concurrency: Concurrencies]

ASSUME ScanConstantsOK ==
    /\ IsFiniteSet(Candidates)
    /\ Delays \subseteq Nat /\ Expecteds \subseteq Nat
    /\ Concurrencies \subseteq Nat \ {0}
    /\ {Open, Nobody, Abandoned} \cap Candidates = {}
    /\ Open # Nobody /\ Open # Abandoned /\ Nobody # Abandoned

VARIABLES
    input,   \* one of Inputs
    healthy, failed, lost, \* the candidates that have answered, by answer
    outcome  \* Open, the replacement, Nobody, or Abandoned (the checker stopped)

scanVars == <<input, healthy, failed, lost, outcome>>

TierOf(s, in) == IF s = "preferred" THEN in.preferred ELSE Candidates \ in.preferred

Preferred == TierOf("preferred", input)
Others    == TierOf("all", input)
Answered  == healthy \cup failed \cup lost

Fast(n) == input.expected > 0 /\ input.delay[n] < input.expected
Accepted == \E n \in healthy : Fast(n)

\* Every member of tier t was probed, or the tier lost its probes.
Over(t) == t \subseteq Answered \/ Cardinality(t \cap lost) >= input.concurrency
NoneIn(t) == Over(t) /\ t \cap healthy = {}

\* n is as fast as any healthy member of tier t.
FastestIn(n, t) == n \in t \cap healthy /\ \A m \in t \cap healthy : input.delay[n] <= input.delay[m]

Fresh == healthy = {} /\ failed = {} /\ lost = {} /\ outcome = Open

ScanInit == input \in Inputs /\ Fresh

Answer(n) ==
    /\ outcome = Open /\ ~Accepted
    /\ n \notin Answered
    /\ n \in Preferred \/ NoneIn(Preferred)
    /\ \/ healthy' = healthy \cup {n} /\ UNCHANGED <<failed, lost>>
       \/ failed' = failed \cup {n} /\ UNCHANGED <<healthy, lost>>
       \/ lost' = lost \cup {n} /\ UNCHANGED <<healthy, failed>>
    /\ UNCHANGED <<input, outcome>>

Choose(n) ==
    /\ outcome = Open
    /\ \/ n \in healthy /\ Fast(n)
       \/ ~Accepted /\ Over(Preferred) /\ FastestIn(n, Preferred)
       \/ ~Accepted /\ NoneIn(Preferred) /\ Over(Others) /\ FastestIn(n, Others)
    /\ outcome' = n
    /\ UNCHANGED <<input, healthy, failed, lost>>

GiveUp ==
    /\ outcome = Open /\ NoneIn(Preferred) /\ NoneIn(Others)
    /\ outcome' = Nobody
    /\ UNCHANGED <<input, healthy, failed, lost>>

Abandon ==
    /\ outcome = Open
    /\ outcome' = Abandoned
    /\ UNCHANGED <<input, healthy, failed, lost>>

\* The next scan, of this group or another.
Again ==
    /\ outcome # Open
    /\ input' \in Inputs
    /\ healthy' = {} /\ failed' = {} /\ lost' = {} /\ outcome' = Open

ScanNext ==
    \/ \E n \in Candidates : Answer(n) \/ Choose(n)
    \/ GiveUp \/ Abandon \/ Again

\* A scan ends in the fastest healthy member of the first tier that has one, in
\* the first member answering below expected-delay, or in nobody once every
\* member of both tiers was probed.
ScanSpec == ScanInit /\ [][ScanNext]_scanVars

\* Every scan ends: with a replacement, with nobody, or with its checker.
ScanEnds == outcome = Open ~> outcome # Open
=============================================================================

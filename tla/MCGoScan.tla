------------------------------ MODULE MCGoScan ------------------------------
(***************************************************************************)
(* Three candidates for one or two workers: with two, a member waits for   *)
(* the dispatcher while both workers probe; with one, two do, of which the *)
(* worker takes at most one more after it accepted a result.  Delays 1 and *)
(* 2 against an expected-delay of 2 are below it and exactly at it.        *)
(***************************************************************************)
EXTENDS GoScan

CONSTANTS a, b, c

MCCandidates == {a, b, c}
=============================================================================

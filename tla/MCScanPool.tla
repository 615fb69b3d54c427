----------------------------- MODULE MCScanPool -----------------------------
(***************************************************************************)
(* Three candidates, one or two probes at a time: in either tier a member  *)
(* may wait in the queue, and two scans follow each other while the probes *)
(* of the first drain.  Delays 1 and 2 against an expected-delay of 2 are  *)
(* below it and exactly at it.                                             *)
(***************************************************************************)
EXTENDS ScanPool

CONSTANTS a, b, c

MCCandidates == {a, b, c}
=============================================================================

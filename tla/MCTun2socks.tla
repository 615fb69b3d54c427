---------------------------- MODULE MCTun2socks -----------------------------
(***************************************************************************)
(* The device is opened twice; two flows at once, so that two packets of a *)
(* UDP flow race; a channel that two packets fill; and two NAT sessions,   *)
(* the second of which replaces the first under the same key.              *)
(***************************************************************************)
EXTENDS Tun2socks

CONSTANTS f1, f2, i1, i2

MCFlows == {f1, f2}
MCReaders == {i1, i2}
=============================================================================

---------------------------- MODULE MCBgpScheduler ----------------------------
(***************************************************************************)
(* Instances of BgpScheduler for TLC.                                      *)
(***************************************************************************)
EXTENDS BgpScheduler, TLC

CONSTANTS s1, s2, a1, a2, w1, w2
=============================================================================

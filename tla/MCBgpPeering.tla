----------------------------- MODULE MCBgpPeering -----------------------------
(***************************************************************************)
(* Instances of BgpPeering for TLC: p1 and p2 share an address.             *)
(***************************************************************************)
EXTENDS BgpPeeringClaims

CONSTANTS p1, p2, p3, x1, x2, pw1, a1, a2, w1, w2

MCAddressOf == [p \in Peers |-> IF p = p3 THEN x2 ELSE x1]
MCAuthOf == [p \in Peers |-> IF p = p3 THEN "md5" ELSE "none"]
=============================================================================

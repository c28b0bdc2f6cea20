----------------------------- MODULE MCBgpDrAgent -----------------------------
(***************************************************************************)
(* Instances of BgpDrAgent for TLC: speakers with an AS number of their    *)
(* own.                                                                    *)
(***************************************************************************)
EXTENDS BgpDrAgentClaims, TLC

CONSTANTS s1, s2, p1, p2, id1, id2

MCLocalAS == s1 :> 65001 @@ s2 :> 65002

MCPeerId == p1 :> id1 @@ p2 :> id2
=============================================================================

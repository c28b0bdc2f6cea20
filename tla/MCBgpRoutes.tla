------------------------------ MODULE MCBgpRoutes ------------------------------
(***************************************************************************)
(* Instances of BgpRoutes for TLC: one external network with a subnet of    *)
(* each IP version, and tenant networks with one subnet each.  t4 shares    *)
(* the scope of x4, and t6 that of x6; y4 is on a second external network,  *)
(* in a scope of its own.                                                   *)
(***************************************************************************)
EXTENDS BgpRoutesClaims, BgpRouteQueries, TLC

CONSTANTS s4, s6, x4, x6, y4, t4, t6, n1, n2, n4, n6, a4, a6, b4,
          r1, r2, h1, h2, p1, p2, f1, w1, w2

MCFamily == [s \in Speakers |-> IF s = s4 THEN 4 ELSE 6]
MCVersionOf == [x \in Subnets |-> IF x \in {x6, t6} THEN 6 ELSE 4]
MCScopeOf ==
    [x \in Subnets |-> IF x = y4 THEN b4 ELSE IF x \in {x6, t6} THEN a6 ELSE a4]
MCNetworkOf ==
    [x \in Subnets |-> IF x = y4 THEN n2 ELSE IF x \in External THEN n1
                       ELSE IF x = t4 THEN n4 ELSE n6]
MCSubnetOf == [p \in Ports |-> t4]
MCFipNetwork == [f \in FloatingIps |-> n1]
MCAgentGateways == [host : Hosts, subnet : External]

\* Workers, routers and hosts are alike: they are symmetric where the
\* distributed routers are all or none.
Symmetry == Permutations({w1, w2}) \cup Permutations({r1, r2})
              \cup Permutations({h1, h2})
=============================================================================

---------------------------- MODULE BgpRouteQueries ----------------------------
(***************************************************************************)
(* The queries of db/bgp_db.py for the routes of one binding and of one     *)
(* router.  They join the tables of BgpRoutes in ways of their own: one      *)
(* computes at once what another splits by network or by router, and each   *)
(* leaves out other conditions.                                             *)
(***************************************************************************)
EXTENDS BgpRoutes

\* An interface is on another network than a gateway.
ASSUME NetworkAssumption ==
    \A x \in External, y \in Subnets \ External : NetworkOf[x] # NetworkOf[y]

\* The gateway addresses that routers have.
GatewayAddresses ==
    {h \in [owner : Routers, subnet : External] : h.subnet \in gateway[h.owner]}

\* Floating IPs with the IPv4 addresses of the gateway of their centralized
\* router, on the network of the floating IP.
CentralFips ==
    {q \in [destination : FloatingIps, next_hop : GatewayAddresses] :
        /\ fips[q.destination].router = q.next_hop.owner
        /\ q.next_hop.owner \notin Distributed
        /\ NetworkOf[q.next_hop.subnet] = FipNetwork[q.destination]
        /\ VersionOf[q.next_hop.subnet] = 4}

-----------------------------------------------------------------------------
(* get_routes_by_bgp_speaker_binding.  No state of a router matters.         *)

\* Mutant: the flag is not tested.
CentralFipsOfAnyFlag(s, n) ==
    {q \in CentralFips : FipNetwork[q.destination] = n /\ n \in BoundTo(s)}

CentralFipRoutesByBinding(s, n) ==
    {q \in CentralFips : /\ FipNetwork[q.destination] = n
                         /\ n \in BoundTo(s)
                         /\ s \in fipsOn}

\* _tenant_networks_by_network_query: any scope of the speaker's version.
TenantNetworksByBinding(s, n) ==
    {i \in interfaces : /\ NetworkOf[i.subnet] # n
                        /\ ScopeOf[i.subnet] # None
                        /\ VersionOf[i.subnet] = Family[s]}

NextHopsByBinding(s, n) ==
    {h \in GatewayAddresses : /\ n \in BoundTo(s)
                              /\ NetworkOf[h.subnet] = n
                              /\ ScopeOf[h.subnet] # None}

TenantRoutesByBinding(s, n) ==
    {Route(p[1].subnet, p[2]) :
        p \in {q \in TenantNetworksByBinding(s, n) \X NextHopsByBinding(s, n) :
                 /\ q[1].router = q[2].owner
                 /\ VersionOf[q[1].subnet] = VersionOf[q[2].subnet]}}

\* The results of the two filters by network are discarded.
DvrFipRoutesByBinding(s) ==
    {Route(p[1], Via(p[2].host, p[2].subnet)) :
        p \in {q \in FloatingIps \X GatewaysOf(s) :
                 /\ fips[q[1]].port # None
                 /\ FipNetwork[q[1]] \in BoundTo(s)
                 /\ hostOf[fips[q[1]].port] = q[2].host
                 /\ NetworkOf[q[2].subnet] = FipNetwork[q[1]]}}

RoutesByBinding(s, n) ==
    CentralFipRoutesByBinding(s, n) \cup TenantRoutesByBinding(s, n)
        \cup DvrFipRoutesByBinding(s)

-----------------------------------------------------------------------------
(* _get_routes_by_router.                                                   *)

\* The flag of any speaker will do.
CentralFipRoutesByRouter(r, s) ==
    {q \in CentralFips : /\ q.next_hop.owner = r
                         /\ FipNetwork[q.destination] \in BoundTo(s)
                         /\ Family[s] = 4
                         /\ fipsOn # {}}

\* Mutant: the addresses of the gateway are not compared with the scope of the
\* prefix.
TenantRoutesOfAnyScope(r, s) ==
    {Route(i.subnet, h) :
        i \in {j \in interfaces : j.router = r /\ ScopeOf[j.subnet] \in ScopesOf(s)},
        h \in {g \in GatewayAddresses : /\ g.owner = r
                                        /\ NetworkOf[g.subnet] \in BoundTo(s)}}

\* Alone of the queries this one joins the scopes.
TenantRoutesByRouter(r, s) ==
    {q \in [destination : Prefixes(r), next_hop : GatewayAddresses] :
        /\ q.next_hop.owner = r
        /\ NetworkOf[q.next_hop.subnet] \in BoundTo(s)
        /\ ScopeOf[q.destination] \in ScopesOf(s)
        /\ ScopeOf[q.destination] = ScopeOf[q.next_hop.subnet]}

\* The arguments of _get_dvr_fip_host_routes_by_router are swapped: no binding
\* has the id of the router for its speaker, and there are no such routes.
RoutesByRouter(r) ==
    [s \in SpeakersFor(gateway[r]) |->
        CentralFipRoutesByRouter(r, s) \cup TenantRoutesByRouter(r, s)]

-----------------------------------------------------------------------------
\* What a speaker advertises is what its bindings are said to, if the address
\* of the gateway is in a scope; the other way round for routers that are up,
\* prefixes of the speaker's scopes, and a speaker that advertises them.  The
\* queries are compared while no change is under way.
BindingsAgree ==
    Quiet => \A s \in Speakers :
        LET bs == BoundTo(s)
            central == UNION {CentralFipRoutesByBinding(s, n) : n \in bs}
            tenant == UNION {TenantRoutesByBinding(s, n) : n \in bs}
        IN /\ CentralFipRoutes(s) =
                {q \in central : q.next_hop.owner \in up}
           /\ \A q \in TenantRoutes(s) :
                ScopeOf[q.next_hop.subnet] # None => q \in tenant
           /\ s \in tenantsOn =>
                \A q \in tenant : /\ q.next_hop.owner \in up
                                  /\ ScopeOf[q.destination] \in ScopesOf(s)
                                  => q \in TenantRoutes(s)
           /\ DvrFipRoutes(s) \subseteq DvrFipRoutesByBinding(s)

\* What it advertises by way of a router is what the router is said to have for
\* it, if the prefix and the gateway are in one scope; the other way round for
\* a router that is up and a speaker that advertises all.
RoutersAgree ==
    Quiet => \A r \in Routers, s \in Speakers :
        LET of == RoutesByRouter(r)
            own == {q \in CentralFipRoutes(s) : Family[s] = 4 /\ q.next_hop.owner = r}
                     \cup
                   {q \in TenantRoutes(s) :
                       /\ q.next_hop.owner = r
                       /\ ScopeOf[q.destination] = ScopeOf[q.next_hop.subnet]}
        IN IF s \in DOMAIN of
             THEN /\ own \subseteq of[s]
                  /\ r \in up /\ s \in fipsOn \cap tenantsOn => of[s] = own
             ELSE own = {}
=============================================================================

------------------------ MODULE BgpRouteQueriesProofs ------------------------
(***************************************************************************)
(* Theorems about BgpRouteQueries: the queries by binding and by router     *)
(* return what the query by speaker does, under the conditions they leave   *)
(* out, for any networks, scopes, routers and speakers.                     *)
(***************************************************************************)
EXTENDS BgpRouteQueries, BgpRoutesProofs

\* The conditions of each query, on the parts of a route.
LEMMA CentralRoutes ==
    ASSUME TypeOK, NEW s \in Speakers
    PROVE  CentralFipRoutes(s) =
             {q \in CentralFips : /\ s \in fipsOn
                                  /\ FipNetwork[q.destination] \in BoundTo(s)
                                  /\ q.next_hop.owner \in up}
BY DEF CentralFipRoutes, CentralFips, GatewayAddresses, TypeOK

\* A pair of the join of two tables by router and IP version.
LEMMA Joined ==
    ASSUME NEW A, NEW B, NEW q
    PROVE  q \in {Route(p[1].subnet, p[2]) :
                    p \in {e \in A \X B :
                             /\ e[1].router = e[2].owner
                             /\ VersionOf[e[1].subnet] = VersionOf[e[2].subnet]}}
             <=> \E i \in A, h \in B :
                    /\ q = Route(i.subnet, h)
                    /\ i.router = h.owner
                    /\ VersionOf[i.subnet] = VersionOf[h.subnet]
<1>1. ASSUME NEW i \in A, NEW h \in B
      PROVE  /\ <<i, h>> \in A \X B
             /\ <<i, h>>[1] = i /\ <<i, h>>[2] = h
      OBVIOUS
<1>2. ASSUME NEW e \in A \X B
      PROVE  e[1] \in A /\ e[2] \in B
      OBVIOUS
<1> DEFINE P == {e \in A \X B :
                   /\ e[1].router = e[2].owner
                   /\ VersionOf[e[1].subnet] = VersionOf[e[2].subnet]}
<1>3. ASSUME NEW i \in A, NEW h \in B, i.router = h.owner,
             VersionOf[i.subnet] = VersionOf[h.subnet]
      PROVE  \E p \in P : Route(p[1].subnet, p[2]) = Route(i.subnet, h)
  <2>1. <<i, h>> \in P
        BY <1>1, <1>3
  <2>2. QED BY <1>1, <2>1
<1>4. QED BY <1>2, <1>3

\* What a tenant route is made of, in the query by speaker,
LEMMA TenantRoute ==
    ASSUME NEW s \in Speakers, NEW q
    PROVE  q \in TenantRoutes(s) <=>
             \E i \in TenantNetworks(s), h \in NextHopsOf(s) :
                /\ q = Route(i.subnet, h)
                /\ i.router = h.owner
                /\ VersionOf[i.subnet] = VersionOf[h.subnet]
BY Joined DEF TenantRoutes

\* and in the one by binding.
LEMMA TenantRouteByBinding ==
    ASSUME NEW s \in Speakers, NEW n, NEW q
    PROVE  q \in TenantRoutesByBinding(s, n) <=>
             \E i \in TenantNetworksByBinding(s, n), h \in NextHopsByBinding(s, n) :
                /\ q = Route(i.subnet, h)
                /\ i.router = h.owner
                /\ VersionOf[i.subnet] = VersionOf[h.subnet]
BY Joined DEF TenantRoutesByBinding

\* A speaker's scopes have its IP version.
LEMMA ScopeVersion ==
    ASSUME NEW s \in Speakers, NEW x \in Subnets, ScopeOf[x] \in ScopesOf(s)
    PROVE  VersionOf[x] = Family[s] /\ ScopeOf[x] # None
BY ScopeAssumption DEF ScopesOf

\* An interface on a subnet, with an address of its router's gateway on a
\* network of the speaker, is in the query if the speaker advertises prefixes.
LEMMA Advertises ==
    ASSUME TypeOK, NEW s \in Speakers, s \in tenantsOn,
           NEW i \in interfaces, NEW h \in GatewayAddresses,
           i.router = h.owner, i.router \in up,
           NetworkOf[h.subnet] \in BoundTo(s),
           ScopeOf[i.subnet] \in ScopesOf(s),
           VersionOf[h.subnet] = Family[s]
    PROVE  Route(i.subnet, h) \in TenantRoutes(s)
<1>1. i.subnet \in Subnets \ External /\ h.subnet \in External
      BY DEF TypeOK, Interfaces, GatewayAddresses
<1>2. VersionOf[i.subnet] = Family[s]
      BY <1>1, ScopeVersion
<1>3. PICK b \in bound : b.speaker = s /\ b.network = NetworkOf[h.subnet]
      BY DEF BoundTo
<1>4. b.network # NetworkOf[i.subnet]
      BY <1>1, <1>3, NetworkAssumption
<1>5. i \in TenantNetworks(s)
      BY <1>2, <1>3, <1>4 DEF TenantNetworks
<1>6. h \in NextHopsOf(s)
      BY DEF NextHopsOf, GatewayAddresses
<1>7. QED BY <1>2, <1>5, <1>6, TenantRoute

-----------------------------------------------------------------------------
(* The queries by binding.                                                  *)

\* Floating IPs by way of centralized routers: the query by binding also has
\* those of routers that are down.
LEMMA FipsByBinding ==
    ASSUME TypeOK, NEW s \in Speakers
    PROVE  CentralFipRoutes(s) =
             {q \in UNION {CentralFipRoutesByBinding(s, n) : n \in BoundTo(s)} :
                q.next_hop.owner \in up}
<1>1. ASSUME NEW q
      PROVE  q \in UNION {CentralFipRoutesByBinding(s, n) : n \in BoundTo(s)}
               <=> /\ q \in CentralFips
                   /\ FipNetwork[q.destination] \in BoundTo(s)
                   /\ s \in fipsOn
      BY DEF CentralFipRoutesByBinding
<1>2. QED BY <1>1, CentralRoutes

\* A tenant route of the speaker is one of a binding of it.
LEMMA TenantsByBinding ==
    ASSUME TypeOK, NEW s \in Speakers, NEW q \in TenantRoutes(s),
           ScopeOf[q.next_hop.subnet] # None
    PROVE  \E n \in BoundTo(s) : q \in TenantRoutesByBinding(s, n)
<1>1. PICK i \in TenantNetworks(s), h \in NextHopsOf(s) :
           /\ q = Route(i.subnet, h)
           /\ i.router = h.owner
           /\ VersionOf[i.subnet] = VersionOf[h.subnet]
      BY TenantRoute
<1>2. i \in interfaces /\ ScopeOf[i.subnet] \in ScopesOf(s)
      BY DEF TenantNetworks
<1>3. i.subnet \in Subnets \ External
      BY <1>2 DEF TypeOK, Interfaces
<1>4. h \in GatewayAddresses /\ NetworkOf[h.subnet] \in BoundTo(s)
      BY DEF NextHopsOf, GatewayAddresses
<1>5. h.subnet \in External
      BY DEF NextHopsOf
<1>6. ScopeOf[h.subnet] # None
      BY <1>1 DEF Route
<1>7. DEFINE n == NetworkOf[h.subnet]
<1>8. i \in TenantNetworksByBinding(s, n)
      BY <1>2, <1>3, <1>5, ScopeVersion, NetworkAssumption
      DEF TenantNetworksByBinding
<1>9. h \in NextHopsByBinding(s, n)
      BY <1>4, <1>6 DEF NextHopsByBinding
<1>10. q \in TenantRoutesByBinding(s, n)
       BY <1>1, <1>8, <1>9, TenantRouteByBinding
<1>11. QED BY <1>4, <1>10

\* A tenant route of a binding whose router is up is one of the speaker.
LEMMA BindingTenants ==
    ASSUME TypeOK, NEW s \in Speakers, s \in tenantsOn,
           NEW n \in BoundTo(s), NEW q \in TenantRoutesByBinding(s, n),
           q.next_hop.owner \in up, ScopeOf[q.destination] \in ScopesOf(s)
    PROVE  q \in TenantRoutes(s)
<1>1. PICK i \in TenantNetworksByBinding(s, n), h \in NextHopsByBinding(s, n) :
           /\ q = Route(i.subnet, h)
           /\ i.router = h.owner
           /\ VersionOf[i.subnet] = VersionOf[h.subnet]
      BY TenantRouteByBinding
<1>2. i \in interfaces /\ VersionOf[i.subnet] = Family[s]
      BY DEF TenantNetworksByBinding
<1>3. h \in GatewayAddresses /\ NetworkOf[h.subnet] \in BoundTo(s)
      BY DEF NextHopsByBinding
<1>4. i.router \in up /\ ScopeOf[i.subnet] \in ScopesOf(s)
      BY <1>1 DEF Route
<1>5. QED BY <1>1, <1>2, <1>3, <1>4, Advertises

\* The query by binding has every floating IP of a distributed router.
LEMMA DvrFipsByBinding ==
    ASSUME TypeOK, NEW s \in Speakers
    PROVE  DvrFipRoutes(s) \subseteq DvrFipRoutesByBinding(s)
<1>1. ASSUME NEW f \in FloatingIps, fips[f].router \in Distributed
      PROVE  fips[f].port # None
  <2>1. fips[f] \in Associations
        BY DEF TypeOK
  <2>2. fips[f] # NotAssociated
        BY <1>1, NoneAssumption, RangeAssumption DEF NotAssociated
  <2>3. QED BY <2>1, <2>2, NoneAssumption DEF Associations
<1>2. QED BY <1>1 DEF DvrFipRoutes, DvrFipRoutesByBinding

\* The query by speaker and the queries by binding agree in every state.
THEOREM BindingQueriesAgree == Spec => []BindingsAgree
<1>1. TypeOK => BindingsAgree
  <2>1. SUFFICES ASSUME TypeOK PROVE BindingsAgree
        OBVIOUS
  <2>2. ASSUME NEW s \in Speakers, NEW q \in TenantRoutes(s),
               ScopeOf[q.next_hop.subnet] # None
        PROVE  q \in UNION {TenantRoutesByBinding(s, n) : n \in BoundTo(s)}
        BY <2>1, <2>2, TenantsByBinding
  <2>3. ASSUME NEW s \in Speakers, s \in tenantsOn,
               NEW q \in UNION {TenantRoutesByBinding(s, n) : n \in BoundTo(s)},
               q.next_hop.owner \in up, ScopeOf[q.destination] \in ScopesOf(s)
        PROVE  q \in TenantRoutes(s)
    <3>1. PICK n \in BoundTo(s) : q \in TenantRoutesByBinding(s, n)
          BY <2>3
    <3>2. QED BY <2>1, <2>3, <3>1, BindingTenants
  <2>4. QED BY <2>1, <2>2, <2>3, FipsByBinding, DvrFipsByBinding
            DEF BindingsAgree
<1>2. QED BY <1>1, RouteTypes, PTL

-----------------------------------------------------------------------------
(* The query by router.                                                     *)

\* Floating IPs by way of one router, in the queries by speaker and by router.
LEMMA FipsByRouter ==
    ASSUME TypeOK, NEW s \in Speakers, NEW r \in Routers, Family[s] = 4
    PROVE  LET own == {q \in CentralFipRoutes(s) : q.next_hop.owner = r}
           IN /\ own \subseteq CentralFipRoutesByRouter(r, s)
              /\ r \in up /\ s \in fipsOn => own = CentralFipRoutesByRouter(r, s)
BY CentralRoutes DEF CentralFipRoutesByRouter, TypeOK

\* A tenant route of the speaker within one scope is one of its router.
LEMMA TenantsByRouter ==
    ASSUME TypeOK, NEW s \in Speakers, NEW r \in Routers,
           NEW q \in TenantRoutes(s), q.next_hop.owner = r,
           ScopeOf[q.destination] = ScopeOf[q.next_hop.subnet]
    PROVE  q \in TenantRoutesByRouter(r, s)
<1>1. PICK i \in TenantNetworks(s), h \in NextHopsOf(s) :
           /\ q = Route(i.subnet, h)
           /\ i.router = h.owner
      BY TenantRoute
<1>2. q.destination = i.subnet /\ q.next_hop = h
      BY <1>1 DEF Route
<1>3. i \in interfaces /\ ScopeOf[i.subnet] \in ScopesOf(s)
      BY DEF TenantNetworks
<1>4. i.subnet \in Prefixes(r)
      BY <1>1, <1>2, <1>3 DEF Prefixes
<1>5. h \in GatewayAddresses /\ NetworkOf[h.subnet] \in BoundTo(s)
      BY DEF NextHopsOf, GatewayAddresses
<1>6. q \in [destination : Prefixes(r), next_hop : GatewayAddresses]
      BY <1>1, <1>4, <1>5 DEF Route
<1>7. QED BY <1>2, <1>3, <1>5, <1>6 DEF TenantRoutesByRouter

\* A tenant route of a router that is up is one of the speaker.
LEMMA RouterTenants ==
    ASSUME TypeOK, NEW s \in Speakers, s \in tenantsOn, NEW r \in Routers,
           r \in up, NEW q \in TenantRoutesByRouter(r, s)
    PROVE  /\ q \in TenantRoutes(s)
           /\ q.next_hop.owner = r
           /\ ScopeOf[q.destination] = ScopeOf[q.next_hop.subnet]
<1>1. PICK i \in interfaces : i.router = r /\ i.subnet = q.destination
      BY DEF TenantRoutesByRouter, Prefixes
<1>2. q.next_hop \in GatewayAddresses /\ q.next_hop.subnet \in Subnets
      BY RangeAssumption DEF TenantRoutesByRouter, GatewayAddresses
<1>3. /\ q.next_hop.owner = r
      /\ NetworkOf[q.next_hop.subnet] \in BoundTo(s)
      /\ ScopeOf[q.destination] \in ScopesOf(s)
      /\ ScopeOf[q.destination] = ScopeOf[q.next_hop.subnet]
      BY DEF TenantRoutesByRouter
<1>4. VersionOf[q.next_hop.subnet] = Family[s]
      BY <1>2, <1>3, ScopeVersion
<1>5. Route(i.subnet, q.next_hop) \in TenantRoutes(s)
      BY <1>1, <1>2, <1>3, <1>4, Advertises
<1>6. q = Route(i.subnet, q.next_hop)
      BY <1>1 DEF TenantRoutesByRouter, Route
<1>7. QED BY <1>3, <1>5, <1>6

\* A router without a gateway on a network of the speaker has no route for it.
LEMMA NoGateway ==
    ASSUME TypeOK, NEW s \in Speakers, NEW r \in Routers,
           s \notin SpeakersFor(gateway[r]),
           NEW q \in CentralFipRoutes(s) \cup TenantRoutes(s)
    PROVE  q.next_hop.owner # r
<1>1. \A x \in gateway[r] : NetworkOf[x] \notin BoundTo(s)
      BY DEF SpeakersFor
<1>2. CASE q \in CentralFipRoutes(s)
      BY <1>1, <1>2 DEF CentralFipRoutes
<1>3. CASE q \in TenantRoutes(s)
  <2>1. PICK i \in TenantNetworks(s), h \in NextHopsOf(s) : q = Route(i.subnet, h)
        BY <1>3, TenantRoute
  <2>2. QED BY <1>1, <2>1 DEF Route, NextHopsOf
<1>4. QED BY <1>2, <1>3

\* The query by speaker and the query by router agree in every state.
THEOREM RouterQueriesAgree == Spec => []RoutersAgree
<1>1. TypeOK => RoutersAgree
  <2>1. SUFFICES ASSUME TypeOK, NEW r \in Routers, NEW s \in Speakers
        PROVE  LET of == RoutesByRouter(r)
                   own == {q \in CentralFipRoutes(s) :
                              Family[s] = 4 /\ q.next_hop.owner = r}
                            \cup
                          {q \in TenantRoutes(s) :
                              /\ q.next_hop.owner = r
                              /\ ScopeOf[q.destination] = ScopeOf[q.next_hop.subnet]}
               IN IF s \in DOMAIN of
                    THEN /\ own \subseteq of[s]
                         /\ r \in up /\ s \in fipsOn \cap tenantsOn => of[s] = own
                    ELSE own = {}
        BY DEF RoutersAgree
  <2>2. CASE s \notin SpeakersFor(gateway[r])
        BY <2>1, <2>2, NoGateway DEF RoutesByRouter
  <2>3. CASE s \in SpeakersFor(gateway[r])
    <3>1. /\ s \in DOMAIN RoutesByRouter(r)
          /\ RoutesByRouter(r)[s] =
               CentralFipRoutesByRouter(r, s) \cup TenantRoutesByRouter(r, s)
          BY <2>3 DEF RoutesByRouter
    <3>2. Family[s] # 4 => CentralFipRoutesByRouter(r, s) = {}
          BY DEF CentralFipRoutesByRouter
    <3>3. QED BY <2>1, <3>1, <3>2, FipsByRouter, TenantsByRouter, RouterTenants
  <2>4. QED BY <2>2, <2>3
<1>2. QED BY <1>1, RouteTypes, PTL
=============================================================================

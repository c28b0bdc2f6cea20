--------------------------- MODULE BgpRoutesProofs ---------------------------
(***************************************************************************)
(* Theorems about BgpRoutes: the types, and what the query guarantees of   *)
(* the IP versions of a prefix and its next hop, which the callbacks do    *)
(* not (AfterCreate).                                                      *)
(***************************************************************************)
EXTENDS BgpRoutes, TLAPS

\* An address of a router or a host on an external subnet.
LEMMA ViaTyped ==
    ASSUME NEW o \in Routers \cup Hosts, NEW x \in External
    PROVE  Via(o, x) \in Addresses
BY DEF Via, Addresses

\* A route to a prefix, a port or a floating IP.
LEMMA RouteTyped ==
    ASSUME NEW d \in Subnets \cup Ports \cup FloatingIps,
           NEW hop \in Addresses \cup {None}
    PROVE  Route(d, hop) \in Routes
BY DEF Route, Routes

\* The query returns routes.
LEMMA QueryTyped ==
    ASSUME interfaces \subseteq Interfaces, NEW s \in Speakers
    PROVE  RoutesOf(s) \subseteq Routes
<1>1. TenantRoutes(s) \subseteq Routes
  <2>1. SUFFICES ASSUME NEW p \in TenantNetworks(s) \X NextHopsOf(s)
                 PROVE  Route(p[1].subnet, p[2]) \in Routes
        BY DEF TenantRoutes
  <2>2. p[1].subnet \in Subnets
        BY <2>1 DEF TenantNetworks, Interfaces
  <2>3. p[2] \in Addresses
        BY <2>1 DEF NextHopsOf, Addresses
  <2>4. QED BY <2>2, <2>3, RouteTyped
<1>2. CentralFipRoutes(s) \subseteq Routes
      BY DEF CentralFipRoutes, Routes, Addresses
<1>3. ASSUME NEW g \in GatewaysOf(s)
      PROVE  Via(g.host, g.subnet) \in Addresses
      BY <1>3, ViaTyped, RangeAssumption DEF GatewaysOf
<1>4. DvrFipRoutes(s) \subseteq Routes
  <2>1. SUFFICES ASSUME NEW p \in FloatingIps \X GatewaysOf(s)
                 PROVE  Route(p[1], Via(p[2].host, p[2].subnet)) \in Routes
        BY DEF DvrFipRoutes
  <2>2. QED BY <1>3, RouteTyped
<1>5. DvrFixedIpRoutes(s) \subseteq Routes
  <2>1. SUFFICES ASSUME NEW p \in Ports \X GatewaysOf(s)
                 PROVE  Route(p[1], Via(p[2].host, p[2].subnet)) \in Routes
        BY DEF DvrFixedIpRoutes
  <2>2. QED BY <1>3, RouteTyped
<1>6. QED BY <1>1, <1>2, <1>4, <1>5 DEF RoutesOf

\* The prefixes of the query have the IP version of the speaker, and so has
\* the next hop: scopes have one version.
THEOREM QueryKeepsFamilies ==
    ASSUME TypeOK, NEW s \in Speakers, NEW q \in TenantRoutes(s)
    PROVE  /\ VersionOf[q.destination] = Family[s]
           /\ VersionOf[q.next_hop.subnet] = Family[s]
<1>1. PICK i \in TenantNetworks(s), h \in NextHopsOf(s) :
           q = Route(i.subnet, h)
      BY DEF TenantRoutes
<1>2. VersionOf[h.subnet] = Family[s]
      BY DEF NextHopsOf
<1>3. i.subnet \in Subnets /\ ScopeOf[i.subnet] \in ScopesOf(s)
      BY DEF TenantNetworks, TypeOK, Interfaces
<1>4. PICK y \in Subnets : /\ VersionOf[y] = Family[s]
                           /\ ScopeOf[y] = ScopeOf[i.subnet]
                           /\ ScopeOf[y] # None
      BY <1>3 DEF ScopesOf
<1>5. VersionOf[i.subnet] = Family[s]
      BY <1>3, <1>4, ScopeAssumption
<1>6. QED BY <1>1, <1>2, <1>5 DEF Route

\* The agent's part of a cast: the routes are some of those that are cast.
LEMMA OutcomeTyped ==
    ASSUME NEW R \in SUBSET Routes, NEW N \in SUBSET Routes, NEW W,
           NEW X \in Outcomes(R, N, W)
    PROVE  X \subseteq Routes
BY DEF Outcomes, Effect, WithAdvertised, WithWithdrawn

\* What a cast leaves with the agents are routes, and it gains no trust.
LEMMA CastTyped ==
    ASSUME TypeOK, NEW new, NEW old, Cast(new, old),
           \A s \in Speakers : new[s] \subseteq Routes
    PROVE  /\ announced' \in [Speakers -> SUBSET Routes]
           /\ UNCHANGED <<syncing, reply>>
           /\ trusted' \subseteq trusted
<1>1. PICK outcome \in [Speakers -> UNION {Outcomes(announced[s], new[s], old[s]) :
                                            s \in Speakers}] :
           /\ announced' = outcome
           /\ \A s \in Speakers :
                 outcome[s] \in Outcomes(announced[s], new[s], old[s])
      BY DEF Cast
<1>2. \A s \in Speakers : outcome[s] \subseteq Routes
      BY <1>1, OutcomeTyped DEF TypeOK
<1>3. QED BY <1>1, <1>2 DEF Cast

\* Withdrawals need no routes: they only take away.
LEMMA NoRoutesTyped == \A s \in Speakers : NoRoutes[s] \subseteq Routes
BY DEF NoRoutes

\* A commit leaves its event with the worker.
LEMMA CommitsTyped ==
    ASSUME TypeOK, NEW w \in Workers, NEW e \in Events, NEW told,
           Commits(w, e, told)
    PROVE  /\ work' \in [Workers -> Events \cup {None}]
           /\ trusted' \subseteq Speakers
           /\ UNCHANGED <<speakerVars, agentVars>>
BY DEF Commits, TypeOK

\* Neither a change nor its bound leaves the count.
LEMMA ChangeTyped ==
    ASSUME TypeOK, NEW op, Change(op)
    PROVE  changes' \in 0..MaxChanges
BY RangeAssumption DEF Change, TypeOK

\* The event of an interface, a gateway or a router.
LEMMA EventTyped ==
    ASSUME NEW kind \in {"added", "removed", "down"}, NEW r \in Routers,
           NEW X \in GatewayPorts
    PROVE  /\ Event(kind, r, X) \in Events
           /\ \A x \in Subnets :
                 [Event(kind, r, X) EXCEPT !.cidr = x] \in Events
BY DEF Event, Events, RouterEvents, NoEvent

\* The routes by way of a router.
LEMMA ViaRoutesTyped ==
    ASSUME NEW P \in SUBSET Subnets, NEW r \in Routers,
           NEW X \in SUBSET External
    PROVE  RoutesVia(P, r, X) \subseteq Routes
BY ViaTyped, RouteTyped DEF RoutesVia

\* The next hop of a floating IP is an address, or none.
LEMMA FipNextHopTyped ==
    ASSUME TypeOK, NEW f \in FloatingIps, NEW r \in Routers
    PROVE  FipNextHop(f, r) \subseteq Addresses \cup {None}
<1>1. DvrFipNextHop(f) \subseteq Addresses \cup {None}
  <2>1. \A g \in AgentGateways : Via(g.host, g.subnet) \in Addresses
        BY ViaTyped, RangeAssumption
  <2>2. QED BY <2>1 DEF DvrFipNextHop
<1>2. \A x \in gateway[r] : Via(r, x) \in Addresses
      BY ViaTyped DEF TypeOK, GatewayPorts
<1>3. QED BY <1>1, <1>2 DEF FipNextHop

-------------------------------------------------------------------------------
\* The initial states have their types.
LEMMA InitTyped == Init => TypeOK
<1>1. SUFFICES ASSUME Init PROVE TypeOK
      OBVIOUS
<1>2. /\ bound \subseteq Bindings
      /\ fipsOn \subseteq Speakers /\ tenantsOn \subseteq Speakers
      /\ gateway \in [Routers -> GatewayPorts]
      /\ up \subseteq Routers
      /\ interfaces \subseteq Interfaces
      /\ hostOf \in [Ports -> Hosts]
      /\ fips \in [FloatingIps -> Associations]
      /\ work \in [Workers -> Events \cup {None}]
      /\ trusted \subseteq Speakers
      /\ changes \in 0..MaxChanges
      BY <1>1, RangeAssumption DEF Init
<1>3. \A s \in Speakers : RoutesOf(s) \subseteq Routes
      BY <1>2, QueryTyped
<1>4. /\ announced \in [Speakers -> SUBSET Routes]
      /\ syncing \subseteq Speakers
      /\ reply \in [Speakers -> SUBSET Routes]
      BY <1>1, <1>3 DEF Init
<1>5. QED BY <1>2, <1>4 DEF TypeOK

\* A commit of a worker keeps the types.
LEMMA CommitTyped ==
    ASSUME TypeOK, NEW w \in Workers, Commit(w)
    PROVE  TypeOK'
<1> USE DEF speakerVars, agentVars
<1>1. CASE \E i \in Interfaces : AddInterface(w, i)
  <2>1. PICK i \in Interfaces : AddInterface(w, i)
        BY <1>1
  <2> DEFINE e == [Event("added", i.router, gateway[i.router])
                     EXCEPT !.cidr = i.subnet]
  <2>2. e \in Events
        BY EventTyped DEF TypeOK, Interfaces
  <2>3. Commits(w, e, i.router \in up)
        BY <2>1 DEF AddInterface
  <2> HIDE DEF e
  <2>4. QED BY <2>1, <2>2, <2>3, CommitsTyped, ChangeTyped
            DEF AddInterface, TypeOK
<1>2. CASE \E i \in Interfaces : RemoveInterface(w, i)
  <2>1. PICK i \in Interfaces : RemoveInterface(w, i)
        BY <1>2
  <2> DEFINE X == gateway[i.router]
             e == [Event("removed", i.router, X) EXCEPT !.cidr = i.subnet]
             told == Served(X) = SpeakersFor(X) /\ Sole({i.subnet}, i.router)
  <2>2. e \in Events
        BY EventTyped DEF TypeOK, Interfaces
  <2>3. Commits(w, e, told)
        BY <2>1 DEF RemoveInterface
  <2> HIDE DEF e, told
  <2>4. QED BY <2>1, <2>2, <2>3, CommitsTyped, ChangeTyped
            DEF RemoveInterface, TypeOK
<1>3. CASE \E r \in Routers, X \in GatewayPorts : SetGateway(w, r, X)
  <2>1. PICK r \in Routers, X \in GatewayPorts : SetGateway(w, r, X)
        BY <1>3
  <2>2. Event("added", r, X) \in Events
        BY EventTyped
  <2>3. Commits(w, Event("added", r, X), r \in up)
        BY <2>1 DEF SetGateway
  <2>4. QED BY <2>1, <2>2, <2>3, CommitsTyped, ChangeTyped
            DEF SetGateway, TypeOK
<1>4. CASE \E r \in Routers : ClearGateway(w, r)
  <2>1. PICK r \in Routers : ClearGateway(w, r)
        BY <1>4
  <2>2. Event("down", r, gateway[r]) \in Events
        BY EventTyped DEF TypeOK
  <2>3. Commits(w, Event("down", r, gateway[r]), FALSE)
        BY <2>1 DEF ClearGateway
  <2>4. {} \in GatewayPorts
        BY DEF GatewayPorts
  <2>5. QED BY <2>1, <2>2, <2>3, <2>4, CommitsTyped, ChangeTyped
            DEF ClearGateway, TypeOK
<1>5. CASE \E r \in Routers : ToggleRouter(w, r)
  <2>1. PICK r \in Routers : ToggleRouter(w, r)
        BY <1>5
  <2>2. /\ up' \subseteq Routers /\ changes' \in 0..MaxChanges
        /\ UNCHANGED <<speakerVars, gateway, interfaces, hostOf, fips>>
        BY <2>1, ChangeTyped DEF ToggleRouter, TypeOK
  <2>3. CASE gateway[r] = {}
        BY <2>1, <2>2, <2>3 DEF ToggleRouter, TypeOK
  <2>4. CASE gateway[r] # {}
    <3> DEFINE kind == IF r \in up THEN "down" ELSE "added"
               e == Event(kind, r, gateway[r])
    <3>1. PICK told : Commits(w, e, told)
          BY <2>1, <2>4 DEF ToggleRouter
    <3>2. e \in Events
          BY EventTyped DEF TypeOK
    <3> HIDE DEF e
    <3>3. QED BY <2>2, <3>1, <3>2, CommitsTyped DEF TypeOK
  <2>5. QED BY <2>3, <2>4
<1>6. CASE \E f \in FloatingIps, a \in Associations : UpdateFip(w, f, a)
  <2>1. PICK f \in FloatingIps, a \in Associations : UpdateFip(w, f, a)
        BY <1>6
  <2> DEFINE e == [NoEvent EXCEPT !.kind = "fip", !.router = a.router,
                                  !.fip = f, !.last = fips[f].router]
  <2>2. \A b \in Associations : b.router \in Routers \cup {None}
        BY DEF Associations, NotAssociated
  <2>3. {} \in GatewayPorts
        BY DEF GatewayPorts
  <2>4. e \in Events
        BY <2>2, <2>3 DEF NoEvent, Events, FipEvents, TypeOK
  <2>5. PICK told : Commits(w, e, told)
        BY <2>1 DEF UpdateFip
  <2> HIDE DEF e
  <2>6. QED BY <2>1, <2>4, <2>5, CommitsTyped, ChangeTyped
            DEF UpdateFip, TypeOK
<1>7. QED BY <1>1, <1>2, <1>3, <1>4, <1>5, <1>6 DEF Commit

\* A callback casts routes and clears the work of its worker.
LEMMA CallbackTyped ==
    ASSUME TypeOK, NEW w \in Workers, Callback(w)
    PROVE  TypeOK'
<1> USE DEF speakerVars, neutronVars
<1>1. ASSUME NEW kind, Runs(w, kind), NEW new, NEW old, Cast(new, old),
             \A s \in Speakers : new[s] \subseteq Routes
      PROVE  TypeOK'
      BY <1>1, CastTyped DEF Runs, TypeOK
<1>2. ASSUME NEW kind, Runs(w, kind) PROVE work[w] \in Events
      BY <1>2 DEF Runs, TypeOK
<1>3. ASSUME NEW kind, Runs(w, kind),
             NEW prefixes, NEW e, NEW done, WithdrawVia(prefixes, e, done)
      PROVE  TypeOK'
      BY <1>1, <1>3, NoRoutesTyped DEF WithdrawVia
<1>4. CASE AfterCreate(w)
  <2> DEFINE e == work[w]
             new == [s \in Speakers |->
                       IF s \in SpeakersFor(e.hops)
                       THEN RoutesVia(PrefixesOf(e.router), e.router,
                                      HopsFor(e.hops, s))
                       ELSE {}]
  <2>1. Runs(w, "added") /\ Cast(new, NoRoutes)
        BY <1>4 DEF AfterCreate
  <2>2. e \in RouterEvents
        BY <1>2, <2>1 DEF Runs, Events, FipEvents
  <2>3. ASSUME NEW s \in Speakers PROVE new[s] \subseteq Routes
    <3>1. HopsFor(e.hops, s) \subseteq External
          BY <2>2 DEF RouterEvents, GatewayPorts, HopsFor
    <3>2. PrefixesOf(e.router) \subseteq Subnets
          BY DEF PrefixesOf, TypeOK, Interfaces
    <3>3. e.router \in Routers
          BY <2>2 DEF RouterEvents
    <3>4. RoutesVia(PrefixesOf(e.router), e.router, HopsFor(e.hops, s))
            \subseteq Routes
          BY <3>1, <3>2, <3>3, ViaRoutesTyped
    <3>5. QED BY <3>4
  <2> HIDE DEF new
  <2>4. QED BY <1>1, <2>1, <2>3
<1>5. CASE AfterRemove(w)
      BY <1>3, <1>5 DEF AfterRemove
<1>6. CASE AfterDelete(w)
      BY <1>3, <1>6 DEF AfterDelete
<1>7. CASE FloatingIpUpdate(w)
  <2> DEFINE e == work[w]
             told == {s \in Speakers : /\ FipNetwork[e.fip] \in BoundTo(s)
                                       /\ Family[s] = 4}
             new == [s \in Speakers |->
                       IF s \in told /\ e.router \notin {None, e.last}
                       THEN {Route(e.fip, h) : h \in FipNextHop(e.fip, e.router)}
                       ELSE {}]
             old == [s \in Speakers |->
                       IF s \in told /\ e.last \notin {None, e.router}
                       THEN {Route(e.fip, None)} ELSE {}]
  <2>1. Runs(w, "fip") /\ Cast(new, old)
        BY <1>7 DEF FloatingIpUpdate
  <2>2. e \in FipEvents
        BY <1>2, <2>1 DEF Runs, Events, RouterEvents
  <2>3. e.fip \in FloatingIps /\ e.router \in Routers \cup {None}
        BY <2>2 DEF FipEvents
  <2>4. ASSUME NEW s \in Speakers PROVE new[s] \subseteq Routes
    <3>1. CASE e.router = None
          BY <3>1
    <3>2. CASE e.router \in Routers
      <4>1. FipNextHop(e.fip, e.router) \subseteq Addresses \cup {None}
            BY <2>3, <3>2, FipNextHopTyped
      <4>2. {Route(e.fip, h) : h \in FipNextHop(e.fip, e.router)} \subseteq Routes
            BY <2>3, <4>1, RouteTyped
      <4>3. QED BY <4>2
    <3>3. QED BY <2>3, <3>1, <3>2
  <2> HIDE DEF new, old
  <2>5. QED BY <1>1, <2>1, <2>4
<1>8. QED BY <1>4, <1>5, <1>6, <1>7 DEF Callback

\* A sync keeps the reply of the server, and leaves some of it advertised.
LEMMA SyncTyped ==
    ASSUME TypeOK, NEW s \in Speakers, AskRoutes(s) \/ ApplyRoutes(s)
    PROVE  TypeOK'
<1> USE DEF speakerVars, neutronVars
<1>1. CASE AskRoutes(s)
  <2>1. RoutesOf(s) \subseteq Routes
        BY QueryTyped DEF TypeOK
  <2>2. QED BY <1>1, <2>1 DEF AskRoutes, TypeOK
<1>2. CASE ApplyRoutes(s)
  <2> DEFINE left == WithWithdrawn(announced[s], announced[s] \ reply[s])
  <2>1. PICK part \in SUBSET reply[s] :
             announced' = [announced EXCEPT ![s] = WithAdvertised(left, part)]
        BY <1>2 DEF ApplyRoutes
  <2>2. left \subseteq Routes /\ part \subseteq Routes
        BY DEF WithWithdrawn, TypeOK
  <2>3. WithAdvertised(left, part) \subseteq Routes
        BY <2>2 DEF WithAdvertised
  <2> HIDE DEF left
  <2>4. /\ announced' \in [Speakers -> SUBSET Routes]
        /\ reply' \in [Speakers -> SUBSET Routes]
        /\ syncing' \subseteq Speakers /\ trusted' \subseteq Speakers
        BY <1>2, <2>1, <2>3 DEF ApplyRoutes, TypeOK
  <2>5. QED BY <1>2, <2>4 DEF ApplyRoutes, TypeOK
<1>3. QED BY <1>1, <1>2

\* Every step keeps the types.
LEMMA StepTyped == TypeOK /\ [Next]_vars => TypeOK'
<1> SUFFICES ASSUME TypeOK, [Next]_vars PROVE TypeOK'
    OBVIOUS
<1> USE DEF speakerVars, neutronVars, agentVars
<1>1. CASE \E w \in Workers : Commit(w) \/ Callback(w)
      BY <1>1, CommitTyped, CallbackTyped
<1>2. CASE \E s \in Speakers : UpdateSpeaker(s)
      BY <1>2, ChangeTyped DEF UpdateSpeaker, Unheard, TypeOK
<1>3. CASE \E s \in Speakers : AskRoutes(s) \/ ApplyRoutes(s)
      BY <1>3, SyncTyped
<1>4. CASE \E s \in Speakers, n \in Bindable : BindNetwork(s, n)
      BY <1>4, ChangeTyped DEF BindNetwork, Bindings, Unheard, TypeOK
<1>5. CASE \E f \in FloatingIps : DeleteFip(f)
  <2>1. NotAssociated \in Associations
        BY DEF Associations
  <2>2. QED BY <1>5, <2>1, ChangeTyped DEF DeleteFip, Unheard, TypeOK
<1>6. CASE \E p \in Ports, h \in Hosts : MovePort(p, h)
      BY <1>6, ChangeTyped DEF MovePort, Unheard, TypeOK
<1>7. CASE UNCHANGED vars
      BY <1>7 DEF vars, TypeOK
<1>8. QED BY <1>1, <1>2, <1>3, <1>4, <1>5, <1>6, <1>7 DEF Next

\* Every part of the state keeps its type, for any networks, routers and
\* changes of them, and what is announced are always routes.
THEOREM RouteTypes == Spec => []TypeOK
BY InitTyped, StepTyped, PTL DEF Spec
=============================================================================

------------------------------- MODULE BgpRoutes -------------------------------
(***************************************************************************)
(* The routes of a BGP speaker: the queries of db/bgp_db.py that compute    *)
(* them from networks, routers and floating IPs, and the callbacks of       *)
(* bgp_plugin.py that tell the agents, in other ways, what a change adds or *)
(* removes.  A change is two steps of a server worker, the commit and the   *)
(* callback, so that the changes of two workers interleave.  A cast is      *)
(* handled as it is sent (BgpDrAgent has casts that are late or lost); a     *)
(* sync is its call of the server and its work on the reply, and casts are  *)
(* handled in between.                                                      *)
(*                                                                         *)
(* Networks, routers, ports and floating IPs are kept by neutron, outside   *)
(* the repository: their changes follow from the events and the tables that *)
(* the code reads.  A gateway has at most one address of each IP version.   *)
(***************************************************************************)
EXTENDS Integers, FiniteSets

CONSTANTS
    Speakers,
    Family,         \* the IP version of each speaker, and of its bindings
    Subnets,
    NetworkOf,      \* the network of each subnet
    VersionOf,      \* the IP version of each subnet
    Pooled,         \* subnets that come from a subnet pool
    ScopeOf,        \* the address scope of each subnet's pool, or None
    External,       \* subnets of external networks
    Bindable,       \* networks that speakers are bound to
    Routers,
    Distributed,    \* routers that are distributed (DVR)
    Hosts,
    AgentGateways,  \* FIP agent gateways: a host and a subnet with an address
    Ports,          \* compute ports
    SubnetOf,       \* the subnet of each port
    FloatingIps,
    FipNetwork,     \* the network of each floating IP
    Workers,        \* server workers
    Ops,            \* kinds of changes
    MaxChanges,     \* bound on the number of changes
    None            \* Python's None

ASSUME RangeAssumption ==
    /\ Family \in [Speakers -> {4, 6}]
    /\ VersionOf \in [Subnets -> {4, 6}]
    /\ External \subseteq Subnets /\ Pooled \subseteq Subnets
    /\ Bindable \subseteq {NetworkOf[x] : x \in Subnets}
    /\ Distributed \subseteq Routers
    /\ AgentGateways \subseteq [host : Hosts, subnet : External]
    /\ SubnetOf \in [Ports -> Subnets]
    /\ MaxChanges \in Nat

\* Scopes and pools have one IP version each.
ASSUME ScopeAssumption ==
    \A x \in Subnets : ScopeOf[x] # None =>
        /\ x \in Pooled
        /\ \A y \in Subnets :
              ScopeOf[y] = ScopeOf[x] => VersionOf[y] = VersionOf[x]

ASSUME NoneAssumption ==
    None \notin Routers \cup Hosts \cup Ports \cup Subnets \cup FloatingIps

\* A route has one kind of destination, and one kind of next hop.
ASSUME KindAssumption ==
    /\ Routers \cap Hosts = {}
    /\ Subnets \cap Ports = {}
    /\ Subnets \cap FloatingIps = {}
    /\ Ports \cap FloatingIps = {}

VARIABLES
    bound,          \* BgpSpeakerNetworkBinding
    fipsOn,         \* speakers with advertise_floating_ip_host_routes
    tenantsOn,      \* speakers with advertise_tenant_networks
    gateway,        \* the subnets of each router's gateway addresses
    up,             \* routers with admin_state_up
    interfaces,     \* the subnets that routers have interfaces on
    hostOf,         \* the host of each port
    fips,           \* the router and the fixed port of each floating IP
    work,           \* the change whose callback a worker has to run, or None
    announced,      \* the routes that casts and syncs left with the agents
    syncing,        \* speakers with a sync that has called the server
    reply,          \* the routes in the reply that the sync works on
    trusted,        \* speakers with no change since their sync that the plugin
                    \* is known not to announce, and no cast that the agent
                    \* did not carry out (auxiliary)
    changes         \* number of changes so far

speakerVars == <<bound, fipsOn, tenantsOn>>
neutronVars == <<gateway, up, interfaces, hostOf, fips>>
agentVars == <<announced, syncing, reply>>
vars == <<speakerVars, neutronVars, work, agentVars, trusted, changes>>

Bindings == [speaker : Speakers, network : Bindable]
Interfaces == [router : Routers, subnet : Subnets \ External]

\* An address on a subnet, of a router's gateway or of a host's agent gateway.
Addresses == [owner : Routers \cup Hosts, subnet : External]
Routes == [destination : Subnets \cup Ports \cup FloatingIps,
           next_hop : Addresses \cup {None}]

Via(owner, x) == [owner |-> owner, subnet |-> x]
Route(d, hop) == [destination |-> d, next_hop |-> hop]

NotAssociated == [router |-> None, port |-> None]
Associations == [router : Routers, port : Ports] \cup {NotAssociated}

\* The external subnets a gateway port may have addresses on.
GatewayPorts ==
    {X \in SUBSET External :
        \A x, y \in X : /\ NetworkOf[x] = NetworkOf[y]
                        /\ VersionOf[x] = VersionOf[y] => x = y}

-------------------------------------------------------------------------------
(* get_routes_by_bgp_speaker_id: the routes a speaker should advertise.     *)

BoundTo(s) == {b.network : b \in {c \in bound : c.speaker = s}}

\* _get_address_scope_ids_for_bgp_speaker
ScopesOf(s) ==
    {ScopeOf[x] : x \in {y \in Subnets : /\ NetworkOf[y] \in BoundTo(s)
                                         /\ VersionOf[y] = Family[s]}}
        \ {None}

\* The filters name no speaker: the binding of any speaker that advertises
\* tenant networks will do.
TenantNetworks(s) ==
    {i \in interfaces :
        /\ i.router \in up
        /\ ScopeOf[i.subnet] \in ScopesOf(s)
        /\ \E b \in bound : /\ b.speaker \in tenantsOn
                            /\ b.network # NetworkOf[i.subnet]
                            /\ Family[b.speaker] = VersionOf[i.subnet]}

NextHopsOf(s) ==
    {h \in [owner : Routers, subnet : External] :
        /\ h.subnet \in gateway[h.owner]
        /\ NetworkOf[h.subnet] \in BoundTo(s)
        /\ VersionOf[h.subnet] = Family[s]}

TenantRoutes(s) ==
    {Route(p[1].subnet, p[2]) :
        p \in {q \in TenantNetworks(s) \X NextHopsOf(s) :
                 /\ q[1].router = q[2].owner
                 /\ VersionOf[q[1].subnet] = VersionOf[q[2].subnet]}}

\* Floating IPs are IPv4; the version of the binding is not tested.
CentralFipRoutes(s) ==
    {q \in [destination : FloatingIps,
            next_hop : [owner : Routers \ Distributed, subnet : External]] :
        LET f == q.destination
            x == q.next_hop.subnet
        IN /\ s \in fipsOn
           /\ FipNetwork[f] \in BoundTo(s)
           /\ fips[f].router = q.next_hop.owner
           /\ fips[f].router \in up
           /\ x \in gateway[fips[f].router]
           /\ NetworkOf[x] = FipNetwork[f]
           /\ VersionOf[x] = 4}

\* _get_gateway_query
GatewaysOf(s) ==
    {g \in AgentGateways :
        /\ VersionOf[g.subnet] = 4 /\ Family[s] = 4
        /\ ScopeOf[g.subnet] # None
        /\ NetworkOf[g.subnet] \in BoundTo(s)}

\* The test of admin_state_up is not joined with the router: any router will
\* do.  Neither DVR query looks at what the speaker is to advertise.
DvrFipRoutes(s) ==
    {Route(p[1], Via(p[2].host, p[2].subnet)) :
        p \in {q \in FloatingIps \X GatewaysOf(s) :
                 /\ fips[q[1]].router \in Distributed
                 /\ up # {}
                 /\ FipNetwork[q[1]] \in BoundTo(s)
                 /\ hostOf[fips[q[1]].port] = q[2].host
                 /\ NetworkOf[q[2].subnet] = FipNetwork[q[1]]}}

DvrFixedIpRoutes(s) ==
    {Route(p[1], Via(p[2].host, p[2].subnet)) :
        p \in {q \in Ports \X GatewaysOf(s) :
                 /\ hostOf[q[1]] = q[2].host
                 /\ ScopeOf[SubnetOf[q[1]]] = ScopeOf[q[2].subnet]}}

RoutesOf(s) ==
    TenantRoutes(s) \cup CentralFipRoutes(s) \cup DvrFipRoutes(s)
        \cup DvrFixedIpRoutes(s)

-------------------------------------------------------------------------------
(* What the agent makes of a cast (agent/bgp_dragent.py).                   *)

\* Mutant: a route without a next hop is never advertised.
AdvertisedExactly(routes, q) == q \in routes

\* A route without a next hop counts as advertised if its destination is.
Advertised(routes, q) ==
    \E r \in routes : /\ r.destination = q.destination
                      /\ q.next_hop \in {None, r.next_hop}

WithAdvertised(routes, new) ==
    routes \cup {q \in new : ~Advertised(routes, q)}

\* The withdrawal of a route that is advertised removes its destination.
WithWithdrawn(routes, old) ==
    {r \in routes : ~\E q \in old : /\ q.destination = r.destination
                                    /\ Advertised(routes, q)}

\* The loop over the routes of a cast breaks off after a route once a resync of
\* the speaker is scheduled, as it is between syncs: the refresh.  A cast has
\* one next hop.
Handled(routes, part) ==
    \A q \in routes : \E r \in routes \cap part : r.next_hop = q.next_hop

\* Mutant: the new route is cast before the withdrawal of the old one.
EffectSwapped(routes, new, old) == WithWithdrawn(WithAdvertised(routes, new), old)

\* A change of a floating IP casts the withdrawal of its old route first.
Effect(routes, new, old) == WithAdvertised(WithWithdrawn(routes, old), new)

\* What the agents have once their syncs are done: a sync leaves what is in its
\* reply, whatever casts did meanwhile.
Ahead(s) == IF s \in syncing THEN reply[s] ELSE announced[s]

Outcomes(routes, new, old) ==
    {Effect(routes, new \cap part, old \cap part) :
        part \in {X \in SUBSET (new \cup old) : Handled(new, X) /\ Handled(old, X)}}

Cast(new, old) ==
    LET after == [s \in Speakers |-> Outcomes(announced[s], new[s], old[s])] IN
    /\ \E outcome \in [Speakers -> UNION {after[s] : s \in Speakers}] :
          /\ \A s \in Speakers : outcome[s] \in after[s]
          /\ announced' = outcome
    /\ UNCHANGED <<syncing, reply>>
    /\ trusted' =
          {s \in trusted : Ahead(s)' = Effect(Ahead(s), new[s], old[s])}

NoRoutes == [s \in Speakers |-> {}]

-------------------------------------------------------------------------------
(* Changes.  A change of a router or a floating IP leaves a callback to run *)
(* with the payload of its event.                                           *)

NoEvent == [kind |-> None, router |-> None, hops |-> {}, cidr |-> None,
            fip |-> None, last |-> None]

RouterEvents ==
    [kind : {"added", "removed", "down"}, router : Routers, hops : GatewayPorts,
     cidr : Subnets \cup {None}, fip : {None}, last : {None}]

FipEvents ==
    [kind : {"fip"}, router : Routers \cup {None}, hops : {{}}, cidr : {None},
     fip : FloatingIps, last : Routers \cup {None}]

Events == RouterEvents \cup FipEvents

ASSUME EventAssumption == None \notin Events

Event(kind, r, X) == [NoEvent EXCEPT !.kind = kind, !.router = r, !.hops = X]

Prefixes(r) == {i.subnet : i \in {j \in interfaces : j.router = r}}

\* What the routes of a change depend on.
Involved(e) ==
    ({e.router, e.last, e.fip, e.cidr} \cup Prefixes(e.router)) \ {None}

\* Another worker has yet to tell the agents of a change of the same thing.
Overtakes(w, e) ==
    \E v \in Workers \ {w} :
        work[v] # None /\ Involved(work[v]) \cap Involved(e) # {}

Quiet == \A w \in Workers : work[w] = None

Change(op) ==
    /\ op \in Ops
    /\ changes < MaxChanges
    /\ changes' = changes + 1

\* The commit of a change by worker w; told says whether the callback, if no
\* other overtakes it, tells the agents all there is to tell.
Commits(w, e, told) ==
    /\ work[w] = None
    /\ work' = [work EXCEPT ![w] = e]
    /\ trusted' = IF told /\ ~Overtakes(w, e) THEN trusted ELSE {}
    /\ UNCHANGED <<speakerVars, agentVars>>

\* A change that no callback hears of.
Unheard ==
    /\ trusted' = {}
    /\ UNCHANGED <<work, agentVars>>

\* _bgp_speakers_for_gateway_network
SpeakersFor(X) ==
    {s \in Speakers : \E x \in X : NetworkOf[x] \in BoundTo(s)}

\* _next_hops_from_gateway_ips
HopsFor(X, s) == {x \in X : VersionOf[x] = Family[s]}

Served(X) == {s \in SpeakersFor(X) : HopsFor(X, s) # {}}

FipsVia(r) == {f \in FloatingIps : fips[f].router = r}

\* A withdrawal removes the routes of a destination by way of any router.
Sole(prefixes, r) ==
    \A i \in interfaces : i.subnet \in prefixes => i.router = r

BindNetwork(s, n) ==
    LET b == [speaker |-> s, network |-> n] IN
    /\ Change("bind")
    /\ bound' = IF b \in bound THEN bound \ {b} ELSE bound \cup {b}
    /\ Unheard
    /\ UNCHANGED <<fipsOn, tenantsOn, neutronVars>>

UpdateSpeaker(s) ==
    /\ Change("update")
    /\ \/ /\ fipsOn' = IF s \in fipsOn THEN fipsOn \ {s} ELSE fipsOn \cup {s}
          /\ UNCHANGED tenantsOn
       \/ /\ tenantsOn' =
               IF s \in tenantsOn THEN tenantsOn \ {s} ELSE tenantsOn \cup {s}
          /\ UNCHANGED fipsOn
    /\ Unheard
    /\ UNCHANGED <<bound, neutronVars>>

AddInterface(w, i) ==
    /\ Change("interface")
    /\ i \notin interfaces
    /\ interfaces' = interfaces \cup {i}
    /\ Commits(w, [Event("added", i.router, gateway[i.router])
                     EXCEPT !.cidr = i.subnet],
               i.router \in up)
    /\ UNCHANGED <<gateway, up, hostOf, fips>>

\* neutron keeps an interface that a floating IP needs.
RemoveInterface(w, i) ==
    LET X == gateway[i.router] IN
    /\ Change("interface")
    /\ i \in interfaces
    /\ \A f \in FipsVia(i.router) : SubnetOf[fips[f].port] # i.subnet
    /\ interfaces' = interfaces \ {i}
    /\ Commits(w, [Event("removed", i.router, X) EXCEPT !.cidr = i.subnet],
               Served(X) = SpeakersFor(X) /\ Sole({i.subnet}, i.router))
    /\ UNCHANGED <<gateway, up, hostOf, fips>>

SetGateway(w, r, X) ==
    /\ Change("gateway")
    /\ gateway[r] = {} /\ X # {}
    /\ gateway' = [gateway EXCEPT ![r] = X]
    /\ Commits(w, Event("added", r, X), r \in up)
    /\ UNCHANGED <<up, interfaces, hostOf, fips>>

\* neutron keeps a gateway that floating IPs need.
ClearGateway(w, r) ==
    /\ Change("gateway")
    /\ gateway[r] # {} /\ FipsVia(r) = {}
    /\ gateway' = [gateway EXCEPT ![r] = {}]
    /\ Commits(w, Event("down", r, gateway[r]), FALSE)
    /\ UNCHANGED <<up, interfaces, hostOf, fips>>

\* router_callback returns for a router that has no gateway.
ToggleRouter(w, r) ==
    LET X == gateway[r] IN
    /\ Change("router")
    /\ up' = IF r \in up THEN up \ {r} ELSE up \cup {r}
    /\ IF X = {}
         THEN UNCHANGED <<work, agentVars, trusted>>
         ELSE Commits(w, Event(IF r \in up THEN "down" ELSE "added", r, X),
                      /\ FipsVia(r) = {}
                      /\ r \in up => /\ Served(X) = SpeakersFor(X)
                                     /\ Sole(Prefixes(r), r))
    /\ UNCHANGED <<speakerVars, gateway, interfaces, hostOf, fips>>

\* What neutron demands of an association.
Possible(f, a) ==
    a # NotAssociated =>
        /\ [router |-> a.router, subnet |-> SubnetOf[a.port]] \in interfaces
        /\ \E x \in gateway[a.router] : NetworkOf[x] = FipNetwork[f]

\* A floating IP is created with a port, or its port changes.
UpdateFip(w, f, a) ==
    LET last == fips[f].router IN
    /\ Change("fip")
    /\ a # fips[f]
    /\ Possible(f, a)
    /\ a = NotAssociated \/ \A g \in FloatingIps \ {f} : fips[g].port # a.port
    /\ fips' = [fips EXCEPT ![f] = a]
    /\ Commits(w, [NoEvent EXCEPT !.kind = "fip", !.router = a.router,
                                  !.fip = f, !.last = last],
               /\ a.router \in up \cup {None}
               /\ a.router = last => last \notin Distributed)
    /\ UNCHANGED <<gateway, up, interfaces, hostOf>>

\* The plugin does not subscribe to the deletion of a floating IP.
DeleteFip(f) ==
    /\ Change("fip")
    /\ fips[f] # NotAssociated
    /\ fips' = [fips EXCEPT ![f] = NotAssociated]
    /\ Unheard
    /\ UNCHANGED <<speakerVars, gateway, up, interfaces, hostOf>>

\* port_callback hands the list of networks to a query for one network, and
\* the rows of the reply to calls that expect ids: no agent is told anything.
MovePort(p, h) ==
    /\ Change("port")
    /\ hostOf[p] # h
    /\ hostOf' = [hostOf EXCEPT ![p] = h]
    /\ Unheard
    /\ UNCHANGED <<speakerVars, gateway, up, interfaces, fips>>

-------------------------------------------------------------------------------
(* Callbacks.                                                               *)

Runs(w, kind) ==
    /\ work[w] # None
    /\ work[w].kind = kind
    /\ work' = [work EXCEPT ![w] = None]
    /\ UNCHANGED <<speakerVars, neutronVars, changes>>

\* _tenant_prefixes_by_router: neither the speaker, its address scopes nor its
\* IP version matter; the interfaces of distributed routers are of another type.
PrefixesOf(r) ==
    {i.subnet : i \in {j \in interfaces :
                         /\ j.router = r
                         /\ r \notin Distributed
                         /\ j.subnet \in Pooled
                         /\ SpeakersFor(gateway[r]) # {}}}

RoutesVia(prefixes, r, X) ==
    {Route(d, Via(r, x)) : d \in prefixes, x \in X}

\* An interface is added, a gateway is set, or a router is taken up.
AfterCreate(w) ==
    /\ Runs(w, "added")
    /\ LET e == work[w] IN
       Cast([s \in Speakers |->
               IF s \in SpeakersFor(e.hops)
               THEN RoutesVia(PrefixesOf(e.router), e.router,
                              HopsFor(e.hops, s))
               ELSE {}],
            NoRoutes)

\* The routes by way of the hops of some speakers are withdrawn from all.
WithdrawVia(prefixes, e, done) ==
    Cast(NoRoutes,
         [s \in Speakers |->
            IF s \in SpeakersFor(e.hops)
            THEN RoutesVia(prefixes, e.router,
                           UNION {HopsFor(e.hops, t) : t \in done})
            ELSE {}])

\* A speaker of a version that the gateway has no address of ends the loop over
\* the speakers: KeyError.
AfterRemove(w) ==
    /\ Runs(w, "removed")
    /\ LET e == work[w]
           served == Served(e.hops)
       IN \E done \in SUBSET served :
            /\ served = SpeakersFor(e.hops) => done = served
            /\ WithdrawVia({e.cidr}, e, done)

\* A gateway is cleared or a router is taken down.  The loop uses the routes of
\* the speaker before for one that the gateway has no address for, and raises
\* UnboundLocalError if that is the first.
AfterDelete(w) ==
    /\ Runs(w, "down")
    /\ LET e == work[w]
           served == Served(e.hops)
       IN \E done \in {{}, served} :
            /\ served = SpeakersFor(e.hops) => done = served
            /\ WithdrawVia(PrefixesOf(e.router), e, done)

\* _get_dvr_fip_next_hop: one() returns nothing for several rows, and the
\* addresses of all IP versions are among them.
DvrFipNextHop(f) ==
    LET rows == {g \in AgentGateways : /\ NetworkOf[g.subnet] = FipNetwork[f]
                                       /\ fips[f].port # None
                                       /\ hostOf[fips[f].port] = g.host}
    IN IF Cardinality(rows) = 1
         THEN {Via(g.host, g.subnet) : g \in rows}
         ELSE {None}

\* Mutant: the fixed IP is returned instead of its address.
FipNextHopFixedIp(f, r) == {x \in gateway[r] : VersionOf[x] = 4}

FipNextHop(f, r) ==
    IF gateway[r] # {} /\ r \in Distributed
      THEN DvrFipNextHop(f)
      ELSE LET hops == {x \in gateway[r] : VersionOf[x] = 4} IN
           IF hops = {} THEN {None} ELSE {Via(r, x) : x \in hops}

FloatingIpUpdate(w) ==
    /\ Runs(w, "fip")
    /\ LET e == work[w]
           told == {s \in Speakers : /\ FipNetwork[e.fip] \in BoundTo(s)
                                     /\ Family[s] = 4}
       IN Cast([s \in Speakers |->
                  IF s \in told /\ e.router \notin {None, e.last}
                  THEN {Route(e.fip, h) : h \in FipNextHop(e.fip, e.router)}
                  ELSE {}],
               [s \in Speakers |->
                  IF s \in told /\ e.last \notin {None, e.router}
                  THEN {Route(e.fip, None)} ELSE {}])

\* The agent's sync calls the server.  MaxChanges bounds it too: a sync that no
\* change or callback follows is left out.
AskRoutes(s) ==
    /\ changes < MaxChanges \/ ~Quiet
    /\ s \notin syncing
    /\ syncing' = syncing \cup {s}
    /\ reply' = [reply EXCEPT ![s] = RoutesOf(s)]
    /\ trusted' = IF Quiet THEN trusted \cup {s} ELSE trusted
    /\ UNCHANGED <<speakerVars, neutronVars, work, announced, changes>>

\* It withdraws what the reply does not have, and advertises what it has: all
\* of it, or some if a handler schedules a resync meanwhile.
ApplyRoutes(s) ==
    LET left == WithWithdrawn(announced[s], announced[s] \ reply[s]) IN
    /\ s \in syncing
    /\ syncing' = syncing \ {s}
    /\ \E part \in SUBSET reply[s] :
          /\ part = {} => reply[s] = {}
          /\ announced' = [announced EXCEPT ![s] = WithAdvertised(left, part)]
    /\ reply' = [reply EXCEPT ![s] = {}]
    /\ trusted' = IF announced'[s] = reply[s] THEN trusted ELSE trusted \ {s}
    /\ UNCHANGED <<speakerVars, neutronVars, work, changes>>

-------------------------------------------------------------------------------
\* Any deployment whose agents have just synced.
Init ==
    /\ bound = Bindings
    /\ fipsOn = Speakers /\ tenantsOn = Speakers
    /\ gateway \in [Routers -> GatewayPorts]
    /\ up \in SUBSET Routers
    /\ interfaces \in SUBSET Interfaces
    /\ hostOf \in [Ports -> Hosts]
    /\ fips \in [FloatingIps -> Associations]
    /\ \A f \in FloatingIps : Possible(f, fips[f])
    /\ \A f, g \in FloatingIps :
          f # g => fips[f] = NotAssociated \/ fips[f].port # fips[g].port
    /\ work = [w \in Workers |-> None]
    /\ announced = [s \in Speakers |-> RoutesOf(s)]
    /\ syncing = {}
    /\ reply = [s \in Speakers |-> {}]
    /\ trusted = Speakers
    /\ changes = 0

Commit(w) ==
    \/ \E i \in Interfaces : AddInterface(w, i) \/ RemoveInterface(w, i)
    \/ \E r \in Routers :
         \/ \E X \in GatewayPorts : SetGateway(w, r, X)
         \/ ClearGateway(w, r)
         \/ ToggleRouter(w, r)
    \/ \E f \in FloatingIps, a \in Associations : UpdateFip(w, f, a)

Callback(w) ==
    AfterCreate(w) \/ AfterRemove(w) \/ AfterDelete(w) \/ FloatingIpUpdate(w)

Next ==
    \/ \E w \in Workers : Commit(w) \/ Callback(w)
    \/ \E s \in Speakers : UpdateSpeaker(s) \/ AskRoutes(s) \/ ApplyRoutes(s)
    \/ \E s \in Speakers, n \in Bindable : BindNetwork(s, n)
    \/ \E f \in FloatingIps : DeleteFip(f)
    \/ \E p \in Ports, h \in Hosts : MovePort(p, h)

Spec == Init /\ [][Next]_vars

-------------------------------------------------------------------------------
(* Properties.                                                              *)

\* Every part of the state has its type: a gateway has addresses of one
\* network, and what is announced are routes.
TypeOK ==
    /\ bound \subseteq Bindings
    /\ fipsOn \subseteq Speakers /\ tenantsOn \subseteq Speakers
    /\ gateway \in [Routers -> GatewayPorts]
    /\ up \subseteq Routers
    /\ interfaces \subseteq Interfaces
    /\ hostOf \in [Ports -> Hosts]
    /\ fips \in [FloatingIps -> Associations]
    /\ work \in [Workers -> Events \cup {None}]
    /\ announced \in [Speakers -> SUBSET Routes]
    /\ syncing \subseteq Speakers
    /\ reply \in [Speakers -> SUBSET Routes]
    /\ trusted \subseteq Speakers
    /\ changes \in 0..MaxChanges

\* A route by way of a centralized router, of the speaker's own IP version: for
\* an IPv6 speaker the query has IPv4 floating IPs, and no callback tells it.
Central(q, s) ==
    /\ q.next_hop # None
    /\ q.next_hop.owner \in Routers \ Distributed
    /\ VersionOf[q.next_hop.subnet] = Family[s]

\* The callbacks tell the agents of every route by way of a centralized router
\* that the query would return, unless a change was made that the plugin does
\* not announce ("changes the advertisement routes", route-advertisement.rst),
\* or the agent handled a cast in part only or while a sync worked on a reply
\* that is older than the change.
NothingMissing ==
    Quiet => \A s \in trusted \ syncing :
        \A q \in RoutesOf(s) : Central(q, s) => q \in announced[s]

\* The router of a route still leads to its destination.
Leads(q) ==
    LET r == q.next_hop.owner IN
    /\ q.next_hop.subnet \in gateway[r]
    /\ r \in up
    /\ \/ /\ q.destination \in Subnets
          /\ [router |-> r, subnet |-> q.destination] \in interfaces
       \/ /\ q.destination \in FloatingIps
          /\ fips[q.destination].router = r

\* Nor do they leave a route announced by way of a centralized router that does
\* not lead to its destination any more, with the same exceptions.
NothingStale ==
    Quiet => \A s \in trusted \ syncing :
        \A q \in announced[s] : Central(q, s) => Leads(q)
=============================================================================

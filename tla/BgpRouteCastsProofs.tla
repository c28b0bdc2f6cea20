------------------------- MODULE BgpRouteCastsProofs -------------------------
(***************************************************************************)
(* Theorems about the callbacks of BgpRoutes: what they cast agrees with    *)
(* the query, by way of centralized routers.  NothingMissing and            *)
(* NothingStale are about states in which no callback is pending.  The      *)
(* invariants here are about all states: a route that is not announced yet  *)
(* is in the event of a worker, and so is one that is not withdrawn yet.    *)
(***************************************************************************)
EXTENDS BgpRoutesProofs

Busy(w) == work[w] # None

\* A floating IP has a router with a gateway on the network of the floating IP.
FipsRouted ==
    \A f \in FloatingIps :
        fips[f] # NotAssociated =>
            \E x \in gateway[fips[f].router] : NetworkOf[x] = FipNetwork[f]

\* The events of two workers have nothing in common.
Apart ==
    \A v, w \in Workers :
        v # w /\ Busy(v) /\ Busy(w) => Involved(work[v]) \cap Involved(work[w]) = {}

\* An event still says what is in the database, and its callback will find a
\* next hop for every speaker it withdraws routes from.
Sound(e) ==
    /\ e.kind \in {"added", "removed", "down"} => e.hops = gateway[e.router]
    /\ e.kind \in {"removed", "down"} => Served(e.hops) = SpeakersFor(e.hops)
    /\ e.kind = "added" => e.hops = {} \/ e.router \in up
    /\ e.kind = "removed" => \A i \in interfaces : i.subnet # e.cidr
    /\ e.kind = "down" => /\ e.router \notin up /\ e.hops # {}
                          /\ Sole(Prefixes(e.router), e.router)
                          /\ FipsVia(e.router) = {}
    /\ e.kind = "fip" => /\ fips[e.fip].router = e.router
                         /\ e.router \in up \cup {None}

\* While the agent of some speaker can be trusted.
EventsSound ==
    trusted # {} => Apart /\ \A w \in Workers : Busy(w) => Sound(work[w])

\* The callback of an event casts q.
Announces(e, q) ==
    \/ /\ e.kind = "added"
       /\ e.router = q.next_hop.owner
       /\ q.destination \in Subnets
    \/ /\ e.kind = "fip"
       /\ e.fip = q.destination
       /\ e.router # e.last

\* The callback of an event withdraws q.
Withdraws(e, q) ==
    \/ /\ e.kind = "removed"
       /\ e.router = q.next_hop.owner
       /\ e.cidr = q.destination
    \/ /\ e.kind = "down"
       /\ e.router = q.next_hop.owner
       /\ q.destination \in Prefixes(e.router)
    \/ /\ e.kind = "fip"
       /\ e.fip = q.destination
       /\ e.last = q.next_hop.owner
       /\ e.router # e.last

\* A route that the query returns is announced, or will be.
AnnouncedOrComing ==
    \A s \in trusted : \A q \in RoutesOf(s) :
        Central(q, s) => \/ q \in Ahead(s)
                         \/ \E w \in Workers : Busy(w) /\ Announces(work[w], q)

\* What is announced was for the speaker: the tests of its bindings and pools
\* that the callbacks make when they withdraw it hold.
Meant(q, s) ==
    /\ NetworkOf[q.next_hop.subnet] \in BoundTo(s)
    /\ q.next_hop.subnet \in gateway[q.next_hop.owner]
    /\ q.destination \in Subnets => q.destination \in Pooled
    /\ q.destination \in FloatingIps =>
          FipNetwork[q.destination] \in BoundTo(s) /\ Family[s] = 4

\* A route that is announced leads to its destination, or will be withdrawn.
LeadsOrGoing ==
    \A s \in trusted : \A q \in Ahead(s) :
        Central(q, s) =>
            /\ Meant(q, s)
            /\ \/ Leads(q)
               \/ \E w \in Workers : Busy(w) /\ Withdraws(work[w], q)

CastsInv ==
    TypeOK /\ FipsRouted /\ EventsSound /\ AnnouncedOrComing /\ LeadsOrGoing

-----------------------------------------------------------------------------
(* Events, and what a cast does to one route.                               *)

\* What an event holds depends on its kind.
LEMMA EventShape ==
    ASSUME NEW e \in Events
    PROVE  /\ e # None
           /\ e.router \in Routers \cup {None}
           /\ \/ /\ e.kind \in {"added", "removed", "down"}
                 /\ e.router \in Routers
                 /\ e.hops \in GatewayPorts
                 /\ e.cidr \in Subnets \cup {None}
                 /\ e.fip = None /\ e.last = None
              \/ /\ e.kind = "fip"
                 /\ e.hops = {} /\ e.cidr = None
                 /\ e.fip \in FloatingIps
                 /\ e.last \in Routers \cup {None}
BY EventAssumption DEF Events, RouterEvents, FipEvents

\* A busy worker has an event.
LEMMA BusyShape ==
    ASSUME TypeOK, NEW w \in Workers, Busy(w)
    PROVE  work[w] \in Events
BY DEF TypeOK, Busy

\* A route is what it leads to and where it goes by.
LEMMA SameRoute ==
    ASSUME NEW q \in Routes, NEW r \in Routes,
           q.destination = r.destination, q.next_hop = r.next_hop
    PROVE  q = r
BY DEF Routes

\* A route that goes by a router's address, put together from its parts.
LEMMA RouteParts ==
    ASSUME NEW q \in Routes, q.next_hop # None
    PROVE  /\ q.next_hop.owner \in Routers \cup Hosts
           /\ q.next_hop.subnet \in External
           /\ q = Route(q.destination, Via(q.next_hop.owner, q.next_hop.subnet))
BY DEF Routes, Route, Via, Addresses

\* What the agents have, or will have after a sync, are routes.
LEMMA AheadTyped ==
    ASSUME TypeOK, NEW s \in Speakers
    PROVE  Ahead(s) \subseteq Routes
BY DEF TypeOK, Ahead

\* It is the agents' own state.
LEMMA AheadUnchanged ==
    ASSUME UNCHANGED agentVars, NEW s
    PROVE  Ahead(s)' = Ahead(s)
BY DEF agentVars, Ahead

\* A speaker stays trusted through a cast if the cast has its full effect.
LEMMA CastEffect ==
    ASSUME NEW new, NEW old, Cast(new, old)
    PROVE  /\ trusted' \subseteq trusted
           /\ \A s \in trusted' : Ahead(s)' = Effect(Ahead(s), new[s], old[s])
BY DEF Cast, Ahead

\* What is cast with a next hop is announced.
LEMMA CastAnnounces ==
    ASSUME TypeOK, NEW new, NEW old, Cast(new, old), NEW s \in trusted',
           NEW q \in Routes, q \in new[s], q.next_hop # None
    PROVE  q \in Ahead(s)'
<1> DEFINE left == WithWithdrawn(Ahead(s), old[s])
<1>1. Ahead(s)' = left \cup {r \in new[s] : ~Advertised(left, r)}
      BY CastEffect DEF Effect, WithAdvertised
<1>2. CASE ~Advertised(left, q)
      BY <1>1, <1>2
<1>3. CASE Advertised(left, q)
  <2>1. PICK r \in left : r.destination = q.destination
                          /\ q.next_hop \in {None, r.next_hop}
        BY <1>3 DEF Advertised
  <2>2. s \in Speakers
        BY CastEffect DEF TypeOK
  <2>3. r \in Routes
        BY <2>1, <2>2, AheadTyped DEF WithWithdrawn
  <2>4. QED BY <1>1, <2>1, <2>3, SameRoute
<1>4. QED BY <1>2, <1>3

\* A route stays announced if no route to its destination is withdrawn.
LEMMA CastKeeps ==
    ASSUME NEW new, NEW old, Cast(new, old), NEW s \in trusted',
           NEW q \in Ahead(s),
           \A o \in old[s] : o.destination # q.destination
    PROVE  q \in Ahead(s)'
<1> DEFINE kept == WithWithdrawn(Ahead(s), old[s])
<1>1. Ahead(s)' = kept \cup {r \in new[s] : ~Advertised(kept, r)}
      BY CastEffect DEF Effect, WithAdvertised
<1>2. kept = {r \in Ahead(s) : ~\E o \in old[s] :
                 o.destination = r.destination /\ Advertised(Ahead(s), o)}
      BY DEF WithWithdrawn
<1> HIDE DEF kept
<1>3. QED BY <1>1, <1>2

\* A route that is announced was cast, or has not been withdrawn.
LEMMA CastOrigin ==
    ASSUME NEW new, NEW old, Cast(new, old), NEW s \in trusted',
           NEW q, q \in Ahead(s)', q \notin new[s]
    PROVE  /\ q \in Ahead(s)
           /\ \A o \in old[s] : o.destination = q.destination =>
                                  ~Advertised(Ahead(s), o)
<1> DEFINE kept == WithWithdrawn(Ahead(s), old[s])
<1>1. Ahead(s)' = kept \cup {r \in new[s] : ~Advertised(kept, r)}
      BY CastEffect DEF Effect, WithAdvertised
<1>2. kept = {r \in Ahead(s) : ~\E o \in old[s] :
                 o.destination = r.destination /\ Advertised(Ahead(s), o)}
      BY DEF WithWithdrawn
<1> HIDE DEF kept
<1>3. QED BY <1>1, <1>2

-----------------------------------------------------------------------------
(* What the query has by way of centralized routers.                        *)

\* A route to a prefix behind a router.
ByPrefix(q, s) ==
    /\ q.destination \in Pooled
    /\ q.next_hop.owner \in up
    /\ [router |-> q.next_hop.owner, subnet |-> q.destination] \in interfaces

\* A route to a floating IP that a router translates.
ByFip(q, s) ==
    /\ q.destination \in FloatingIps
    /\ q.next_hop.owner \in up
    /\ fips[q.destination].router = q.next_hop.owner
    /\ FipNetwork[q.destination] \in BoundTo(s)
    /\ Family[s] = 4

\* Every central route of the query has one of the two forms.
QueryForms ==
    \A s \in Speakers : \A q \in RoutesOf(s) :
        Central(q, s) =>
            /\ q \in Routes
            /\ q.next_hop.subnet \in gateway[q.next_hop.owner]
            /\ NetworkOf[q.next_hop.subnet] \in BoundTo(s)
            /\ \/ q \in TenantRoutes(s) /\ ByPrefix(q, s)
               \/ q \in CentralFipRoutes(s) /\ ByFip(q, s)

\* It leads to its destination and is meant for the speaker.
QueryFits ==
    \A s \in Speakers : \A q \in RoutesOf(s) :
        Central(q, s) => q \in Routes /\ Leads(q) /\ Meant(q, s)

\* The query joins the tables as its two forms say.
LEMMA QueryShape == TypeOK => QueryForms
<1>1. SUFFICES ASSUME TypeOK, NEW s \in Speakers, NEW q \in RoutesOf(s),
                      Central(q, s)
               PROVE  /\ q \in Routes
                      /\ q.next_hop.subnet \in gateway[q.next_hop.owner]
                      /\ NetworkOf[q.next_hop.subnet] \in BoundTo(s)
                      /\ \/ q \in TenantRoutes(s) /\ ByPrefix(q, s)
                         \/ q \in CentralFipRoutes(s) /\ ByFip(q, s)
      BY DEF QueryForms
<1>2. q \in Routes
      BY <1>1, QueryTyped DEF TypeOK
<1>3. CASE q \in TenantRoutes(s)
  <2>1. PICK i \in TenantNetworks(s), h \in NextHopsOf(s) :
             q = Route(i.subnet, h) /\ i.router = h.owner
        BY <1>3 DEF TenantRoutes
  <2>2. /\ i \in interfaces /\ i.router \in up
        /\ i = [router |-> i.router, subnet |-> i.subnet]
        /\ i.subnet \in Subnets
        /\ ScopeOf[i.subnet] \in ScopesOf(s)
        BY <1>1 DEF TenantNetworks, TypeOK, Interfaces
  <2>3. i.subnet \in Pooled
        BY <2>2, ScopeAssumption DEF ScopesOf
  <2>4. q.destination = i.subnet /\ q.next_hop = h
        BY <2>1 DEF Route
  <2>5. h.subnet \in gateway[h.owner] /\ NetworkOf[h.subnet] \in BoundTo(s)
        BY DEF NextHopsOf
  <2>6. QED BY <1>2, <1>3, <2>1, <2>2, <2>3, <2>4, <2>5 DEF ByPrefix
<1>4. CASE q \in CentralFipRoutes(s)
  <2>1. /\ VersionOf[q.next_hop.subnet] = Family[s]
        BY <1>1 DEF Central
  <2>2. QED BY <1>2, <1>4, <2>1 DEF CentralFipRoutes, ByFip
<1>5. ASSUME NEW g \in GatewaysOf(s), NEW d, q = Route(d, Via(g.host, g.subnet))
      PROVE  FALSE
  <2>1. g.host \in Hosts
        BY RangeAssumption DEF GatewaysOf
  <2>2. q.next_hop.owner = g.host
        BY <1>5 DEF Route, Via
  <2>3. QED BY <1>1, <2>1, <2>2, KindAssumption DEF Central
<1>6. q \notin DvrFipRoutes(s)
      BY <1>5 DEF DvrFipRoutes
<1>7. q \notin DvrFixedIpRoutes(s)
      BY <1>5 DEF DvrFixedIpRoutes
<1>8. QED BY <1>3, <1>4, <1>6, <1>7 DEF RoutesOf

\* Both forms are of routes that lead to their destination.
LEMMA QueryLeads == TypeOK => QueryFits
<1>1. SUFFICES ASSUME TypeOK, NEW s \in Speakers, NEW q \in RoutesOf(s),
                      Central(q, s)
               PROVE  q \in Routes /\ Leads(q) /\ Meant(q, s)
      BY DEF QueryFits
<1>2. Pooled \subseteq Subnets
      BY RangeAssumption
<1>3. /\ q \in Routes
      /\ q.next_hop.subnet \in gateway[q.next_hop.owner]
      /\ NetworkOf[q.next_hop.subnet] \in BoundTo(s)
      /\ ByPrefix(q, s) \/ ByFip(q, s)
      BY <1>1, QueryShape DEF QueryForms
<1>4. QED BY <1>2, <1>3, KindAssumption DEF Leads, Meant, ByPrefix, ByFip

\* The query depends on the database alone.
LEMMA QueryUnchanged ==
    ASSUME UNCHANGED <<speakerVars, neutronVars>>, NEW s \in Speakers
    PROVE  RoutesOf(s)' = RoutesOf(s)
BY DEF speakerVars, neutronVars, RoutesOf, TenantRoutes, TenantNetworks,
       NextHopsOf, CentralFipRoutes, DvrFipRoutes, DvrFixedIpRoutes, GatewaysOf,
       ScopesOf, BoundTo

\* A change of routers or floating IPs brings a central route about only if
\* the route did not lead to its destination before.
LEMMA QueryFrame ==
    ASSUME TypeOK, TypeOK', UNCHANGED speakerVars, NEW s \in Speakers,
           NEW q, q \in RoutesOf(s)', Central(q, s), Leads(q)
    PROVE  q \in RoutesOf(s)
<1>1. QueryForms'
      BY QueryShape, PTL
<1>2. /\ q \in Routes
      /\ \/ q \in TenantRoutes(s)' /\ ByPrefix(q, s)'
         \/ q \in CentralFipRoutes(s)' /\ ByFip(q, s)'
      BY <1>1 DEF QueryForms, Central
<1>3. /\ ScopesOf(s)' = ScopesOf(s) /\ BoundTo(s)' = BoundTo(s)
      /\ bound' = bound /\ fipsOn' = fipsOn /\ tenantsOn' = tenantsOn
      BY DEF speakerVars, ScopesOf, BoundTo
<1>4. q.next_hop # None /\ q.next_hop.owner \in Routers \ Distributed
      BY DEF Central
<1>5. CASE q \in TenantRoutes(s)'
  <2>1. PICK i \in TenantNetworks(s)', h \in NextHopsOf(s)' :
             /\ q = Route(i.subnet, h) /\ i.router = h.owner
             /\ VersionOf[i.subnet] = VersionOf[h.subnet]
        BY <1>5 DEF TenantRoutes
  <2>2. /\ i \in interfaces'
        /\ i = [router |-> i.router, subnet |-> i.subnet]
        /\ i.subnet \in Subnets
        BY DEF TenantNetworks, TypeOK, Interfaces
  <2>3. q.destination = i.subnet /\ q.next_hop = h
        BY <2>1 DEF Route
  <2>4. i \in interfaces /\ i.router \in up /\ h.subnet \in gateway[h.owner]
        BY <2>1, <2>2, <2>3, KindAssumption DEF Leads
  <2>5. i \in TenantNetworks(s)
        BY <1>3, <2>4 DEF TenantNetworks
  <2>6. h \in NextHopsOf(s)
        BY <1>3, <2>4 DEF NextHopsOf
  <2>7. <<i, h>> \in {p \in TenantNetworks(s) \X NextHopsOf(s) :
                        /\ p[1].router = p[2].owner
                        /\ VersionOf[p[1].subnet] = VersionOf[p[2].subnet]}
        BY <2>1, <2>5, <2>6
  <2>8. q \in TenantRoutes(s)
        BY <2>1, <2>7 DEF TenantRoutes
  <2>9. QED BY <2>8 DEF RoutesOf
<1>6. CASE q \in CentralFipRoutes(s)'
  <2>1. q.destination \in FloatingIps
        BY <1>6 DEF CentralFipRoutes
  <2>2. /\ q.next_hop.subnet \in gateway[q.next_hop.owner]
        /\ q.next_hop.owner \in up
        /\ fips[q.destination].router = q.next_hop.owner
        BY <2>1, KindAssumption DEF Leads
  <2>3. q \in CentralFipRoutes(s)
        BY <1>3, <1>6, <2>2 DEF CentralFipRoutes
  <2>4. QED BY <2>3 DEF RoutesOf
<1>7. QED BY <1>2, <1>5, <1>6

-----------------------------------------------------------------------------
(* Commits.  The invariants say nothing once no speaker is trusted.         *)

\* Without trust there is nothing to show.
LEMMA Untrusted ==
    ASSUME trusted' = {}
    PROVE  EventsSound' /\ AnnouncedOrComing' /\ LeadsOrGoing'
BY DEF EventsSound, AnnouncedOrComing, LeadsOrGoing

\* Nothing of e is in the event of another worker.
LEMMA NotOvertaking ==
    ASSUME NEW w \in Workers, NEW e, ~Overtakes(w, e),
           NEW v \in Workers, v # w, Busy(v), NEW x \in Involved(e)
    PROVE  /\ x # work[v].router /\ x # work[v].last /\ x # work[v].fip
           /\ x # work[v].cidr
           /\ x \notin Prefixes(work[v].router)
BY DEF Overtakes, Involved, Busy

\* An event says what is in the database while its router, its prefixes and its
\* floating IP stay as they are.
LEMMA SoundKept ==
    ASSUME TypeOK, NEW d \in Events, Sound(d), UNCHANGED speakerVars,
           d.router \in Routers =>
               /\ gateway'[d.router] = gateway[d.router]
               /\ d.router \in up' <=> d.router \in up
               /\ FipsVia(d.router)' \subseteq FipsVia(d.router),
           Prefixes(d.router)' = Prefixes(d.router),
           d.fip \in FloatingIps => fips'[d.fip].router = fips[d.fip].router,
           \A i \in interfaces' \ interfaces :
               i.subnet # d.cidr /\ i.subnet \notin Prefixes(d.router)
    PROVE  Sound(d)'
<1>1. /\ SpeakersFor(d.hops)' = SpeakersFor(d.hops)
      /\ Served(d.hops)' = Served(d.hops)
      BY DEF speakerVars, Served, SpeakersFor, HopsFor, BoundTo
<1>2. d.kind = "removed" => \A i \in interfaces' : i.subnet # d.cidr
      BY DEF Sound
<1>3. d.kind = "down" => Sole(Prefixes(d.router), d.router)'
      BY DEF Sound, Sole
<1>4. QED BY <1>1, <1>2, <1>3, EventShape DEF Sound

\* A commit that the plugin announces keeps the invariants if it spoils no other
\* event and its own accounts for the routes it brings and takes away.
LEMMA CommitKeeps ==
    ASSUME CastsInv, TypeOK', NEW w \in Workers, NEW e \in Events, NEW told,
           Commits(w, e, told), trusted' # {},
           \A r \in Routers : gateway[r] \subseteq gateway'[r],
           \A v \in Workers \ {w}, d \in Events :
               Busy(v) /\ work[v] = d =>
                   Sound(d)' /\ Prefixes(d.router)' = Prefixes(d.router),
           Sound(e)',
           Involved(e)' \subseteq Involved(e),
           \A q \in Routes, s \in Speakers :
               Central(q, s) /\ Leads(q)' /\ ~Leads(q) => Announces(e, q),
           \A q \in Routes, s \in Speakers :
               Central(q, s) /\ Meant(q, s) /\ Leads(q) /\ ~Leads(q)'
                 => Withdraws(e, q)'
    PROVE  EventsSound' /\ AnnouncedOrComing' /\ LeadsOrGoing'
<1>1. /\ work[w] = None /\ work' = [work EXCEPT ![w] = e]
      /\ work \in [Workers -> Events \cup {None}]
      /\ trusted' = trusted /\ ~Overtakes(w, e)
      /\ trusted \subseteq Speakers
      /\ UNCHANGED <<agentVars, speakerVars>>
      BY DEF Commits, CastsInv, TypeOK
<1>2. /\ work'[w] = e /\ e # None
      /\ \A v \in Workers \ {w} : work'[v] = work[v] /\ (Busy(v)' <=> Busy(v))
      BY <1>1, EventShape DEF Busy
<1>3. EventsSound'
  <2>1. ASSUME NEW v \in Workers, Busy(v)' PROVE Sound(work[v])'
    <3>1. CASE v = w
          BY <1>2, <3>1 DEF Sound, FipsVia, Sole, Prefixes, Served, SpeakersFor,
             HopsFor, BoundTo
    <3>2. CASE v # w
      <4>1. PICK d \in Events : work[v] = d /\ work'[v] = d
            BY <1>2, <2>1, <3>2, BusyShape DEF CastsInv
      <4>2. Sound(d)'
            BY <1>2, <2>1, <3>2, <4>1
      <4>3. QED BY <4>1, <4>2 DEF Sound, FipsVia, Sole, Prefixes, Served,
                SpeakersFor, HopsFor, BoundTo
    <3>3. QED BY <3>1, <3>2
  <2>2. \A v \in Workers \ {w} :
            Busy(v) => Involved(work[v])' = Involved(work[v])
    <3>1. SUFFICES ASSUME NEW v \in Workers \ {w}, Busy(v)
                   PROVE  Involved(work[v])' = Involved(work[v])
          OBVIOUS
    <3>2. PICK d \in Events : work[v] = d /\ work'[v] = d
          BY <1>2, <3>1, BusyShape DEF CastsInv
    <3>3. Prefixes(d.router)' = Prefixes(d.router)
          BY <3>1, <3>2
    <3>4. QED BY <3>2, <3>3 DEF Involved, Prefixes
  <2>3. \A v \in Workers \ {w} :
            Busy(v) => Involved(work[v]) \cap Involved(e) = {}
        BY <1>1 DEF Overtakes, Busy
  <2>4. ASSUME NEW u \in Workers, NEW v \in Workers, u # v, Busy(u)', Busy(v)'
        PROVE  Involved(work[u])' \cap Involved(work[v])' = {}
    <3>0. Involved(work[w])' \subseteq Involved(e)
          BY <1>2 DEF Involved, Prefixes
    <3>1. CASE u = w
          BY <1>2, <2>2, <2>3, <2>4, <3>0, <3>1
    <3>2. CASE v = w
          BY <1>2, <2>2, <2>3, <2>4, <3>0, <3>2
    <3>3. CASE u # w /\ v # w
          BY <1>1, <1>2, <2>2, <2>4, <3>3 DEF CastsInv, EventsSound, Apart
    <3>4. QED BY <3>1, <3>2, <3>3
  <2>5. QED BY <2>1, <2>4 DEF EventsSound, Apart
<1>4. AnnouncedOrComing'
  <2>1. SUFFICES ASSUME NEW s \in trusted, NEW q, q \in RoutesOf(s)', Central(q, s)
                 PROVE  \/ q \in Ahead(s)
                        \/ \E v \in Workers : Busy(v)' /\ Announces(work'[v], q)
        BY <1>1, AheadUnchanged DEF AnnouncedOrComing, Central, Announces
  <2>2. QueryFits'
        BY QueryLeads, PTL
  <2>3. q \in Routes /\ Leads(q)'
        BY <1>1, <2>1, <2>2 DEF QueryFits, Central
  <2>4. CASE Leads(q)
    <3>1. q \in RoutesOf(s)
          BY <1>1, <2>1, <2>4, QueryFrame DEF CastsInv
    <3>2. \/ q \in Ahead(s)
          \/ \E v \in Workers : Busy(v) /\ Announces(work[v], q)
          BY <2>1, <3>1 DEF CastsInv, AnnouncedOrComing
    <3>3. QED BY <1>1, <1>2, <3>2 DEF Busy
  <2>5. CASE ~Leads(q)
    <3>1. Announces(e, q)
          BY <1>1, <2>1, <2>3, <2>5
    <3>2. QED BY <1>2, <3>1 DEF Busy
  <2>6. QED BY <2>4, <2>5
<1>5. LeadsOrGoing'
  <2>1. SUFFICES ASSUME NEW s \in trusted, NEW q \in Ahead(s), Central(q, s)
                 PROVE  /\ Meant(q, s)'
                        /\ \/ Leads(q)'
                           \/ \E v \in Workers : Busy(v)' /\ Withdraws(work[v], q)'
        BY <1>1, AheadUnchanged DEF LeadsOrGoing, Central
  <2>2. /\ Meant(q, s)
        /\ \/ Leads(q)
           \/ \E v \in Workers : Busy(v) /\ Withdraws(work[v], q)
        BY <2>1 DEF CastsInv, LeadsOrGoing
  <2>3. BoundTo(s)' = BoundTo(s)
        BY <1>1 DEF speakerVars, BoundTo
  <2>4. Meant(q, s)'
        BY <2>1, <2>2, <2>3 DEF Meant, Central
  <2>5. CASE Leads(q)
    <3>1. q \in Routes /\ s \in Speakers
          BY <1>1, AheadTyped DEF CastsInv
    <3>2. Leads(q)' \/ Withdraws(e, q)'
          BY <2>1, <2>2, <2>5, <3>1
    <3>3. Withdraws(e, q)' => Withdraws(work[w], q)'
          BY <1>2 DEF Withdraws, Prefixes
    <3>4. QED BY <1>2, <2>4, <3>2, <3>3 DEF Busy
  <2>6. CASE \E v \in Workers : Busy(v) /\ Withdraws(work[v], q)
    <3>1. PICK v \in Workers : Busy(v) /\ Withdraws(work[v], q)
          BY <2>6
    <3>2. v # w
          BY <1>1, <3>1 DEF Busy
    <3>3. PICK d \in Events : work[v] = d /\ work'[v] = d
          BY <1>2, <3>1, <3>2, BusyShape DEF CastsInv
    <3>4. Prefixes(d.router)' = Prefixes(d.router)
          BY <3>1, <3>2, <3>3
    <3>5. Withdraws(work[v], q)'
          BY <3>1, <3>3, <3>4 DEF Withdraws, Prefixes
    <3>6. QED BY <1>2, <2>4, <3>1, <3>2, <3>5
  <2>7. QED BY <2>2, <2>5, <2>6
<1>6. QED BY <1>3, <1>4, <1>5

-----------------------------------------------------------------------------
(* The commits of each kind.                                                *)

\* A new interface.
LEMMA AddInterfaceKeeps ==
    ASSUME CastsInv, TypeOK', NEW w \in Workers, NEW i \in Interfaces,
           AddInterface(w, i)
    PROVE  EventsSound' /\ AnnouncedOrComing' /\ LeadsOrGoing'
<1>1. CASE trusted' = {}
      BY <1>1, Untrusted
<1>2. CASE trusted' # {}
  <2>1. PICK e : e = [Event("added", i.router, gateway[i.router])
                        EXCEPT !.cidr = i.subnet]
        OBVIOUS
  <2>2. /\ i.router \in Routers /\ i.subnet \in Subnets
        /\ i.router # None /\ i.subnet # None
        /\ i = [router |-> i.router, subnet |-> i.subnet]
        BY NoneAssumption DEF Interfaces
  <2>3. /\ e \in Events
        /\ e.kind = "added" /\ e.router = i.router /\ e.cidr = i.subnet
        /\ e.hops = gateway[i.router] /\ e.last = None /\ e.fip = None
        BY <2>1, <2>2, EventTyped DEF CastsInv, TypeOK, Event, NoEvent
  <2>4. /\ Commits(w, e, i.router \in up)
        /\ interfaces' = interfaces \cup {i}
        /\ UNCHANGED <<gateway, up, hostOf, fips, speakerVars>>
        BY <2>1 DEF AddInterface, Commits
  <2>5. i.router \in up /\ ~Overtakes(w, e)
        BY <1>2, <2>4 DEF Commits
  <2>6. i.router \in Involved(e) /\ i.subnet \in Involved(e)
        BY <2>2, <2>3 DEF Involved
  <2>7. ASSUME NEW v \in Workers \ {w}, NEW d \in Events, Busy(v), work[v] = d
        PROVE  Sound(d)' /\ Prefixes(d.router)' = Prefixes(d.router)
    <3>1. Sound(d)
          BY <1>2, <2>4, <2>7 DEF CastsInv, EventsSound, Commits
    <3>2. /\ i.router # d.router /\ i.subnet # d.cidr
          /\ i.subnet \notin Prefixes(d.router)
          BY <2>5, <2>6, <2>7, NotOvertaking
    <3>3. Prefixes(d.router)' = Prefixes(d.router)
          BY <2>4, <3>2 DEF Prefixes
    <3>4. QED BY <2>4, <3>1, <3>2, <3>3, SoundKept DEF CastsInv, FipsVia
  <2>8. Sound(e)'
        BY <2>3, <2>4, <2>5 DEF Sound
  <2>9. Involved(e)' \subseteq Involved(e)
        BY <2>3, <2>4 DEF Involved, Prefixes
  <2>10. ASSUME NEW q, NEW s, Leads(q)', ~Leads(q)
         PROVE  Announces(e, q)
         BY <2>2, <2>3, <2>4, <2>10 DEF Leads, Announces
  <2>11. \A q : Leads(q) => Leads(q)'
         BY <2>4 DEF Leads
  <2>12. QED BY <1>2, <2>3, <2>4, <2>7, <2>8, <2>9, <2>10, <2>11, CommitKeeps
<1>3. QED BY <1>1, <1>2

\* An interface less.
LEMMA RemoveInterfaceKeeps ==
    ASSUME CastsInv, TypeOK', NEW w \in Workers, NEW i \in Interfaces,
           RemoveInterface(w, i)
    PROVE  EventsSound' /\ AnnouncedOrComing' /\ LeadsOrGoing'
<1>1. CASE trusted' = {}
      BY <1>1, Untrusted
<1>2. CASE trusted' # {}
  <2> DEFINE X == gateway[i.router]
             told == Served(X) = SpeakersFor(X) /\ Sole({i.subnet}, i.router)
  <2>1. PICK e : e = [Event("removed", i.router, X) EXCEPT !.cidr = i.subnet]
        OBVIOUS
  <2>2. /\ i.router \in Routers /\ i.subnet \in Subnets
        /\ i.router # None /\ i.subnet # None
        BY NoneAssumption DEF Interfaces
  <2>3. /\ e \in Events
        /\ e.kind = "removed" /\ e.router = i.router /\ e.cidr = i.subnet
        /\ e.hops = X /\ e.last = None /\ e.fip = None
        BY <2>1, <2>2, EventTyped DEF CastsInv, TypeOK, Event, NoEvent
  <2>4. /\ Commits(w, e, told)
        /\ interfaces' = interfaces \ {i}
        /\ UNCHANGED <<gateway, up, hostOf, fips, speakerVars>>
        BY <2>1 DEF RemoveInterface, Commits
  <2>5. told /\ ~Overtakes(w, e)
        BY <1>2, <2>4 DEF Commits
  <2>6. i.router \in Involved(e) /\ i.subnet \in Involved(e)
        BY <2>2, <2>3 DEF Involved
  <2>7. ASSUME NEW v \in Workers \ {w}, NEW d \in Events, Busy(v), work[v] = d
        PROVE  Sound(d)' /\ Prefixes(d.router)' = Prefixes(d.router)
    <3>1. Sound(d)
          BY <1>2, <2>4, <2>7 DEF CastsInv, EventsSound, Commits
    <3>2. i.router # d.router
          BY <2>5, <2>6, <2>7, NotOvertaking
    <3>3. Prefixes(d.router)' = Prefixes(d.router)
          BY <2>4, <3>2 DEF Prefixes
    <3>4. QED BY <2>4, <3>1, <3>3, SoundKept DEF CastsInv, FipsVia
  <2>8. Sound(e)'
    <3>1. SpeakersFor(X)' = SpeakersFor(X) /\ Served(X)' = Served(X)
          BY <2>4 DEF speakerVars, Served, SpeakersFor, HopsFor, BoundTo
    <3>2. \A j \in interfaces' : j.subnet # i.subnet
      <4>1. SUFFICES ASSUME NEW j \in interfaces', j.subnet = i.subnet
                     PROVE  FALSE
            OBVIOUS
      <4>2. j \in Interfaces /\ j # i /\ j.router = i.router
            BY <2>4, <2>5, <4>1 DEF Sole, CastsInv, TypeOK
      <4>3. QED BY <4>1, <4>2 DEF Interfaces
    <3>3. QED BY <2>3, <2>4, <2>5, <3>1, <3>2 DEF Sound
  <2>9. Involved(e)' \subseteq Involved(e)
        BY <2>3, <2>4 DEF Involved, Prefixes
  <2>10. \A q : Leads(q)' => Leads(q)
         BY <2>4 DEF Leads
  <2>11. ASSUME NEW q, Leads(q), ~Leads(q)'
         PROVE  Withdraws(e, q)'
         BY <2>2, <2>3, <2>4, <2>11 DEF Leads, Withdraws
  <2>12. QED BY <1>2, <2>3, <2>4, <2>7, <2>8, <2>9, <2>10, <2>11, CommitKeeps
<1>3. QED BY <1>1, <1>2

\* A router whose gateway has no address has no floating IPs.
LEMMA NoGateway ==
    ASSUME TypeOK, FipsRouted, NEW r \in Routers, gateway[r] = {}
    PROVE  FipsVia(r) = {}
<1>1. SUFFICES ASSUME NEW f \in FloatingIps, fips[f].router = r
               PROVE  FALSE
      BY DEF FipsVia
<1>2. fips[f] # NotAssociated
      BY <1>1, NoneAssumption DEF NotAssociated
<1>3. QED BY <1>1, <1>2 DEF FipsRouted

\* A gateway for a router that has none.
LEMMA SetGatewayKeeps ==
    ASSUME CastsInv, TypeOK', NEW w \in Workers, NEW r \in Routers,
           NEW X \in GatewayPorts, SetGateway(w, r, X)
    PROVE  EventsSound' /\ AnnouncedOrComing' /\ LeadsOrGoing'
<1>1. CASE trusted' = {}
      BY <1>1, Untrusted
<1>2. CASE trusted' # {}
  <2>1. PICK e : e = Event("added", r, X)
        OBVIOUS
  <2>2. /\ e \in Events /\ r # None
        /\ e.kind = "added" /\ e.router = r /\ e.cidr = None
        /\ e.hops = X /\ e.last = None /\ e.fip = None
        BY <2>1, EventTyped, NoneAssumption DEF Event, NoEvent
  <2>3. /\ Commits(w, e, r \in up)
        /\ gateway[r] = {}
        /\ gateway' = [gateway EXCEPT ![r] = X]
        /\ UNCHANGED <<up, interfaces, hostOf, fips, speakerVars>>
        BY <2>1 DEF SetGateway, Commits
  <2>4. /\ gateway \in [Routers -> GatewayPorts]
        /\ gateway'[r] = X
        /\ \A t \in Routers \ {r} : gateway'[t] = gateway[t]
        BY <2>3 DEF CastsInv, TypeOK
  <2>5. r \in up /\ ~Overtakes(w, e) /\ r \in Involved(e)
        BY <1>2, <2>2, <2>3 DEF Commits, Involved
  <2>6. ASSUME NEW v \in Workers \ {w}, NEW d \in Events, Busy(v), work[v] = d
        PROVE  Sound(d)' /\ Prefixes(d.router)' = Prefixes(d.router)
    <3>1. Sound(d)
          BY <1>2, <2>3, <2>6 DEF CastsInv, EventsSound, Commits
    <3>2. r # d.router
          BY <2>5, <2>6, NotOvertaking
    <3>3. Prefixes(d.router)' = Prefixes(d.router)
          BY <2>3 DEF Prefixes
    <3>4. QED BY <2>3, <2>4, <3>1, <3>2, <3>3, SoundKept DEF CastsInv, FipsVia
  <2>7. Sound(e)'
        BY <2>2, <2>3, <2>4, <2>5 DEF Sound
  <2>8. Involved(e)' \subseteq Involved(e)
        BY <2>3 DEF Involved, Prefixes
  <2>9. FipsVia(r) = {}
        BY <2>3, NoGateway DEF CastsInv
  <2>10. ASSUME NEW q \in Routes, NEW s \in Speakers, Central(q, s),
                Leads(q)', ~Leads(q)
         PROVE  Announces(e, q)
    <3>1. q.next_hop.owner = r
          BY <2>3, <2>4, <2>10 DEF Leads, Central
    <3>2. q.destination \in Subnets
          BY <2>3, <2>9, <2>10, <3>1 DEF Leads, FipsVia
    <3>3. QED BY <2>2, <3>1, <3>2 DEF Announces
  <2>11. ASSUME NEW q \in Routes, NEW s \in Speakers, Central(q, s), Leads(q)
         PROVE  Leads(q)'
         BY <2>3, <2>4, <2>11 DEF Leads, Central
  <2>12. \A t \in Routers : gateway[t] \subseteq gateway'[t]
         BY <2>3, <2>4
  <2>13. QED BY <1>2, <2>2, <2>3, <2>6, <2>7, <2>8, <2>10, <2>11, <2>12,
             CommitKeeps
<1>3. QED BY <1>1, <1>2

\* A router is taken down or up.
LEMMA ToggleRouterKeeps ==
    ASSUME CastsInv, TypeOK', NEW w \in Workers, NEW r \in Routers,
           ToggleRouter(w, r)
    PROVE  EventsSound' /\ AnnouncedOrComing' /\ LeadsOrGoing'
<1> DEFINE X == gateway[r]
           told == /\ FipsVia(r) = {}
                   /\ r \in up => /\ Served(X) = SpeakersFor(X)
                                  /\ Sole(Prefixes(r), r)
<1>1. /\ up' = IF r \in up THEN up \ {r} ELSE up \cup {r}
      /\ UNCHANGED <<speakerVars, gateway, interfaces, hostOf, fips>>
      BY DEF ToggleRouter
<1>2. /\ r \in up' <=> r \notin up
      /\ \A t \in Routers \ {r} : t \in up' <=> t \in up
      BY <1>1
<1>3. CASE trusted' = {}
      BY <1>3, Untrusted
<1>4. CASE trusted' # {} /\ X # {}
  <2>1. PICK e : e = Event(IF r \in up THEN "down" ELSE "added", r, X)
        OBVIOUS
  <2>2. /\ e \in Events /\ r # None
        /\ e.kind = IF r \in up THEN "down" ELSE "added"
        /\ e.router = r /\ e.cidr = None
        /\ e.hops = X /\ e.last = None /\ e.fip = None
        BY <2>1, EventTyped, NoneAssumption
           DEF Event, NoEvent, CastsInv, TypeOK
  <2>3. Commits(w, e, told)
        BY <1>4, <2>1 DEF ToggleRouter
  <2>4. told /\ ~Overtakes(w, e) /\ r \in Involved(e)
        BY <1>4, <2>2, <2>3 DEF Commits, Involved
  <2>5. ASSUME NEW v \in Workers \ {w}, NEW d \in Events, Busy(v), work[v] = d
        PROVE  Sound(d)' /\ Prefixes(d.router)' = Prefixes(d.router)
    <3>1. Sound(d)
          BY <1>4, <2>3, <2>5 DEF CastsInv, EventsSound, Commits
    <3>2. r # d.router
          BY <2>4, <2>5, NotOvertaking
    <3>3. Prefixes(d.router)' = Prefixes(d.router)
          BY <1>1 DEF Prefixes
    <3>4. QED BY <1>1, <1>2, <3>1, <3>2, <3>3, SoundKept DEF CastsInv, FipsVia
  <2>6. Sound(e)'
    <3>1. /\ SpeakersFor(X)' = SpeakersFor(X) /\ Served(X)' = Served(X)
          /\ FipsVia(r)' = FipsVia(r)
          /\ Sole(Prefixes(r), r)' <=> Sole(Prefixes(r), r)
          BY <1>1 DEF speakerVars, Served, SpeakersFor, HopsFor, BoundTo,
             FipsVia, Sole, Prefixes
    <3>2. QED BY <1>1, <1>2, <1>4, <2>2, <2>4, <3>1 DEF Sound
  <2>7. Involved(e)' \subseteq Involved(e)
        BY <1>1 DEF Involved, Prefixes
  <2>8. ASSUME NEW q \in Routes, NEW s \in Speakers, Central(q, s),
               Leads(q)' # Leads(q)
        PROVE  q.next_hop.owner = r /\ q.destination \in Subnets
    <3>1. q.next_hop.owner = r
          BY <1>1, <1>2, <2>8 DEF Leads, Central
    <3>2. q.destination \in Subnets
          BY <1>1, <2>4, <2>8, <3>1 DEF Leads, FipsVia
    <3>3. QED BY <3>1, <3>2
  <2>9. ASSUME NEW q \in Routes, NEW s \in Speakers, Central(q, s),
               Leads(q)', ~Leads(q)
        PROVE  Announces(e, q)
    <3>1. q.next_hop.owner = r /\ q.destination \in Subnets
          BY <2>8, <2>9
    <3>2. r \notin up
          BY <1>1, <1>2, <2>9, <3>1 DEF Leads
    <3>3. QED BY <2>2, <3>1, <3>2 DEF Announces
  <2>10. ASSUME NEW q \in Routes, NEW s \in Speakers, Central(q, s),
                Leads(q), ~Leads(q)'
         PROVE  Withdraws(e, q)'
    <3>1. q.next_hop.owner = r /\ q.destination \in Subnets
          BY <2>8, <2>10
    <3>2. r \in up
          BY <3>1, <2>10 DEF Leads
    <3>3. [router |-> r, subnet |-> q.destination] \in interfaces
          BY <2>10, <3>1, KindAssumption DEF Leads
    <3>4. q.destination \in Prefixes(r)'
          BY <1>1, <3>3 DEF Prefixes
    <3>5. QED BY <2>2, <3>1, <3>2, <3>4 DEF Withdraws
  <2>11. QED BY <1>1, <1>4, <2>2, <2>3, <2>5, <2>6, <2>7, <2>9, <2>10,
             CommitKeeps
<1>5. CASE trusted' # {} /\ X = {}
  <2>1. UNCHANGED <<work, agentVars, trusted>>
        BY <1>5 DEF ToggleRouter
  <2>2. ASSUME NEW v \in Workers, Busy(v)
        PROVE  /\ Sound(work[v])'
               /\ Prefixes(work[v].router)' = Prefixes(work[v].router)
    <3>1. PICK d \in Events : work[v] = d
          BY <2>2, BusyShape DEF CastsInv
    <3>2. Sound(d)
          BY <1>5, <2>1, <2>2, <3>1 DEF CastsInv, EventsSound
    <3>3. FipsVia(r) = {}
          BY <1>5, NoGateway DEF CastsInv
    <3>4. /\ SpeakersFor(d.hops)' = SpeakersFor(d.hops)
          /\ Served(d.hops)' = Served(d.hops)
          /\ FipsVia(d.router)' = FipsVia(d.router)
          /\ Prefixes(d.router)' = Prefixes(d.router)
          /\ Sole(Prefixes(d.router), d.router)'
               <=> Sole(Prefixes(d.router), d.router)
          BY <1>1 DEF speakerVars, Served, SpeakersFor, HopsFor, BoundTo,
             FipsVia, Sole, Prefixes
    <3>5. d.kind = "fip" => d.router # r
          BY <3>2, <3>3, EventShape DEF Sound, FipsVia
    <3>6. Sound(d)'
          BY <1>1, <1>2, <1>5, <3>2, <3>4, <3>5, EventShape, NoneAssumption
             DEF Sound
    <3>7. QED BY <2>1, <3>1, <3>4, <3>6
              DEF Sound, Served, SpeakersFor, HopsFor, BoundTo, FipsVia, Sole,
                  Prefixes
  <2>3. EventsSound'
        BY <1>1, <2>1, <2>2
           DEF CastsInv, EventsSound, Apart, Busy, Involved, Prefixes
  <2>4. ASSUME NEW q, NEW s, Central(q, s)
        PROVE  Leads(q)' <=> Leads(q)
        BY <1>1, <1>2, <1>5, <2>4 DEF Leads, Central
  <2>5. AnnouncedOrComing'
    <3>1. SUFFICES ASSUME NEW s \in trusted, NEW q, q \in RoutesOf(s)',
                          Central(q, s)
                   PROVE  \/ q \in Ahead(s)
                          \/ \E v \in Workers : Busy(v) /\ Announces(work[v], q)
          BY <2>1, AheadUnchanged
             DEF AnnouncedOrComing, Central, Announces, Busy
    <3>2. QueryFits'
          BY QueryLeads, PTL
    <3>3. s \in Speakers
          BY DEF CastsInv, TypeOK
    <3>4. Leads(q)
          BY <2>4, <3>1, <3>2, <3>3 DEF QueryFits, Central
    <3>5. q \in RoutesOf(s)
          BY <1>1, <3>1, <3>3, <3>4, QueryFrame DEF CastsInv
    <3>6. QED BY <3>1, <3>5 DEF CastsInv, AnnouncedOrComing
  <2>6. LeadsOrGoing'
        BY <1>1, <2>1, <2>4, AheadUnchanged
           DEF CastsInv, LeadsOrGoing, Meant, Central, BoundTo, Withdraws,
               Prefixes, Busy, speakerVars
  <2>7. QED BY <2>3, <2>5, <2>6
<1>6. QED BY <1>3, <1>4, <1>5

\* A floating IP is associated, moved or disassociated.
LEMMA UpdateFipKeeps ==
    ASSUME CastsInv, TypeOK', NEW w \in Workers, NEW f \in FloatingIps,
           NEW a \in Associations, UpdateFip(w, f, a)
    PROVE  EventsSound' /\ AnnouncedOrComing' /\ LeadsOrGoing'
<1>1. CASE trusted' = {}
      BY <1>1, Untrusted
<1>2. CASE trusted' # {}
  <2> DEFINE last == fips[f].router
             told == /\ a.router \in up \cup {None}
                     /\ a.router = last => last \notin Distributed
  <2>1. PICK e : e = [NoEvent EXCEPT !.kind = "fip", !.router = a.router,
                                     !.fip = f, !.last = last]
        OBVIOUS
  <2>2. /\ a.router \in Routers \cup {None} /\ last \in Routers \cup {None}
        /\ f # None
        BY NoneAssumption DEF CastsInv, TypeOK, Associations, NotAssociated
  <2>3. /\ e \in Events
        /\ e.kind = "fip" /\ e.router = a.router /\ e.cidr = None
        /\ e.hops = {} /\ e.last = last /\ e.fip = f
        BY <2>1, <2>2 DEF NoEvent, Events, FipEvents, GatewayPorts
  <2>4. /\ Commits(w, e, told)
        /\ fips' = [fips EXCEPT ![f] = a]
        /\ UNCHANGED <<gateway, up, interfaces, hostOf, speakerVars>>
        BY <2>1 DEF UpdateFip, Commits
  <2>5. /\ fips'[f] = a
        /\ \A g \in FloatingIps \ {f} : fips'[g] = fips[g]
        BY <2>4 DEF CastsInv, TypeOK
  <2>6. /\ told /\ ~Overtakes(w, e) /\ f \in Involved(e)
        /\ a.router # None => a.router \in Involved(e)
        BY <1>2, <2>2, <2>3, <2>4 DEF Commits, Involved
  <2>7. ASSUME NEW v \in Workers \ {w}, NEW d \in Events, Busy(v), work[v] = d
        PROVE  Sound(d)' /\ Prefixes(d.router)' = Prefixes(d.router)
    <3>1. Sound(d)
          BY <1>2, <2>4, <2>7 DEF CastsInv, EventsSound, Commits
    <3>2. f # d.fip /\ (a.router # None => a.router # d.router)
          BY <2>6, <2>7, NotOvertaking
    <3>3. Prefixes(d.router)' = Prefixes(d.router)
          BY <2>4 DEF Prefixes
    <3>4. d.router \in Routers => FipsVia(d.router)' \subseteq FipsVia(d.router)
          BY <2>5, <3>2, NoneAssumption DEF FipsVia
    <3>5. QED BY <2>4, <2>5, <3>1, <3>2, <3>3, <3>4, SoundKept DEF CastsInv
  <2>8. Sound(e)'
        BY <2>3, <2>4, <2>5, <2>6 DEF Sound
  <2>9. Involved(e)' \subseteq Involved(e)
        BY <2>4 DEF Involved, Prefixes
  <2>10. ASSUME NEW q \in Routes, NEW s \in Speakers, Central(q, s),
                Leads(q)' # Leads(q)
         PROVE  q.destination = f /\ q.destination \notin Subnets
                                  /\ a.router # last
         BY <2>4, <2>5, <2>10, KindAssumption DEF Leads
  <2>11. ASSUME NEW q \in Routes, NEW s \in Speakers, Central(q, s),
                Leads(q)', ~Leads(q)
         PROVE  Announces(e, q)
         BY <2>3, <2>10, <2>11 DEF Announces
  <2>12. ASSUME NEW q \in Routes, NEW s \in Speakers, Central(q, s),
                Leads(q), ~Leads(q)'
         PROVE  Withdraws(e, q)'
    <3>1. q.destination = f /\ a.router # last
          BY <2>10, <2>12
    <3>2. q.next_hop.owner = last
          BY <2>10, <2>12, <3>1 DEF Leads
    <3>3. QED BY <2>3, <3>1, <3>2 DEF Withdraws
  <2>13. QED BY <1>2, <2>3, <2>4, <2>7, <2>8, <2>9, <2>11, <2>12, CommitKeeps
<1>3. QED BY <1>1, <1>2

\* Clearing a gateway is not announced: no speaker is trusted after it.
LEMMA CommitKeepsCasts ==
    ASSUME CastsInv, TypeOK', NEW w \in Workers, Commit(w)
    PROVE  EventsSound' /\ AnnouncedOrComing' /\ LeadsOrGoing'
<1>1. CASE \E i \in Interfaces : AddInterface(w, i) \/ RemoveInterface(w, i)
      BY <1>1, AddInterfaceKeeps, RemoveInterfaceKeeps
<1>2. CASE \E r \in Routers, X \in GatewayPorts : SetGateway(w, r, X)
      BY <1>2, SetGatewayKeeps
<1>3. CASE \E r \in Routers : ClearGateway(w, r)
      BY <1>3, Untrusted DEF ClearGateway, Commits
<1>4. CASE \E r \in Routers : ToggleRouter(w, r)
      BY <1>4, ToggleRouterKeeps
<1>5. CASE \E f \in FloatingIps, a \in Associations : UpdateFip(w, f, a)
      BY <1>5, UpdateFipKeeps
<1>6. QED BY <1>1, <1>2, <1>3, <1>4, <1>5 DEF Commit

-----------------------------------------------------------------------------
(* Callbacks.                                                               *)

\* The end of a callback leaves the database, and the events of the others.
\* What remains to be shown is that its cast did what its event stood for.
LEMMA CallbackKeeps ==
    ASSUME CastsInv, NEW w \in Workers, NEW kind, Runs(w, kind),
           trusted' \subseteq trusted,
           \A s \in trusted' : \A q \in RoutesOf(s) :
               Central(q, s) /\ (q \in Ahead(s) \/ Announces(work[w], q))
                 => q \in Ahead(s)',
           \A s \in trusted' : \A q \in Ahead(s)' :
               Central(q, s) =>
                   /\ Meant(q, s)
                   /\ \/ Leads(q)
                      \/ \E v \in Workers \ {w} :
                            Busy(v) /\ Withdraws(work[v], q)
    PROVE  EventsSound' /\ AnnouncedOrComing' /\ LeadsOrGoing'
<1>1. /\ work' = [work EXCEPT ![w] = None]
      /\ work \in [Workers -> Events \cup {None}]
      /\ trusted \subseteq Speakers
      /\ UNCHANGED <<speakerVars, neutronVars>>
      BY DEF Runs, CastsInv, TypeOK
<1>2. /\ ~Busy(w)'
      /\ \A v \in Workers \ {w} : work'[v] = work[v] /\ (Busy(v)' <=> Busy(v))
      BY <1>1 DEF Busy
<1>3. EventsSound'
  <2>1. ASSUME NEW v \in Workers \ {w}, Sound(work[v])
        PROVE  Sound(work[v])'
        BY <1>1, <1>2, <2>1 DEF Sound, FipsVia, Sole, Prefixes, Served,
           SpeakersFor, HopsFor, BoundTo, speakerVars, neutronVars
  <2>2. \A v \in Workers \ {w} : Involved(work[v])' = Involved(work[v])
        BY <1>1, <1>2 DEF Involved, Prefixes, neutronVars
  <2>3. QED BY <1>1, <1>2, <2>1, <2>2 DEF CastsInv, EventsSound, Apart
<1>4. AnnouncedOrComing'
  <2>1. SUFFICES ASSUME NEW s \in trusted', NEW q \in RoutesOf(s), Central(q, s)
                 PROVE  \/ q \in Ahead(s)'
                        \/ \E v \in Workers : Busy(v)' /\ Announces(work'[v], q)
        BY <1>1, QueryUnchanged DEF AnnouncedOrComing, Central, Announces
  <2>2. \/ q \in Ahead(s)
        \/ \E v \in Workers : Busy(v) /\ Announces(work[v], q)
        BY <2>1 DEF CastsInv, AnnouncedOrComing
  <2>3. QED BY <1>2, <2>1, <2>2
<1>5. LeadsOrGoing'
      BY <1>1, <1>2 DEF LeadsOrGoing, Meant, Leads, Central, BoundTo, Withdraws,
         Prefixes, speakerVars, neutronVars
<1>6. QED BY <1>3, <1>4, <1>5

\* The facts that the callback of a busy worker has about its event.
LEMMA CallbackFacts ==
    ASSUME CastsInv, NEW w \in Workers, NEW kind, Runs(w, kind),
           NEW s \in trusted
    PROVE  /\ work[w] \in Events /\ work[w].kind = kind
           /\ Sound(work[w])
           /\ s \in Speakers
           /\ \A q \in Ahead(s) :
                  Central(q, s) =>
                      /\ Meant(q, s)
                      /\ \/ Leads(q)
                         \/ \E v \in Workers : Busy(v) /\ Withdraws(work[v], q)
BY DEF CastsInv, TypeOK, Runs, Busy, EventsSound, LeadsOrGoing

\* All prefixes of the router are announced by way of its gateway.
LEMMA AfterCreateKeeps ==
    ASSUME CastsInv, NEW w \in Workers, AfterCreate(w)
    PROVE  EventsSound' /\ AnnouncedOrComing' /\ LeadsOrGoing'
<1> DEFINE e == work[w]
           new == [s \in Speakers |->
                     IF s \in SpeakersFor(e.hops)
                     THEN RoutesVia(PrefixesOf(e.router), e.router,
                                    HopsFor(e.hops, s))
                     ELSE {}]
<1>1. Runs(w, "added") /\ Cast(new, NoRoutes)
      BY DEF AfterCreate
<1>2. ASSUME NEW s \in trusted'
      PROVE  /\ s \in Speakers /\ e.router \in Routers
             /\ e.kind = "added"
             /\ e.hops \in GatewayPorts /\ e.hops = gateway[e.router]
             /\ e.hops = {} \/ e.router \in up
      BY <1>1, CallbackFacts, EventShape, CastEffect DEF Sound
<1>3. ASSUME NEW s \in trusted', NEW q \in RoutesOf(s), Central(q, s),
             q \in Ahead(s) \/ Announces(e, q)
      PROVE  q \in Ahead(s)'
  <2>1. CASE q \in Ahead(s)
        BY <1>1, <1>2, <2>1, CastKeeps DEF NoRoutes
  <2>2. CASE Announces(e, q)
    <3>1. e.router = q.next_hop.owner /\ q.destination \in Subnets
          BY <1>2, <2>2 DEF Announces
    <3>2. /\ q \in Routes
          /\ q.next_hop.subnet \in e.hops
          /\ NetworkOf[q.next_hop.subnet] \in BoundTo(s)
          /\ ByPrefix(q, s)
          BY <1>2, <1>3, <3>1, QueryShape, KindAssumption
             DEF QueryForms, CastsInv, ByFip
    <3>3. s \in SpeakersFor(e.hops) /\ q.next_hop.subnet \in HopsFor(e.hops, s)
          BY <1>2, <1>3, <3>2 DEF SpeakersFor, HopsFor, Central
    <3>4. q.destination \in PrefixesOf(e.router)
          BY <1>2, <1>3, <3>1, <3>2, <3>3 DEF PrefixesOf, ByPrefix, Central
    <3>5. q = Route(q.destination, Via(e.router, q.next_hop.subnet))
          BY <1>3, <3>1, <3>2, RouteParts DEF Central
    <3>6. q \in new[s]
          BY <1>2, <3>3, <3>4, <3>5 DEF RoutesVia
    <3>7. QED BY <1>1, <1>2, <1>3, <3>2, <3>6, CastAnnounces
              DEF CastsInv, Central
  <2>3. QED BY <1>3, <2>1, <2>2
<1>4. ASSUME NEW s \in trusted', NEW q, q \in Ahead(s)', Central(q, s)
      PROVE  /\ Meant(q, s)
             /\ \/ Leads(q)
                \/ \E v \in Workers \ {w} : Busy(v) /\ Withdraws(work[v], q)
  <2>1. CASE q \in new[s]
    <3>1. s \in SpeakersFor(e.hops)
          BY <1>2, <2>1
    <3>2. PICK d \in PrefixesOf(e.router), x \in HopsFor(e.hops, s) :
               q = Route(d, Via(e.router, x))
          BY <1>2, <2>1, <3>1 DEF RoutesVia
    <3>3. /\ q.destination = d /\ q.next_hop.owner = e.router
          /\ q.next_hop.subnet = x
          BY <3>2 DEF Route, Via
    <3>4. /\ d \in Pooled /\ d \in Subnets
          /\ [router |-> e.router, subnet |-> d] \in interfaces
          BY <1>2 DEF PrefixesOf, CastsInv, TypeOK, Interfaces
    <3>5. NetworkOf[x] \in BoundTo(s)
          BY <1>2, <3>1 DEF SpeakersFor, HopsFor, GatewayPorts
    <3>6. x \in gateway[e.router] /\ e.router \in up
          BY <1>2 DEF HopsFor
    <3>7. Meant(q, s)
          BY <3>3, <3>4, <3>5, <3>6, KindAssumption DEF Meant
    <3>8. Leads(q)
          BY <3>3, <3>4, <3>6 DEF Leads
    <3>9. QED BY <3>7, <3>8
  <2>2. CASE q \notin new[s]
    <3>1. q \in Ahead(s)
          BY <1>1, <1>2, <1>4, <2>2, CastOrigin
    <3>2. /\ Meant(q, s)
          /\ \/ Leads(q)
             \/ \E v \in Workers : Busy(v) /\ Withdraws(work[v], q)
          BY <1>1, <1>4, <3>1, CastEffect, CallbackFacts
    <3>3. ~Withdraws(e, q)
          BY <1>2 DEF Withdraws
    <3>4. QED BY <3>2, <3>3
  <2>3. QED BY <2>1, <2>2
<1>5. QED BY <1>1, <1>3, <1>4, CastEffect, CallbackKeeps

\* A withdrawal brings no route.
LEMMA WithdrawalBrings ==
    ASSUME CastsInv, NEW e, NEW prefixes, NEW done, WithdrawVia(prefixes, e, done),
           NEW s \in trusted', NEW q, q \in Ahead(s)'
    PROVE  /\ trusted' \subseteq trusted
           /\ q \in Ahead(s)
<1> DEFINE old == [t \in Speakers |->
                     IF t \in SpeakersFor(e.hops)
                     THEN RoutesVia(prefixes, e.router,
                                    UNION {HopsFor(e.hops, u) : u \in done})
                     ELSE {}]
<1>1. Cast(NoRoutes, old)
      BY DEF WithdrawVia
<1> HIDE DEF old
<1>2. s \in Speakers /\ trusted' \subseteq trusted
      BY <1>1, CastEffect DEF CastsInv, TypeOK
<1>3. QED BY <1>1, <1>2, CastOrigin DEF NoRoutes

\* What a withdrawal by way of a router's gateway takes away: the central routes
\* to the prefixes by way of the router.
LEMMA WithdrawalTakes ==
    ASSUME CastsInv, NEW e, NEW prefixes,
           WithdrawVia(prefixes, e, SpeakersFor(e.hops)),
           e.hops = gateway[e.router],
           NEW s \in trusted', NEW q, q \in Ahead(s)', Central(q, s),
           Meant(q, s)
    PROVE  /\ q \in Ahead(s)
           /\ ~(q.next_hop.owner = e.router /\ q.destination \in prefixes)
<1> DEFINE old == [t \in Speakers |->
                     IF t \in SpeakersFor(e.hops)
                     THEN RoutesVia(prefixes, e.router,
                            UNION {HopsFor(e.hops, u) : u \in SpeakersFor(e.hops)})
                     ELSE {}]
<1>1. Cast(NoRoutes, old)
      BY DEF WithdrawVia
<1> HIDE DEF old
<1>0. s \in Speakers
      BY <1>1, CastEffect DEF CastsInv, TypeOK
<1>2. /\ q \in Ahead(s)
      /\ \A o \in old[s] : o.destination = q.destination =>
                              ~Advertised(Ahead(s), o)
      BY <1>1, <1>0, CastOrigin DEF NoRoutes
<1>3. ASSUME q.next_hop.owner = e.router, q.destination \in prefixes
      PROVE  FALSE
  <2>1. q \in Routes
        BY <1>0, <1>2, AheadTyped DEF CastsInv
  <2>2. q = Route(q.destination, Via(e.router, q.next_hop.subnet))
        BY <1>3, <2>1, RouteParts DEF Central
  <2>3. /\ s \in SpeakersFor(e.hops)
        /\ q.next_hop.subnet \in HopsFor(e.hops, s)
        BY <1>0, <1>3 DEF Meant, SpeakersFor, HopsFor, Central
  <2>4. q \in old[s]
        BY <1>0, <1>3, <2>2, <2>3 DEF old, RoutesVia
  <2>5. Advertised(Ahead(s), q)
        BY <1>2 DEF Advertised
  <2>6. QED BY <1>2, <2>4, <2>5
<1>4. QED BY <1>2, <1>3

\* It takes away no route to another destination.
LEMMA WithdrawalLeaves ==
    ASSUME CastsInv, NEW e, NEW prefixes, NEW done, WithdrawVia(prefixes, e, done),
           NEW s \in trusted', NEW q \in Ahead(s), q.destination \notin prefixes
    PROVE  q \in Ahead(s)'
<1> DEFINE old == [t \in Speakers |->
                     IF t \in SpeakersFor(e.hops)
                     THEN RoutesVia(prefixes, e.router,
                                    UNION {HopsFor(e.hops, u) : u \in done})
                     ELSE {}]
<1>1. Cast(NoRoutes, old)
      BY DEF WithdrawVia
<1>2. \A o \in old[s] : o.destination # q.destination
  <2>1. s \in Speakers
        BY <1>1, CastEffect DEF CastsInv, TypeOK
  <2>2. QED BY <2>1 DEF RoutesVia, Route
<1> HIDE DEF old
<1>3. QED BY <1>1, <1>2, CastKeeps

\* The prefix of an interface that is gone is withdrawn.
LEMMA AfterRemoveKeeps ==
    ASSUME CastsInv, NEW w \in Workers, AfterRemove(w)
    PROVE  EventsSound' /\ AnnouncedOrComing' /\ LeadsOrGoing'
<1> DEFINE e == work[w]
           P == {e.cidr}
<1>1. Runs(w, "removed")
      BY DEF AfterRemove
<1>0. trusted' \subseteq trusted
      BY CastEffect DEF AfterRemove, WithdrawVia
<1>2. ASSUME NEW s \in trusted'
      PROVE  /\ s \in Speakers
             /\ e.kind = "removed" /\ e.hops = gateway[e.router]
             /\ e.cidr \in Subnets \cup {None}
             /\ \A i \in interfaces : i.subnet # e.cidr
             /\ WithdrawVia(P, e, SpeakersFor(e.hops))
      BY <1>0, <1>1, CallbackFacts, EventShape DEF Sound, AfterRemove
<1>3. ASSUME NEW s \in trusted', NEW q \in RoutesOf(s), Central(q, s),
             q \in Ahead(s) \/ Announces(e, q)
      PROVE  q \in Ahead(s)'
  <2>1. ByPrefix(q, s) \/ ByFip(q, s)
        BY <1>2, <1>3, QueryShape DEF QueryForms, CastsInv
  <2>2. q.destination \notin P
        BY <1>2, <2>1, KindAssumption, NoneAssumption DEF ByPrefix, ByFip
  <2>3. q \in Ahead(s)
        BY <1>2, <1>3 DEF Announces
  <2>4. QED BY <1>2, <2>2, <2>3, WithdrawalLeaves
<1>4. ASSUME NEW s \in trusted', NEW q, q \in Ahead(s)', Central(q, s)
      PROVE  /\ Meant(q, s)
             /\ \/ Leads(q)
                \/ \E v \in Workers \ {w} : Busy(v) /\ Withdraws(work[v], q)
  <2>1. q \in Ahead(s)
        BY <1>2, <1>4, WithdrawalBrings
  <2>2. /\ Meant(q, s)
        /\ \/ Leads(q)
           \/ \E v \in Workers : Busy(v) /\ Withdraws(work[v], q)
        BY <1>1, <1>4, <2>1, <1>0, CallbackFacts
  <2>3. ~(q.next_hop.owner = e.router /\ q.destination \in P)
    <3> HIDE DEF P, e
    <3>1. QED BY <1>2, <1>4, <2>2, WithdrawalTakes
  <2>4. ~Withdraws(e, q)
        BY <1>2, <2>3 DEF Withdraws
  <2>5. QED BY <2>2, <2>4
<1>5. QED BY <1>0, <1>1, <1>3, <1>4, CallbackKeeps

\* The prefixes of a router that is taken down are withdrawn.
LEMMA AfterDeleteKeeps ==
    ASSUME CastsInv, NEW w \in Workers, AfterDelete(w)
    PROVE  EventsSound' /\ AnnouncedOrComing' /\ LeadsOrGoing'
<1> DEFINE e == work[w]
           P == PrefixesOf(e.router)
<1>1. Runs(w, "down")
      BY DEF AfterDelete
<1>0. trusted' \subseteq trusted
      BY CastEffect DEF AfterDelete, WithdrawVia
<1>2. ASSUME NEW s \in trusted'
      PROVE  /\ s \in Speakers
             /\ e.kind = "down" /\ e.hops = gateway[e.router]
             /\ e.router \notin up
             /\ Sole(Prefixes(e.router), e.router)
             /\ WithdrawVia(P, e, SpeakersFor(e.hops))
      BY <1>0, <1>1, CallbackFacts DEF Sound, AfterDelete
<1>3. ASSUME NEW s \in trusted', NEW q \in RoutesOf(s), Central(q, s),
             q \in Ahead(s) \/ Announces(e, q)
      PROVE  q \in Ahead(s)'
  <2>1. ByPrefix(q, s) \/ ByFip(q, s)
        BY <1>2, <1>3, QueryShape DEF QueryForms, CastsInv
  <2>2. ASSUME q.destination \in P PROVE FALSE
    <3>1. q.destination \in Subnets /\ q.destination \in Prefixes(e.router)
          BY <2>2 DEF PrefixesOf, Prefixes, CastsInv, TypeOK, Interfaces
    <3>2. ByPrefix(q, s)
          BY <2>1, <3>1, KindAssumption DEF ByFip
    <3>3. q.next_hop.owner = e.router
          BY <1>2, <3>1, <3>2 DEF Sole, ByPrefix
    <3>4. QED BY <1>2, <3>2, <3>3 DEF ByPrefix
  <2>3. q \in Ahead(s)
        BY <1>2, <1>3 DEF Announces
  <2>4. QED BY <1>2, <2>2, <2>3, WithdrawalLeaves
<1>4. ASSUME NEW s \in trusted', NEW q, q \in Ahead(s)', Central(q, s)
      PROVE  /\ Meant(q, s)
             /\ \/ Leads(q)
                \/ \E v \in Workers \ {w} : Busy(v) /\ Withdraws(work[v], q)
  <2>1. q \in Ahead(s)
        BY <1>2, <1>4, WithdrawalBrings
  <2>2. /\ Meant(q, s)
        /\ \/ Leads(q)
           \/ \E v \in Workers : Busy(v) /\ Withdraws(work[v], q)
        BY <1>1, <1>4, <2>1, <1>0, CallbackFacts
  <2>3. ~(q.next_hop.owner = e.router /\ q.destination \in P)
        BY <1>2, <1>4, <2>2, WithdrawalTakes
  <2>4. ASSUME q.next_hop.owner = e.router,
               q.destination \in Prefixes(e.router)
        PROVE  q.destination \in P
    <3>1. PICK i \in interfaces : i.router = e.router /\ i.subnet = q.destination
          BY <2>4 DEF Prefixes
    <3>2. i.subnet \in Pooled
          BY <2>2, <3>1 DEF Meant, CastsInv, TypeOK, Interfaces
    <3>3. s \in SpeakersFor(gateway[e.router])
          BY <1>2, <2>2, <2>4 DEF SpeakersFor, Meant
    <3>4. QED BY <1>4, <2>4, <3>1, <3>2, <3>3 DEF PrefixesOf, Central
  <2>5. ~Withdraws(e, q)
        BY <1>2, <2>3, <2>4 DEF Withdraws
  <2>6. QED BY <2>2, <2>5
<1>5. QED BY <1>0, <1>1, <1>3, <1>4, CallbackKeeps

\* A floating IP is withdrawn from its last router and announced by way of the
\* new one; one that stays with its router is neither.
LEMMA FloatingIpUpdateKeeps ==
    ASSUME CastsInv, NEW w \in Workers, FloatingIpUpdate(w)
    PROVE  EventsSound' /\ AnnouncedOrComing' /\ LeadsOrGoing'
<1> DEFINE e == work[w]
           told == {s \in Speakers : /\ FipNetwork[e.fip] \in BoundTo(s)
                                     /\ Family[s] = 4}
           new == [s \in Speakers |->
                     IF s \in told /\ e.router \notin {None, e.last}
                     THEN {Route(e.fip, h) : h \in FipNextHop(e.fip, e.router)}
                     ELSE {}]
           old == [s \in Speakers |->
                     IF s \in told /\ e.last \notin {None, e.router}
                     THEN {Route(e.fip, None)} ELSE {}]
<1>1. Runs(w, "fip") /\ Cast(new, old)
      BY DEF FloatingIpUpdate
<1>2. ASSUME NEW s \in trusted'
      PROVE  /\ s \in Speakers
             /\ e.kind = "fip" /\ e.fip \in FloatingIps
             /\ e.router \in Routers \cup {None}
             /\ e.last \in Routers \cup {None}
             /\ fips[e.fip].router = e.router
             /\ e.router \in up \cup {None}
      BY <1>1, CallbackFacts, EventShape, CastEffect DEF Sound
<1>3. ASSUME NEW s \in trusted', NEW o \in old[s]
      PROVE  o.destination = e.fip /\ e.last \notin {None, e.router}
      BY <1>2 DEF Route
<1>4. ASSUME NEW s \in trusted', NEW q \in RoutesOf(s), Central(q, s),
             q \in Ahead(s) \/ Announces(e, q)
      PROVE  q \in Ahead(s)'
  <2>1. /\ q \in Routes
        /\ q.next_hop.subnet \in gateway[q.next_hop.owner]
        /\ ByPrefix(q, s) \/ ByFip(q, s)
        BY <1>2, <1>4, QueryShape DEF QueryForms, CastsInv
  <2>2. CASE q.destination = e.fip /\ e.router # e.last
    <3>1. ByFip(q, s)
          BY <1>2, <2>1, <2>2, KindAssumption, RangeAssumption DEF ByPrefix
    <3>2. /\ q.next_hop.owner = e.router /\ s \in told
          /\ e.router \in Routers \ Distributed
          BY <1>2, <1>4, <2>2, <3>1 DEF ByFip, Central
    <3>3. VersionOf[q.next_hop.subnet] = 4
          BY <1>4, <3>1 DEF ByFip, Central
    <3>4. Via(e.router, q.next_hop.subnet) \in FipNextHop(e.fip, e.router)
          BY <2>1, <3>2, <3>3 DEF FipNextHop
    <3>5. q = Route(e.fip, Via(e.router, q.next_hop.subnet))
          BY <1>4, <2>1, <2>2, <3>2, RouteParts DEF Central
    <3>6. q \in new[s]
          BY <1>2, <2>2, <3>2, <3>4, <3>5, NoneAssumption
    <3>7. QED BY <1>1, <1>2, <1>4, <2>1, <3>6, CastAnnounces
              DEF CastsInv, Central
  <2>3. CASE q.destination # e.fip \/ e.router = e.last
    <3>1. q \in Ahead(s)
          BY <1>2, <1>4, <2>3 DEF Announces
    <3>2. \A o \in old[s] : o.destination # q.destination
          BY <1>3, <2>3
    <3> HIDE DEF old, new
    <3>3. QED BY <1>1, <1>2, <3>1, <3>2, CastKeeps
  <2>4. QED BY <2>2, <2>3
<1>5. ASSUME NEW s \in trusted', NEW q, q \in Ahead(s)', Central(q, s)
      PROVE  /\ Meant(q, s)
             /\ \/ Leads(q)
                \/ \E v \in Workers \ {w} : Busy(v) /\ Withdraws(work[v], q)
  <2>1. CASE q \in new[s]
    <3>1. s \in told /\ e.router \in Routers
          BY <1>2, <2>1
    <3>2. PICK h \in FipNextHop(e.fip, e.router) : q = Route(e.fip, h)
          BY <1>2, <2>1, <3>1
    <3>3. q.destination = e.fip /\ q.next_hop = h
          BY <3>2 DEF Route
    <3>4. /\ h # None /\ h.owner \in Routers \ Distributed
          BY <1>5, <3>3 DEF Central
    <3>5. h \notin DvrFipNextHop(e.fip)
      <4>1. \A g \in AgentGateways : g.host \notin Routers
            BY RangeAssumption, KindAssumption
      <4>2. QED BY <3>4, <4>1 DEF DvrFipNextHop, Via
    <3>6. PICK x \in gateway[e.router] : h = Via(e.router, x)
          BY <3>4, <3>5 DEF FipNextHop
    <3>7. h.owner = e.router /\ h.subnet = x
          BY <3>6 DEF Via
    <3>8. Leads(q)
          BY <1>2, <3>1, <3>3, <3>7, NoneAssumption DEF Leads
    <3>9. fips[e.fip] # NotAssociated
          BY <1>2, <3>1, NoneAssumption DEF NotAssociated
    <3>10. PICK y \in gateway[e.router] : NetworkOf[y] = FipNetwork[e.fip]
           BY <1>2, <3>9 DEF CastsInv, FipsRouted
    <3>11. NetworkOf[x] = FipNetwork[e.fip]
           BY <3>1, <3>10 DEF CastsInv, TypeOK, GatewayPorts
    <3>12. Meant(q, s)
           BY <1>2, <3>1, <3>3, <3>7, <3>11, KindAssumption DEF Meant
    <3>13. QED BY <3>8, <3>12
  <2>2. CASE q \notin new[s]
    <3>1. /\ q \in Ahead(s)
          /\ \A o \in old[s] : o.destination = q.destination =>
                                  ~Advertised(Ahead(s), o)
      <4> HIDE DEF old, new
      <4>1. QED BY <1>1, <1>2, <1>5, <2>2, CastOrigin
    <3>2. /\ Meant(q, s)
          /\ \/ Leads(q)
             \/ \E v \in Workers : Busy(v) /\ Withdraws(work[v], q)
          BY <1>1, <1>5, <3>1, CastEffect, CallbackFacts
    <3>3. ASSUME Withdraws(e, q) PROVE FALSE
      <4>1. /\ e.fip = q.destination /\ e.last = q.next_hop.owner
            /\ e.router # e.last
            BY <1>2, <3>3 DEF Withdraws
      <4>2. e.last # None
            BY <1>5, <4>1, NoneAssumption DEF Central
      <4>3. s \in told
            BY <1>2, <3>2, <4>1 DEF Meant
      <4>4. Route(e.fip, None) \in old[s]
            BY <1>2, <4>1, <4>2, <4>3
      <4>5. /\ Route(e.fip, None).destination = q.destination
            /\ Advertised(Ahead(s), Route(e.fip, None))
            BY <3>1, <4>1 DEF Advertised, Route
      <4>6. QED BY <3>1, <4>4, <4>5
    <3>4. QED BY <3>2, <3>3
  <2>3. QED BY <2>1, <2>2
<1>6. QED BY <1>1, <1>4, <1>5, CastEffect, CallbackKeeps

\* Each callback casts what its event promised.
LEMMA CallbackKeepsCasts ==
    ASSUME CastsInv, NEW w \in Workers, Callback(w)
    PROVE  EventsSound' /\ AnnouncedOrComing' /\ LeadsOrGoing'
BY AfterCreateKeeps, AfterRemoveKeeps, AfterDeleteKeeps, FloatingIpUpdateKeeps
   DEF Callback

-----------------------------------------------------------------------------
(* The specification.                                                       *)

\* A sync will leave what the query returns, which leads where it says.
LEMMA AskKeeps ==
    ASSUME CastsInv, NEW s \in Speakers, AskRoutes(s)
    PROVE  EventsSound' /\ AnnouncedOrComing' /\ LeadsOrGoing'
<1>1. /\ trusted' = IF Quiet THEN trusted \cup {s} ELSE trusted
      /\ UNCHANGED <<speakerVars, neutronVars, work>>
      BY DEF AskRoutes
<1>2. /\ Ahead(s)' = RoutesOf(s)
      /\ \A t \in Speakers \ {s} : Ahead(t)' = Ahead(t)
      /\ trusted \subseteq Speakers /\ trusted' \subseteq trusted \cup {s}
      BY <1>1 DEF AskRoutes, Ahead, CastsInv, TypeOK
<1>3. EventsSound'
  <2>1. CASE Quiet
        BY <1>1, <2>1 DEF EventsSound, Apart, Quiet, Busy
  <2>2. CASE ~Quiet
    <3>1. \A w \in Workers : Sound(work[w])' <=> Sound(work[w])
          BY <1>1 DEF Sound, FipsVia, Sole, Prefixes, Served, SpeakersFor,
             HopsFor, BoundTo, speakerVars, neutronVars
    <3>2. \A w \in Workers : Involved(work[w])' = Involved(work[w])
          BY <1>1 DEF Involved, Prefixes, neutronVars
    <3>3. QED BY <1>1, <2>2, <3>1, <3>2 DEF CastsInv, EventsSound, Apart, Busy
  <2>3. QED BY <2>1, <2>2
<1>4. AnnouncedOrComing'
  <2>1. SUFFICES ASSUME NEW t \in trusted', NEW q \in RoutesOf(t), Central(q, t)
                 PROVE  \/ q \in Ahead(t)'
                        \/ \E v \in Workers : Busy(v) /\ Announces(work[v], q)
        BY <1>1, <1>2, QueryUnchanged
           DEF AnnouncedOrComing, Central, Announces, Busy
  <2>2. CASE t = s
        BY <1>2, <2>2
  <2>3. CASE t # s
        BY <1>2, <2>1, <2>3 DEF CastsInv, AnnouncedOrComing
  <2>4. QED BY <2>2, <2>3
<1>5. LeadsOrGoing'
  <2>1. SUFFICES ASSUME NEW t \in trusted', NEW q \in Ahead(t)', Central(q, t)
                 PROVE  /\ Meant(q, t)
                        /\ \/ Leads(q)
                           \/ \E v \in Workers : Busy(v) /\ Withdraws(work[v], q)
        BY <1>1 DEF LeadsOrGoing, Central, Meant, Leads, Withdraws, Busy,
           BoundTo, Prefixes, speakerVars, neutronVars
  <2>2. CASE t = s
        BY <1>2, <2>1, <2>2, QueryLeads DEF QueryFits, CastsInv
  <2>3. CASE t # s
        BY <1>2, <2>1, <2>3 DEF CastsInv, LeadsOrGoing
  <2>4. QED BY <2>2, <2>3
<1>6. QED BY <1>3, <1>4, <1>5

\* The work on a reply leaves what the reply foretold, or loses the trust.
LEMMA ApplyKeeps ==
    ASSUME CastsInv, NEW s \in Speakers, ApplyRoutes(s)
    PROVE  EventsSound' /\ AnnouncedOrComing' /\ LeadsOrGoing'
<1>1. /\ UNCHANGED <<speakerVars, neutronVars, work>>
      /\ trusted' \subseteq trusted /\ trusted \subseteq Speakers
      BY DEF ApplyRoutes, CastsInv, TypeOK
<1>2. /\ s \in trusted' => Ahead(s)' = Ahead(s)
      /\ \A t \in Speakers \ {s} : Ahead(t)' = Ahead(t)
      BY DEF ApplyRoutes, Ahead, CastsInv, TypeOK
<1>3. \A t \in trusted' : t \in trusted /\ t \in Speakers /\ Ahead(t)' = Ahead(t)
      BY <1>1, <1>2
<1>4. EventsSound'
      BY <1>1 DEF CastsInv, EventsSound, Apart, Busy, Involved, Sound, FipsVia,
         Sole, Prefixes, Served, SpeakersFor, HopsFor, BoundTo, speakerVars,
         neutronVars
<1>5. AnnouncedOrComing'
      BY <1>1, <1>3, QueryUnchanged
         DEF CastsInv, AnnouncedOrComing, Central, Announces, Busy
<1>6. LeadsOrGoing'
      BY <1>1, <1>3 DEF CastsInv, LeadsOrGoing, Central, Meant, Leads, Withdraws,
         Busy, BoundTo, Prefixes, speakerVars, neutronVars
<1>7. QED BY <1>4, <1>5, <1>6

\* The agents have just synced and nothing is under way.
LEMMA CastsInit == Init => CastsInv
<1>1. SUFFICES ASSUME Init PROVE CastsInv
      OBVIOUS
<1>2. TypeOK
      BY <1>1, InitTyped
<1>3. FipsRouted
      BY <1>1 DEF Init, FipsRouted, Possible
<1>4. /\ \A w \in Workers : ~Busy(w)
      /\ trusted = Speakers
      /\ \A s \in Speakers : Ahead(s) = RoutesOf(s)
      BY <1>1 DEF Init, Busy, Ahead
<1>5. EventsSound
      BY <1>4 DEF EventsSound, Apart
<1>6. AnnouncedOrComing
      BY <1>4 DEF AnnouncedOrComing
<1>7. LeadsOrGoing
      BY <1>2, <1>4, QueryLeads DEF LeadsOrGoing, QueryFits
<1>8. QED BY <1>2, <1>3, <1>5, <1>6, <1>7 DEF CastsInv

\* neutron keeps the gateway that a floating IP needs.
LEMMA FipsStayRouted == TypeOK /\ FipsRouted /\ [Next]_vars => FipsRouted'
<1>1. SUFFICES ASSUME TypeOK, FipsRouted, [Next]_vars PROVE FipsRouted'
      OBVIOUS
<1>2. CASE UNCHANGED <<gateway, fips>>
      BY <1>1, <1>2 DEF FipsRouted
<1>3. CASE \E w \in Workers, r \in Routers, X \in GatewayPorts :
               SetGateway(w, r, X)
  <2>1. PICK w \in Workers, r \in Routers, X \in GatewayPorts :
             SetGateway(w, r, X)
        BY <1>3
  <2>2. /\ fips' = fips /\ gateway[r] = {}
        /\ \A t \in Routers \ {r} : gateway'[t] = gateway[t]
        BY <1>1, <2>1 DEF SetGateway, TypeOK
  <2>3. ASSUME NEW f \in FloatingIps, fips[f] # NotAssociated
        PROVE  fips[f].router \in Routers \ {r}
        BY <1>1, <2>2, <2>3 DEF FipsRouted, TypeOK, Associations
  <2>4. QED BY <1>1, <2>2, <2>3 DEF FipsRouted
<1>4. CASE \E w \in Workers, r \in Routers : ClearGateway(w, r)
  <2>1. PICK w \in Workers, r \in Routers : ClearGateway(w, r)
        BY <1>4
  <2>2. /\ fips' = fips /\ FipsVia(r) = {}
        /\ \A t \in Routers \ {r} : gateway'[t] = gateway[t]
        BY <1>1, <2>1 DEF ClearGateway, TypeOK
  <2>3. ASSUME NEW f \in FloatingIps, fips[f] # NotAssociated
        PROVE  fips[f].router \in Routers \ {r}
        BY <1>1, <2>2, <2>3 DEF FipsVia, TypeOK, Associations
  <2>4. QED BY <1>1, <2>2, <2>3 DEF FipsRouted
<1>5. CASE \E w \in Workers, f \in FloatingIps, a \in Associations :
               UpdateFip(w, f, a)
      BY <1>1, <1>5 DEF UpdateFip, Possible, FipsRouted, TypeOK
<1>6. CASE \E f \in FloatingIps : DeleteFip(f)
      BY <1>1, <1>6 DEF DeleteFip, FipsRouted, TypeOK
<1>7. QED
  <2>1. ASSUME NEW w \in Workers, Callback(w) PROVE UNCHANGED <<gateway, fips>>
        BY <2>1 DEF Callback, AfterCreate, AfterRemove, AfterDelete,
           FloatingIpUpdate, Runs, neutronVars
  <2>2. ASSUME NEW w \in Workers, NEW i \in Interfaces,
               AddInterface(w, i) \/ RemoveInterface(w, i)
        PROVE  UNCHANGED <<gateway, fips>>
        BY <2>2 DEF AddInterface, RemoveInterface
  <2>3. ASSUME NEW w \in Workers, NEW r \in Routers, ToggleRouter(w, r)
        PROVE  UNCHANGED <<gateway, fips>>
        BY <2>3 DEF ToggleRouter
  <2>4. ASSUME NEW s \in Speakers,
               \/ UpdateSpeaker(s) \/ AskRoutes(s) \/ ApplyRoutes(s)
               \/ \E n \in Bindable : BindNetwork(s, n)
        PROVE  UNCHANGED <<gateway, fips>>
        BY <2>4 DEF UpdateSpeaker, AskRoutes, ApplyRoutes, BindNetwork, neutronVars
  <2>5. ASSUME NEW p \in Ports, NEW h \in Hosts, MovePort(p, h)
        PROVE  UNCHANGED <<gateway, fips>>
        BY <2>5 DEF MovePort
  <2>6. CASE UNCHANGED vars
        BY <1>2, <2>6 DEF vars, neutronVars
  <2>7. QED BY <1>1, <1>2, <1>3, <1>4, <1>5, <1>6, <2>1, <2>2, <2>3, <2>4,
            <2>5, <2>6 DEF Next, Commit

\* Every step keeps the invariant.
LEMMA CastsStep == CastsInv /\ [Next]_vars => CastsInv'
<1>1. SUFFICES ASSUME CastsInv, [Next]_vars
               PROVE  EventsSound' /\ AnnouncedOrComing' /\ LeadsOrGoing'
      BY StepTyped, FipsStayRouted DEF CastsInv
<1>2. TypeOK'
      BY <1>1, StepTyped DEF CastsInv
<1>3. CASE \E w \in Workers : Commit(w)
      BY <1>1, <1>2, <1>3, CommitKeepsCasts
<1>4. CASE \E w \in Workers : Callback(w)
      BY <1>1, <1>4, CallbackKeepsCasts
<1>5. CASE \E s \in Speakers : AskRoutes(s) \/ ApplyRoutes(s)
      BY <1>1, <1>5, AskKeeps, ApplyKeeps
<1>6. CASE \/ \E s \in Speakers : UpdateSpeaker(s)
           \/ \E s \in Speakers, n \in Bindable : BindNetwork(s, n)
           \/ \E f \in FloatingIps : DeleteFip(f)
           \/ \E p \in Ports, h \in Hosts : MovePort(p, h)
      BY <1>6, Untrusted
         DEF UpdateSpeaker, BindNetwork, DeleteFip, MovePort, Unheard
<1>7. CASE UNCHANGED vars
  <2>1. UNCHANGED <<speakerVars, neutronVars, work, agentVars, trusted>>
        BY <1>7 DEF vars
  <2>2. EventsSound'
        BY <1>1, <2>1 DEF CastsInv, EventsSound, Apart, Busy, Involved, Sound,
           FipsVia, Sole, Prefixes, Served, SpeakersFor, HopsFor, BoundTo,
           speakerVars, neutronVars
  <2>3. AnnouncedOrComing'
    <3>1. trusted \subseteq Speakers
          BY <1>1 DEF CastsInv, TypeOK
    <3>2. QED BY <1>1, <2>1, <3>1, QueryUnchanged, AheadUnchanged
              DEF CastsInv, AnnouncedOrComing, Central, Announces, Busy
  <2>4. LeadsOrGoing'
        BY <1>1, <2>1, AheadUnchanged
           DEF CastsInv, LeadsOrGoing, Central, Meant, Leads, Withdraws, Busy,
               BoundTo, Prefixes, speakerVars, neutronVars
  <2>5. QED BY <2>2, <2>3, <2>4
<1>8. QED BY <1>1, <1>3, <1>4, <1>5, <1>6, <1>7 DEF Next

\* The invariant holds in every state.
LEMMA CastsAlways == Spec => []CastsInv
BY CastsInit, CastsStep, PTL DEF Spec

\* Once the callbacks have run, and between the syncs of a speaker, every route
\* by way of a centralized router that the query returns is announced to its
\* agents, whatever workers changed at the same time, unless a change was made
\* that the plugin does not announce, or the agent handled a cast in part only or
\* while a sync worked on an older reply (the callbacks of bgp_plugin.py, the
\* queries of bgp_db.py, and sync_bgp_speaker).
THEOREM NoRouteMissing == Spec => []NothingMissing
<1>1. CastsInv => NothingMissing
      BY DEF CastsInv, AnnouncedOrComing, NothingMissing, Quiet, Busy, Ahead
<1>2. QED BY <1>1, CastsAlways, PTL

\* Nor is one left announced that does not lead to its destination any more,
\* because its router was taken down, its interface removed, or its floating IP
\* moved to another router, with the same exceptions.
THEOREM NoRouteStale == Spec => []NothingStale
<1>1. CastsInv => NothingStale
      BY DEF CastsInv, LeadsOrGoing, NothingStale, Quiet, Busy, Ahead
<1>2. QED BY <1>1, CastsAlways, PTL
=============================================================================

------------------------------ MODULE BgpCommon ------------------------------
(***************************************************************************)
(* The data that the neutron server, the BgpDrAgent and its driver share:  *)
(* BGP speakers, their peers and the routes they advertise.  A speaker as  *)
(* the server's RPC API returns it is a record of its id, the addresses of *)
(* its peers and its advertised routes; the local AS of a speaker never    *)
(* changes after its creation and is a function of its id.                 *)
(***************************************************************************)
EXTENDS Integers, FiniteSets

CONSTANTS
    Speakers,       \* ids of BGP speakers
    LocalAS,        \* the AS number of each speaker
    Peers,          \* peers, named by their IP address
    PeerId,         \* the database id of each peer
    Destinations,   \* prefixes
    NextHops,       \* next hop addresses
    None            \* Python's None

ASSUME IdAssumption ==
    /\ None \notin Speakers \cup NextHops
    /\ \A p \in Peers : PeerId[p] \notin Peers

ASSUME FiniteAssumption == IsFiniteSet(Speakers)

Routes == [destination : Destinations, next_hop : NextHops]

\* The routes a callback asks to withdraw may leave the next hop open.
RoutePatterns == [destination : Destinations, next_hop : NextHops \cup {None}]

\* One next hop for a destination.  The query of a speaker's routes yields two
\* for a subnet that two routers serve: such a subnet is left out.
SingleHop(routes) ==
    \A q, r \in routes : q.destination = r.destination => q = r

\* What the database holds for a speaker, apart from its immutable attributes.
Configs ==
    [peers : SUBSET Peers, routes : {R \in SUBSET Routes : SingleHop(R)}]

\* A speaker in a reply of the server's RPC API.
SpeakerDicts ==
    [id : Speakers, peers : SUBSET Peers, routes : SUBSET Routes]

\* A dictionary after d[k] = v, and after del d[k].
PutKey(d, k, v) == [x \in DOMAIN d \cup {k} |-> IF x = k THEN v ELSE d[x]]
DropKey(d, k) == [x \in DOMAIN d \ {k} |-> d[x]]

\* Routes after every route of the destination is removed.
WithoutDestination(routes, destination) ==
    {r \in routes : r.destination # destination}
=============================================================================

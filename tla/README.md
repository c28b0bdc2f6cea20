# neutron-dynamic-routing: formal models

neutron-dynamic-routing announces routes of OpenStack networks over BGP. A
neutron *service plugin* keeps BGP speakers, their peers and the networks they
are bound to, and decides which agent runs which speaker. A *BGP dynamic
routing agent* (BgpDrAgent) on a host runs the speaker through a *driver*
(os-ken). This directory holds TLA+ models of that system, the TLC runs that
check them on small instances, and proofs checked by TLAPS.

All paths below are relative to the repository; `agent/` stands for
`neutron_dynamic_routing/services/bgp/agent/`.

## Inventory

| component | state | operations | hard because of |
|---|---|---|---|
| BgpDrAgent (`agent/bgp_dragent.py`) | reasons to resync, cache, driver | `sync_state`, the periodic task, the handlers of casts, `agent_updated`, the state report | two threads with different locks; casts late, lost, out of order; restarts; failing calls |
| BgpSpeakerCache (same file) | speaker -> peers, routes | put and remove of speakers, peers, routes | changed by both threads, updated before the driver |
| OsKenBgpDriver, BgpMultiSpeakerCache (`agent/driver/`) | AS -> running speaker | add/delete speaker and peer, advertise/withdraw route | one speaker only, tested and inserted in two steps; refusals |
| notifier and RPC callback (`api/rpc/`) | casts on their way | create, remove, (dis)associate, advertise, withdraw; `get_bgp_speakers`, `get_bgp_speaker_info` | at most once, any order |
| BgpPlugin (`services/bgp/bgp_plugin.py`) | none | API calls; callbacks of floating IPs, routers, their interfaces and gateways, ports | commits first, casts later, from the database as it is then |
| scheduling (`db/bgp_dragentscheduler_db.py`, `scheduler/`) | bindings of speakers to agents | create, add, remove, delete, rescheduling, periodic scheduling | concurrent workers that read and then write; agents that stop and come back |
| BgpDbMixin (`db/bgp_db.py`) | speakers, peers, bindings of networks | CRUD, the query of a speaker's routes, the queries of the callbacks | the queries and the callbacks compute the same routes in different ways |
| extensions, policies, configuration, migrations | none | declarations | - |

How they interact: the plugin commits to the database and casts to the hosts of
the agents that host the speaker. The agent answers a cast by updating its cache
and calling the driver; from time to time, and after failures, it asks the server
for its speakers and brings cache and driver in line (`sync_state`).

What makes each correct: the agent must end with what the database holds for the
speaker bound to it, whatever was lost or reordered; the driver must run what the
cache says; the cache must never stop being refreshed; bindings must respect the
constraint of one speaker per agent, and no speaker may wait for ever for an
agent that is free; the routes the callbacks add and remove must be those by
which the query changes.

## Modules

| module | models | 
|---|---|
| `BgpCommon` | the data the parts share: speakers, peers, routes |
| `OsKenDriver` | the driver and its cache of running speakers |
| `BgpServer` | the server as one agent sees it: the binding, the agent's `admin_state_up`, the database's peers and routes, the casts |
| `BgpDrAgent` | the agent: extends the two above and composes them |
| `BgpDrAgentClaims` | what comments and docs say of the agent and the code does not do |
| `BgpDrAgentProofs` | theorems about `BgpDrAgent`: its types and the refreshes |
| `BgpDrAgentCacheProofs` | theorems about the cache and the driver |
| `BgpScheduler` | the bindings of speakers to agents, with concurrent workers |
| `BgpSchedulerProofs` | theorems about `BgpScheduler` |
| `BgpHosting` | what the bindings promise, without workers and transactions; `BgpScheduler` implements it |
| `BgpHostingProofs` | that it does |
| `BgpPeering` | the peers of a speaker: API workers, casts, and what several agents know |
| `BgpPeeringClaims`, `BgpPeeringProofs` | as for `BgpDrAgent` |
| `BgpRoutes` | the query of a speaker's routes, and the callbacks that announce changes of them |
| `BgpRoutesClaims`, `BgpRoutesProofs` | as for `BgpDrAgent` |
| `BgpRouteCastsProofs` | that the callbacks agree with the query |
| `BgpRouteQueries` | the queries by binding and by router, and how they compare with the one by speaker |
| `BgpRouteQueriesProofs` | that they agree, for every instance |
| `MC*` | the instances for TLC |

### BgpDrAgent and the code

The agent has two threads. `sync` is the periodic task: `periodic_resync` calls
`_periodic_resync_helper`, which calls `sync_state` under the lock `bgp-dragent`.
`handler` is a worker of the RPC server that runs one handler under the lock
`bgp-dr-agent`. One thread per lock is exact: the lock admits no second. The two
locks are different, so the threads interleave, and the model lets them do so
between any two of: a test of the cache with the update that follows it, a call
of the driver, a call of the server, the recording of a reason to resync.

`pc[t]` says where thread `t` is and `job[t]` which function it is in:
`configure` is `add_bgp_speaker_on_dragent`, `refresh` is `sync_bgp_speaker`,
`cast` is one of the `*_helper` functions, `drop` is
`remove_bgp_speaker_from_dragent`. `job[t].todo` is the rest of the loop over
peers or routes, `job[t].call` a driver operation whose cache part has been done.
`sync` holds the local variables of `sync_state`.

* `needs_resync_reasons` is the set `needsResync` of its keys;
  `needs_full_sync_reason` is the Boolean `needsFull`. Their texts are left out.
* `put_bgp_speaker` for a cached speaker calls `remove_bgp_speaker_by_id` with a
  dictionary as the key: a `TypeError` (`PutFails`).
* `sync_state` iterates over a live view of the cache's keys. A removal in the
  loop makes the iteration raise `RuntimeError`, unless it was the last element
  and something else brought the size back (`IterationFails`, `Intact`).
* The driver raises `BgpSpeakerMaxScheduled`, `BgpSpeakerAlreadyScheduled` and
  `BgpSpeakerNotAdded`; os-ken may also refuse a peer. `_handle_driver_failure`
  schedules a resync and the function goes on (`CallFails`, `AddSpeakerFails`).
* `agent_updated` and the report of a revived agent take neither lock and set
  `needsFull` between any two steps of the threads (`AgentUpdated`,
  `AgentRevived`).
* `abandoned`, `overlapped`, `raised` and `misled` are auxiliary: the speakers
  left by the early return on `BgpSpeakerAlreadyScheduled`, whether both threads
  were ever at work at once, whether an operation of the driver ever raised, and
  the speakers bound to the agent without its being told (see Runs). No guard
  reads them.

### BgpServer and the code

`hosted` is the binding of the agent, `enabled` its `admin_state_up`, `config` what
`get_bgp_speaker_with_advertised_routes` returns for each speaker; `inbox` and
`notices` are the casts to the two classes of handlers, sent and not handled:
those about speakers, and `agent_updated`. `get_bgp_speakers` answers a disabled
agent with no speaker (`Served`), whatever is bound to it;
`get_bgp_speaker_info` answers for any speaker.

An operation that commits and then casts is one step, since the cast may be late
anyway. A rescheduling to this agent casts inside its transaction, so it is two:
`RescheduleHere` casts, and `ArrivalCommits` or `ArrivalFails` ends the
transaction; the agent may ask the server in between, and be answered without
the speaker. `arriving` is the speaker whose transaction is open. Rescheduling does
not tell the agent that loses the speaker (`Reschedule`), and automatic scheduling
does not tell the one that gets it (`AutoSchedule`), as in the code.

### BgpScheduler and the code

A worker's transaction that reads and then writes is two steps; a commit meets
the table's primary key (the agent) and the reference to the speaker. An API
worker serves one call at a time. `pass` is
`remove_bgp_speaker_from_down_dragents`, `auto` is
`schedule_all_unscheduled_bgp_speakers`, one transaction for all hosts. The loop
over the down bindings (neutron's `reschedule_resources_from_down_agents`) is
outside the repository: it goes on after `BgpSpeakerRescheduleError` and ends
after any other exception. `told` is the last cast to each agent. The row that a
rescheduling has deleted is locked until its transaction ends (`Locked`).

`BgpHosting` has two variables, the speakers that exist and the speaker each
agent hosts. An agent gets a speaker only when it hosts none, a move is one step
from one agent to another, and a deletion takes a speaker from all its agents at
once. `KeepsPromise` is `Promise!Spec` with `hosting` mapped to `HostedBy`, which is
the row that `query.one()` finds in `get_bgp_speakers_for_agent_host`; that this
function returns `{}` for a disabled agent before it looks changes nothing of the
table, and is in `BgpServer`. The steps of
workers that read, cast, fail, crash or roll back are stutters; commits are the
steps of the promise.

### BgpPeering and the code

One speaker, the tables `bgp_peers` and `bgp_speaker_peer_bindings`, and the agents
that host the speaker. What is a sequence of transactions and reads in the code
is one in the model:

| call | steps |
|---|---|
| `add_bgp_peer` | validate the address (`AddPeer`), insert (`Insert`), read the agents to tell (`ReadHosts`), cast (`Tell`) |
| `remove_bgp_peer` | read the agents (`RemovePeer`), delete the row (`Delete`), cast (`Tell`) |
| `create_bgp_peer`, `update_bgp_peer`, `delete_bgp_peer` | one transaction; no agent is told |
| binding and unbinding by API | commit (`Host`, `Unhost`), cast (`Tell`) |
| `reschedule_bgp_speaker` | cast to the new agent (`Move`), commit (`MoveCommits`) or rollback (`MoveFails`) |

An agent's handler is one step, but for a creation, which applies later what it
fetched (`FetchSpeaker`, `AddSpeaker`). A sync is two: the call
(`SyncFetches`, or `SyncTimesOut` if it fails), and the work on the `reply`
(`SyncPeers`, or `SyncRemoves` if the speaker is not in it). The handlers run in
between, since they hold another lock: what they have learnt of a peer that is not
in the reply is undone. How the agent's own threads interleave within these steps
is `BgpDrAgent`. A peer stands for its address and
AS; an agent knows it by the address only, so two peers may have one. `Additions`
is the loop of `add_bgp_peers_to_bgp_speaker`, in any order: an address that is
known is skipped, the loop ends when a resync of the speaker is scheduled, and a
peer whose authentication is refused (`validate_auth`) is cached, schedules a resync
and so ends the loop. `due` are the agents with a resync of the speaker scheduled,
`full` those with a full one. A sync that starts forgets both, as
`_periodic_resync_helper` does, and one that refreshes a cached speaker ends with
the next refresh in `due`.

A create cast that is handled before an older remove cast leaves a hosted
speaker out of the cache, as described under Runs; the properties are about
agents that cache the speaker.

`late` is auxiliary: the agents that must wait for a sync to know all peers,
because a loop broke off, a call timed out, the agent fetched the speaker before
the binding was committed, it was unbound meanwhile, or it handled the
association of a peer while a sync worked on a reply that lacks it. The call of the
next sync removes them, if it finds them bound. Casts carry the number of the change that sent them, so that two
equal ones are two casts.

### BgpRoutes and the code

The state is that of the tables the queries join: bindings of networks
(`BgpSpeakerNetworkBinding`), the two flags of a speaker, and of neutron the
gateways, interfaces, administrative states of routers, hosts of ports and
associations of floating IPs. `RoutesOf(s)` is `get_routes_by_bgp_speaker_id`,
one operator per query, with each condition of its joins and filters, and none
where the code has none: any binding of a speaker that advertises tenant
networks serves `TenantNetworks`, any router that is up serves `DvrFipRoutes`. A
speaker, a floating IP's address and a subnet's prefix stand for themselves; an
address is an owner and a subnet. A subnet of a network is its only one of its IP
version, so a gateway has at most one address of each.

A change is two steps of a server worker: the commit (`AddInterface`, ...,
`UpdateFip`), which leaves the payload of the event in `work[w]`, and the callback
(`AfterCreate`, `AfterRemove`, `AfterDelete`, `FloatingIpUpdate`), which reads the
database as it is then and casts. `announced[s]` is what the agents of `s` make of
the casts and of their syncs; here a speaker has an agent and casts arrive in the
order they are sent, since `BgpServer` and `BgpDrAgent` model their loss and their
overtaking. A cast of several routes is handled whole or in part: the loops of
`add_routes_helper` and `withdraw_routes_helper` end after a route once a resync of
the speaker is scheduled, which between two syncs it always is (`Handled`). A sync is
two steps, the call (`AskRoutes`) and the work on the reply (`ApplyRoutes`);
casts that are handled in between are undone if the reply is older.
`Ahead(s)` is what the agents have once the sync at work is done.

`trusted` is auxiliary: the speakers of which the callbacks and the last sync are
expected to have said all. A sync that calls while no change is under way adds
the speaker. The speaker leaves the set when `Ahead` does not become what the cast
says, that is when a cast

* is handled in part only, and that makes a difference; or
* is handled while a sync works on a reply that does not have the change;

and when a sync applies its reply in part. These changes, which the plugin does not
announce or not fully, empty the set:

* a network is bound or unbound, a flag of a speaker changes (no cast is sent);
* a floating IP is deleted (no subscription); a compute port moves
  (`port_callback` passes objects where ids are expected, `bgp_plugin.py:408`);
* a router with floating IPs is taken up or down (only prefixes are told);
* a gateway is cleared (its port is gone when the prefixes are queried);
* an interface is removed or a router taken down while its gateway has no
  address for a speaker of the network (`KeyError`, `UnboundLocalError`, or the
  routes of another version);
* something happens to a router that is down: it is announced, and not in the
  query;
* a prefix of another router too is withdrawn: a withdrawal is by destination;
* the commit and the callback of a change overlap those of another change of the
  same router, floating IP or subnet.

Each exception is in `Cast` or `ApplyRoutes`, a conjunct of `told` in its action, or
`Unheard`. Outside them, `NothingMissing` and `NothingStale` say that between syncs
the callbacks and the query agree on routes by way of centralized routers. For an IPv6 speaker they
speak of IPv6 addresses only: `CentralFipRoutes` does not test the version of the
binding, and gives it IPv4 floating IPs that no callback announces. Routes by way
of hosts are in the query (`DvrFipRoutes`, `DvrFixedIpRoutes`); no callback but that of
floating IPs announces them, and with an IPv4 and an IPv6 address on the gateway of
the host it casts one without a next hop (`db/bgp_db.py:1152`).

### BgpRouteQueries and the code

`db/bgp_db.py` has two more sets of queries: of the routes of one network
binding (491-507) and of one router (509-528). Only tests call them, and they join the
tables in ways of their own. Each is an operator over the state of `BgpRoutes`, with
the conditions the code has and without those it leaves out:

* by binding, the state of a router does not count, nor does the flag for
  tenant networks, and the scope of a prefix is any of the speaker's IP version;
  filters whose result is discarded (572, 626, 629) filter nothing;
* by router, floating IPs are advertised if the flag of any speaker is set (the
  query does not join the speaker with the binding), and the prefix and the
  gateway must share a scope, which no other query demands; the query of floating
  IPs of distributed routers gets its arguments in the wrong order (522) and finds
  none.

`BindingsAgree` and `RoutersAgree` say under which conditions they return what the
query by speaker does, in both directions, while no change is under way.

## Runs

All runs set `CHECK_DEADLOCK FALSE`: when the allowed changes are used up and no
work is due, the system rightly rests.

| run | instance | shows |
|---|---|---|
| `agent_threads` | 2 speakers, 1 peer; host, unhost, reschedule here and away, automatic scheduling, disabling and enabling, revival, 2 changes; 1 restart, failed call, driver failure, lost cast or lost notice | types; a cached speaker is refreshed for ever (`RefreshGoesOn`); the driver has a second speaker only if the threads overlapped (`OneSpeakerAlone`); a bound speaker is not forgotten (`NoSpeakerForgotten`) |
| `agent_moves` | 2 speakers; host, reschedule here and away, disabling and enabling, 2 changes; 1 restart or failed call | in the end the speaker bound to the enabled agent is cached (`BoundSpeakersArrive`) and no other (`StaleSpeakersGo`) |
| `agent_casts` | 1 speaker, 1 peer, 1 destination, 2 next hops; advertise, withdraw, move, associate, disassociate, 2 changes; 1 lost cast | the cache ends as the database (`CacheFollowsServer`) |
| `agent_mirror` | as above with host and unhost, no faults | the driver runs what the cache holds as long as none of its operations raised and the threads never overlapped (`DriverMirrorsCache`), and ends as the database (`DriverFollowsServer`) |
| `scheduler_bindings` | 2 speakers, 2 agents, 2 API workers, 3 calls or events of all kinds, 1 crash | types; one speaker per agent (`AgentHostsOne`); speakers get agents (`SpeakersGetAgents`); down agents lose speakers (`DownAgentsAreReleased`); the scheduler implements `BgpHosting` (`KeepsPromise`) |
| `routes_announced` | 1 external network with a subnet of each version, 2 tenant subnets, 2 centralized routers, 1 port, 1 floating IP, 2 hosts, an IPv4 speaker, 2 workers; 2 changes of all kinds, from any routers, interfaces and floating IPs that were synced, with the speaker bound and both flags set | types; the callbacks leave no route of the query out (`NothingMissing`) and none that leads nowhere (`NothingStale`); the queries by binding and by router agree with it (`BindingsAgree`, `RoutersAgree`) |
| `peers_reach_agents` | 2 peers, one of them with md5, 2 agents, 2 API workers; 3 calls of all kinds or calls of an agent that time out; syncs of two steps | types; an agent knows the peers once its casts are handled (`PeersArePrompt`), and in the end these addresses and no other (`PeersFollow`) |

The bounds: two speakers are what it takes for the driver to refuse one and for
a sync to find one stale and one new; two next hops for a route to change; two
changes for a cast to overtake another; one fault, since each property is about
the recovery from the last. Two agents and two API workers are what a
rescheduling and a double choice need. `routes_announced` starts from every
deployment, so two changes are what it takes for one to overtake another, and
for a sync to work on a reply that one of them has made old; two routers let one
withdraw a prefix of the other, and the subnets of both versions give a gateway
that lacks an address of the speaker's. More speakers are too many states for a
run: that what is cast for one of them does not spoil another is in the proofs,
which are for any number of speakers. A sync that is called when no change or
callback will follow is left out: it ends in what the query returns.
`peers_reach_agents` needs three changes for a binding, a peer and what
overtakes or removes it, two workers for calls that overlap, two agents for a
move, and a peer that the driver may refuse. Two peers at one address are in the
instances of the claims, with up to four changes.

`NoSpeakerForgotten` is about every operation of the server, and excepts six
events after which the code does forget a speaker, each only if nothing else is due
that would bring it (`misled`):

1. the periodic scheduling binds the speaker and casts nothing
   (`bgp_dragent_scheduler.py:179`): an agent with an empty cache has no reason
   to sync;
2. the last word the agent had from the server was before the commit of a
   rescheduling, which casts first (`bgp_dragentscheduler_db.py:171-174`): the
   handler's call failed, and the sync scheduled for it was answered without the
   speaker;
3. a create cast or an `agent_updated` notice is lost;
4. a create cast is handled before an older remove cast: it fails on the cached
   speaker (`bgp_dragent.py:587` passes a dictionary as a key), and the remove
   cast then removes the speaker;
5. the reason that a notice sets is overwritten: `_periodic_resync_helper` reads
   it before (163) and resets it after (166);
6. a removal during the iteration over the cache goes unnoticed, since a handler
   has added a speaker meanwhile and the view has its old size
   (`bgp_dragent.py:110`).

`HostedRemembered` proves that there is no seventh in the model. A disabled agent
drops its speaker, as its syncs find none; the notice of its being enabled again
is what brings the speaker back.
`DownAgentsAreReleased` says that down agents lose speakers, and not that others keep them:
a rescheduling takes the first agent that hosts the speaker
(`bgp_dragentscheduler_db.py:168`), which for a speaker of several agents may be
one that is alive.

### Where code and documents disagree

| run | the document says | the code does |
|---|---|---|
| `claim_one_speaker` | os-ken supports one speaker (`agent/driver/os_ken/driver.py:77`) | two threads pass the test of the count before either inserts |
| `claim_resync_repairs` | wait for the resync to happen (`agent/bgp_dragent.py:526`) | the cache already holds the peer the driver refused: the resync finds nothing to do |
| `claim_duplicate_peers` | a speaker has one peer at an address (`extensions/bgp.py:59`) | two calls validate before either inserts (`db/bgp_db.py:355`) |
| `claim_added_peers` | a peer added to a running speaker is registered as a neighbor (`doc/source/admin/bgp-speaker.rst:145`) | an agent that still has another peer at the address keeps that one for ever: associations and syncs compare addresses only (`agent/bgp_dragent.py:401`, 133) |
| `claim_scopes` | self-service prefixes within the same address scope are advertised (`doc/source/admin/bgp-speaker.rst:35`) | prefix and gateway are joined by router and IP version, not by scope (`db/bgp_db.py:884`) |

The temporal claims `claim_resync_repairs` and `claim_added_peers` are checked
under `FairSpec`; the counterexample of the first is one where the two threads never
overlap. The models show more of the kind that has no run of its own: the cast
of a disassociation carries the peer's id where the agent expects an address
(`bgp_plugin.py:197`), so the session ends at the next sync only; a duplicate key
in `bind` may be of another speaker, and not "our job" done by someone
(`scheduler/bgp_dragent_scheduler.py:57`); the callbacks announce IPv6 prefixes to
an IPv4 speaker whose routers have a gateway address (`db/bgp_db.py:1013`).

## Fairness

`BgpDrAgent`: weak fairness of the periodic task (`periodic_resync` is called
every `resync_interval` and `sync_state` is a finite loop) and of the handler
(the RPC server has a worker for each cast, and a handler is a finite loop), and of
the handling of `agent_updated` casts that are not lost.
Nothing is assumed of the server, of faults, or of the delivery of a cast that
may be lost.

`BgpScheduler`: weak fairness of a call that is being served and of the two
periodic workers (`add_periodic_dragent_status_check`). Nothing is assumed of
operators or agents.

`BgpPeering`: weak fairness of a call that is being served, of the handlers of
each agent, and of its syncs, for the reasons given for `BgpDrAgent`. Nothing is
assumed of operators, nor of the order of casts; a handler whose call times out
is an event that need not stop before `MaxChanges`.

## Proofs

The assumptions on constants are `IdAssumption`, `FiniteAssumption` (finitely
many speakers), `NoneAssumption`, `WorkerAssumption`, `BoundAssumption`,
`ValueAssumption` of `BgpPeering`, `NetworkAssumption`, and those of `BgpRoutes`:
`RangeAssumption`, `ScopeAssumption` (an address scope and its pools have one
version), `KindAssumption` and `EventAssumption` (routers and
hosts are disjoint, and so are subnets, ports and floating IPs; `None` is no event). The number of speakers, peers, routes,
routers, agents, workers, changes and faults is arbitrary.

### The agent

* `TypeCorrect`: `Spec => []TypeOK` for the agent. The places of a thread depend
  on the function it is in, and the items of a loop on its place, so this says
  that no interleaving puts, say, a route where a peer is expected.
* `RefreshForever`: `Spec => []RefreshGoesOn`. `RefreshGoesOn` is not inductive
  alone: the step that ends an iteration needs that the speakers already seen
  are in the reply (`SeenOK`). The invariant is
  `TypeOK /\ SeenOK /\ RefreshGoesOn`; each action either leaves the reason a
  cached speaker has, or replaces it by the next in the order
  scheduled, read, fetched, to visit, being configured, scheduled.
* `DriverMirrors`: `Spec => []DriverMirrorsCache`. The cache is changed before the
  driver, so the property holds only between operations. `MirrorInv` is about all
  states: at most one thread is at work, and where it is (`InStep`) says by which
  speaker, peer or route the driver differs from the cache until the operation
  ends. That no two cached speakers have one AS is part of it (`Runs`): it is the
  driver's refusal of a second speaker that keeps it, and a refusal raises.
* `NoSecondSpeaker`: `Spec => []OneSpeakerAlone`. The driver's test of the count and
  its insertion are two steps; `AloneInv` adds that the thread between them is
  alone and nothing runs. It holds whatever fails: unlike `DriverMirrorsCache` it
  does not need that nothing raised. `claim_one_speaker` shows what overlapping
  threads do.
* `HostedRemembered`: `Spec => []NoSpeakerForgotten`, of all operations and faults.
  The invariant `HostedDue` strengthens the property in three ways: it counts a
  thread that configures the speaker as a promise only until the speaker is in the
  cache (`Expected`); it is also about a speaker whose rescheduling is cast and
  not committed (`Bound`), so that the commit finds the cast, or what came of it,
  on its way; and it holds of any bound speaker, while the agent is enabled. Each
  step that takes away what a speaker is expected from either replaces it, or is
  one of the six events above and adds the speaker to `misled`: so the list is
  complete as far as the model goes.

### Bindings

* `SchedulerTypes`, `AgentsHostOne`: the types and `AgentHostsOne` for the
  scheduler. The invariant adds `LockHeld`: a row that a rescheduling deletes
  stays until its transaction ends. Without it, a speaker that moves back to an
  agent that came alive could meet a binding made meanwhile.
* `SchedulerKeepsPromise`: `BgpScheduler` implements `BgpHosting`. The initial states
  map to the initial state, and each step to a step or a stutter; the invariant
  that makes `HostedBy` well defined is that of `AgentsHostOne`. An insertion
  maps to `Assign` of idle agents, a rescheduling to `Move`, and a rolled back
  transaction to a stutter since nothing was committed.

### Peers

* `PeeringTypes`, `PeersComePromptly`: the types and `PeersArePrompt`. The latter is
  about quiet states; its invariant is `TypeOK /\ Waits /\ Told`, where `Told` says of
  any state that each peer of the speaker is known to an agent that hosts it, or
  comes: in a reply that a handler holds, in a cast, or in the work of a worker
  that has yet to read the agents or to tell them; or the agent is `late`. What an
  agent knows counts only if the reply that a sync works on has it too (`Learnt`), and
  an agent that learns anything without being bound is late (`Waits`).

### Routes

* `RouteTypes`: the types of `BgpRoutes`, from `RangeAssumption` alone: the event a
  worker holds has what its callback reads, and what is announced are routes.
* `NoRouteMissing`, `NoRouteStale`: `Spec => []NothingMissing` and
  `Spec => []NothingStale`. Both are about states without a pending callback, and
  both follow from `CastsInv`, which is about all states:
  * `AnnouncedOrComing`: a route that the query returns is announced, or in the
    reply that a sync works on (`Ahead`), or in the event of a worker whose callback
    will announce it;
  * `LeadsOrGoing`: a route that is announced, or that a sync will announce, leads to its destination, or is in
    an event whose callback will withdraw it, and the speaker is still one that
    the callback will find (`Meant`);
  * `EventsSound`: the events of two workers concern different routers, floating
    IPs and subnets, and say what is still in the database when their callbacks
    run, since an overlapping change empties `trusted`;
  * `FipsRouted`: a floating IP that is associated by way of a router has a gateway
    of that router on its network, since neutron refuses to clear it before.

  The proof has a lemma for each change (what it adds to the query, or takes away,
  is in the event), for each callback (what the event promised is cast, and a
  withdrawal takes no other route along), and for the two steps of a sync. So the list of exceptions above is
  complete as far as the model goes, for any number of routers, networks, speakers and workers.
* `QueryKeepsFamilies`: a prefix the query returns and its next hop have the
  speaker's IP version. It rests on `ScopeAssumption`, and is what the callbacks
  lack.
* `BindingQueriesAgree`, `RouterQueriesAgree`: the agreement of the queries, for any
  networks, scopes, routers and speakers. It is an argument about sets of routes,
  from the types of the state; the first needs that an interface is on another network
  than a gateway (`NetworkAssumption`), and both that a scope has one version.

### Only model-checked

The invariants and the refinement of the passing runs are all theorems. The
liveness properties are not, since the tools have no proof rule for fairness:
`BoundSpeakersArrive`, `StaleSpeakersGo`, `CacheFollowsServer`, `DriverFollowsServer`, `SpeakersGetAgents`,
`DownAgentsAreReleased`, `PeersFollow`. `RefreshForever` is the safety part of the agent's: the refreshes by
which its cache follows never cease to be due.
The claims are refuted by a run each, and need no proof.

## Not modelled

* Statistics and router ids, and the validation of a driver's arguments other than
  authentication: the API has validated them, and a refusal of any kind is
  `CallFails`.
* The state report of the agent, apart from the full resync of one that is revived:
  its counters, and its second start of `run()` (`bgp_dragent.py:696-707`).
* In `BgpPeering`, whether an agent is enabled: a disabled one drops its speaker, and
  the properties are about agents that cache it. `BgpServer` has `admin_state_up`.
* The handing over of the dictionary of reasons in `_periodic_resync_helper` is
  one step; a reason recorded in between by the other thread is not lost in the
  model.
* A speaker that is deleted between a cast and the agent's call for it; the deletion
  itself is in `BgpScheduler`.
* `get_external_networks_for_port`, whose result leads to no cast.
* Listings, which change nothing, and the renaming of speakers and peers.
* `StaticScheduler`, which binds nothing by itself.
* REST extensions, policies, options, migrations: declarations.

## Plan

1. (done) `BgpDrAgent` with driver and server: runs, claims, types and
   `RefreshGoesOn` proved.
2. (done) `BgpScheduler`: runs, types and `AgentHostsOne` proved.
3. (done) `BgpRoutes`: the query, the callbacks, their agreement, claims.
4. (done) `BgpRouteQueries`: the queries by router and by binding compared with
   the query by speaker, and their agreement proved.
5. (done) `BgpPeering`: peers, their constraints, what agents learn of them; claims
   and proofs.
6. (done) `BgpHosting` and the refinement, checked and proved.
7. (done) Proofs of `DriverMirrorsCache`, `OneSpeakerAlone`, `NoSpeakerForgotten`,
   `NothingMissing` and `NothingStale`: with them every safety property of a
   passing run is proved.
8. Step properties of the agent and of the peers (what a cast or a sync may never
   take away), with proofs from the invariants above.

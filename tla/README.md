# A TLA+ verification project for doradus

doradus is a proxy service written in Rust: it accepts flows on socket inbounds
and on a TUN device, answers DNS (with synthetic "FakeIP" addresses where the
policy asks for them), and forwards flows through a selected proxy node. Its
configuration lives in SQLite and is changed at run time through a management
API. This directory models the parts of it where state outlives a call and
several actors meet, from the reload of the configuration down to the tasks and
tables that carry one flow.

## How the program runs, and what one step of a model is

The shipped binaries (desktop, Windows service, Android) run one
`current_thread` tokio runtime with a `LocalSet`. Tasks interleave at awaits:
a contended lock, an exhausted cooperative budget, `spawn_blocking`, channel and
socket waits. The functions of the store are `async` and run synchronously. One
action of a model is therefore the code between two awaits, or the code under
one acquisition of a lock; a transaction of the store is one step that commits
or fails. Where the code has no await between two effects but a parallel thread
could see the state in between (the library is `Send + Sync`), the models keep
the two effects apart: publication of a snapshot and replacement of the selectors
in `rebuild_locked`, the shards and tables of the connection monitor, whose
checkpoint runs on a blocking thread, and the locks of the DNS resolver.

The API is served by axum. A client that closes its connection drops the future
of its handler at an await; a mutation handed to `spawn_blocking` runs on. The
controller model has both (`Cancel`, `OrphanCommits`). Futures raced in a
`select!` are dropped in the same way; the resolver, the DNS client and the UDP
association have that step for each of their calls.

## Inventory

Paths are under `src/crates`.

| component | state | operations | interacts with | what is hard | what makes it correct | module |
|---|---|---|---|---|---|---|
| FakeIP pool (`doradus-store/src/fakeip_pool_v4.rs`, `fakeip_pool_v6.rs`, `fakeip_store.rs`) | forward and reverse index, cursor, quarantine; rows and cursor in SQLite | open, allocate, release, flush of touches | store; resolver | rows lag memory by a touch interval; two transactions per allocation; crash; rows of an older prefix; capacity | indexes inverse, memory backed by rows, an answer resolvable while a client may hold it | FakeIpPool |
| legacy import (`fakeip_pool_v4.rs: import_legacy`) | marker key, export | validate, commit, apply | pool | three acquisitions of the mutex | atomic, repeatable after a crash | FakeIpImport |
| resolver and view (`resolver.rs`, `doradus-dns/src/fakeip.rs`) | published copy of the reverse index | A, AAAA, PTR queries | pool; packet plane | copy and publication are separate | the packet plane resolves what clients were told | FakeIpView |
| NAT table and relay (`doradus-core/src/nat.rs`) | bindings by source, index by endpoint, gauges and counters; the mapping of each relay | insert, touch, bind_translated, lookups, remove, sweep; send, receive, close of a relay | TUN stack | lazy expiry inside every operation, moves between endpoints, calls of a relay that take two or three locks | indexes and counters agree, endpoints never stolen, each binding has an owner that releases it | NatTable, NatRelay |
| runtime controller (`doradus-runtime/src/control/controller.rs`, `control/handle.rs`, `plane/selector*.rs`) | store, snapshot with revision, live selectors, DNS handlers, last error | mutate and reload, reload, build selector, close and retarget node | API, store, supervisors | one lock over many fallible awaits; cancelled requests; selectors built by another task | all planes carry one configuration; a difference from the store is reported | Controller |
| inbound supervisor (`plane/inbounds/mod.rs`, `listeners.rs`) and status (`control/inbound_runtime.rs`) | owner map, listener tasks, reload channel, status entries | start, abort, restart, listener death, shutdown | controller | bounded channel, aborted tasks that still hold sockets, failed binds, listeners that bind after the start has ended | every announced change served by one generation; status settles where something reports it | InboundSupervisor |
| DNS supervisor (`plane/data_plane_supervisor.rs`) | subscription, server tasks | configure, bind, serve, reload, shutdown | controller | reload during setup; two transports | no reload missed, reload and shutdown served | DnsSupervisor |
| injected TUN owner (`plane/inbounds/listener_tun.rs`) | device, configuration | run, wait, reload, shutdown | controller | subscription exists only inside the wait | runs only when enabled, ends at shutdown | InjectedTun |
| UDP inbound (`plane/inbounds/handler_udp/`) | sessions, the manager's handles and pending closes, workers, bounded queues | packets, replies, flow events, close requests and their broadcast, cancellation, shutdown | connection monitor, inbound supervisor | events of an older generation, a lagging broadcast, full queues, a close while the flow opens | one datagram per source, no worker without a handle, closes reach their flow and no later one | UdpInbound |
| connection monitor and statistics (`control/monitor*.rs`, `doradus-store/src/statistics*.rs`) | shards, deltas, telemetry, listed flows; the tables | count, open, close, checkpoint, read, import, compact, crash, shutdown | every flow | a checkpoint that fails or repeats, a crash between its transactions, a reader between rows and pending counts | each byte counted once, nothing pending forgotten, gauges per inbound | Accounting, Ledger |
| DNS resolver cache (`doradus-dns/src/dns_resolver_async.rs`, `cache.rs`) | shared flights, refresh marks, LRU entries | query, refresh, drop | DNS clients | a dropped owner, a stale answer beside its refresh | one owner per flight, no answer past its TTL, every call returns | DnsResolver |
| DNS UDP client (`dns_async_udp.rs`) | shared socket, receiver task, waiting calls | bind, send, receive, time out, drop | network | socket replaced under a waiting call | every waiting call can still be answered | DnsUdpClient |
| dialer (`doradus-core/src/network/happy_eyeballs.rs`, `doradus-runtime/src/plane/happy_eyeballs.rs`) | coordinator, channel, attempts, address cache | resolve, offer, start, win, fail, deadline | DNS | addresses that come late, permits, a remembered address that is stale | a dial that fails before its deadline tried every address it was offered; a dial ends | HappyEyeballs |
| chained UDP association (`doradus-chain/src/chain_uot.rs`) | session, generation, reconnect lock, retry queue | send, receive, recover, replay, close | UDP worker, TUN task | calls that fail together, a reconnect behind a close, a receive dropped between two reads | a healthy session is kept, a closed association holds nothing, frames intact | ChainUot |
| routing index (`doradus-trie`) | trees; sorted tables built by an external sort | insert, remove, look up, build | rules | wildcards, sort order of bytes, binary search over runs | tree and tables answer as the patterns say | RouteIndex |
| rules and selection (`doradus-runtime/src/policy/route*.rs`, `plane/selector*.rs`) | compiled rules of a snapshot, routed flow | compile, match, route, select | FakeIP view, controller | the index finds candidates before constraints are tried; a flow routed under an older configuration | the first rule that is true decides | RouteRules |
| stored rules (`doradus-store`, `doradus-api/src/route*`) | rows with name and priority | save, delete, move | API | a priority read before the lock is taken | names unique, moves exact, other rules keep their order | RouteTable |
| TUN stack (`doradus-tun`) | flow tracker, process lookups, task managers, sockets, channels | the loop's poll, dispatch, drain, reap, expire; tasks | NAT table, monitor, FakeIP view | bounded channels and partial writes, reused flow keys, a late lookup, stale outputs | streams in order with leftovers of an older flow at most before them, every flow releasable, sources and sockets owned | TunTcp, TunUdp |
| IPv6 reassembly (`doradus-tun`, `Ipv6FragmentReassembler`) | assemblies, buffered bytes | push, expire | TUN stack | duplicates, overlaps, limits | a delivered packet is whole, nothing buffered leaks | Reassembly |
| remaining API handlers, resolver policy, proxy protocols, VPN drivers, backup, geo, metrics, updates, platform glue | | | | I/O, wire formats, cryptography, formatting | | none |

`PROJECT.json` lists every component with its status, and under `hazards` the
places where this code can go wrong in ways a test hardly reaches, with the
properties that would catch each.

## Modules

`Maps` has the operators on functions used as maps. Each component is one module,
and the theorems of one or a few components are in a module `...Proofs`.

**FakeIpPool**: `forward`, `reverse`, `next`, `reserved` are the fields of
`State`; `rows`, `cursor`, `foreign`, `legacy`, `legacyNext` are the tables and
keys of the database (`foreign` stands for the rows of overlapping prefixes).
Addresses are `0 .. Size-1` behind the cursor; the clock counts in units in which
a TTL is a few ticks. `Allocate` is `allocate_at` split at its outcomes: a hit
(with a write only when a touch is due), a miss (sweep, eviction, install), and
the failure of each transaction. `Open` is `open_with_prefix` with the
quarantine, the take-over of legacy keys and the trim; `OpenInterrupted` stops
between its transactions. `answered` is a history variable: what clients were
told and when. `flush_touches` has no caller in the service and is modelled
as an operation that may happen at any time. The IPv6 pool has the same
lifecycle under another family; the number of addresses is a parameter.

**FakeIpView** extends the pool with the queries of `FakeIpResolver`: allocate,
copy the reverse index, publish the copy. The two address families are one pool.
`behind` and `stale` are history variables.

**FakeIpImport** extends the pool with `import_legacy` at the granularity of its
mutex acquisitions. `overlapped` is a history variable. The clock stands still
while an import runs, because the code reads it several times.

**NatTable**: `entries` and `translated` are the two maps of `NatState`,
the other variables its gauges. Every operation sweeps or skips expired bindings
exactly where the code does. **NatRelay** extends it with `UdpNatRelay`: `mapping`
is what each relay believes it owns. Every call is split at the locks it takes:
`send_to` and `sweep` hold the lock of the mapping over two uses of the table
(`sending`, `sweeping`), `recv_from` copies the mapping and uses the table twice
without it (`receiving`), `close` takes the mapping and then removes its source
(`releasing`). Other calls of the same relay and of other relays come between.
Only tests use `UdpNatRelay` at this commit.

**Controller**: a configuration is its enabled nodes, the selected node and a
version; a selector is its node and the version it was built from. One action per
stage of `mutate_and_reload_with_plan` and `rebuild_locked`, and per failure of a
stage. `delete_node_value` retargets and deletes under two acquisitions of the
lock; subscriptions drop nodes without retargeting. `silent` is a history variable.

**InboundSupervisor**: the controller appears as its effect (commit, then announce
or fail), with the broadcast channel and its lag. `Receive`, `Abort`,
`ReadRecords`, `MarkStarting`, `Bind`, `FinishStart` are the awaits of
`run_until_inner` and `start_inbounds_inner`. `closing` holds the sockets
of aborted tasks. `status` is translated from `inbound_runtime.rs`. The inbounds in
`Transparent` are those of the protocols tproxy and redir, as the Linux build has
them: the start only spawns their tasks (`spawned`), which bind and report when they
are polled, before or after the start has ended; `late` holds the tasks aborted
before they reported, which may still do so.

**DnsSupervisor** and **InjectedTun**: the loops of `run_dns_supervisor` and
`run_tun_owner` against a controller that commits, announces or fails.

**UdpInbound**: `session`, `handles`, `pendingClose` and `worker` are the locals of
the session, manager and worker tasks of `handler_udp/`; `ingress`, `commands`,
`lifecycle`, `replies`, `notices` their bounded channels; `requested`,
`announcing`, `heard` the close flag and broadcast of the connection monitor. There
is one action per arm of each `select!`. Generations are positions in `worker`.

**Accounting**: `mem` is the monitor's state with its shards, `live` the listed flows
with the inbound of each record and the counters of the inbounds, `db` the tables
and the blob of an earlier version, `pass` the checkpoint under way (taken shard by
shard, then applied in one transaction, then the inbound totals in another), `reader`
a `durable_snapshot_for`. An open of a listed flow replaces its record, the inbound
included (`RefreshRelay`); a new flow is listed first and gets its entry in the shard
later (`OpenRelay`, `OpenEnds`). An import merges totals, traffic and telemetry. Upload
and download are one count; every context names an inbound (that of a TUN flow need
not); the telemetry rows of a blob are hourly. `past` is a history variable. **Ledger** is the abstract
specification: bytes are counted in their hour, a checkpoint makes some of what
was counted durable, a restart forgets what no checkpoint reached. `Accounting`
instantiates it (`ImplementsLedger`): `counted` is what is in the rows, the pending
shards and a checkpoint that has not committed; `durable` is the rows.

**DnsResolver**: `inFlight`, `refreshing` and `cache` are the maps of
`AsyncDnsResolver`, each under its own lock; a query is a record with its position,
its flight and its result; a dropped query runs its guard. **DnsUdpClient**: the
stored socket, the receiver tasks, the pending map and the oneshot of each call.

**HappyEyeballs**: `resolving` is the coordinator of the runtime crate, `dial` the
race of the core crate, `channel` what connects them; `fate` chooses what each address
will do. A strategy `list` is `dial_candidates`, which has no coordinator.

**ChainUot**: one record per call of `send_to` and for the receiver, `stream` the
streams ever opened, `holder` the reconnect lock, `retry` the queue. A frame is
read in two parts because `read_uot_frame` awaits between them.

**RouteIndex**: the tree (`memory`) and the sorted tables (`disk`) of `HostTrie` under
one set of operations; labels are byte sequences because the order of a table is.
**RouteRules**: compilation of expressions to variants, the search through the index,
routing and selection. Rules are grouped by the text of their first pattern, and of
two texts of one network the later one replaces the other at its node (`Replaces`);
names are in lower case, so that two spellings of one name, which do the same, are
left out. **RouteTable**: the rows and the handlers that save, delete and
move rules; a save reads before it waits for the lock.

**TunTcp**: `tun` is what the loop task owns, `phase` its position in
`drive_data_plane_once`, `inputs` and `outputs` the channels. Data are units that
carry the generation of their task, and a socket may take a part of a chunk.
**TunUdp**: the same loop for UDP and echo flows: `net` is what the loop owns, one
task per source, one socket per destination. **Reassembly**: `assemblies` and
`buffered` of `Ipv6FragmentReassembler`; `delivered` is what the last push returned.

### Composition

`FakeIpView`, `FakeIpImport` extend the pool, `NatRelay` the NAT table, `RouteRules`
the index: these share state. The other components meet through narrow interfaces:
the controller's announcement (each supervisor module has all of it: commit, failed
reload, event, lag), the flag and broadcast of a close request (in `UdpInbound` and
`TunTcp`), and the bytes counted. The MC modules put parts that share no state
side by side and let a behaviour explore one of them, chosen by `focus`, so that
every interleaving inside a part is explored and none between parts that cannot
see each other:

| module | parts |
|---|---|
| MCFakeIp | pool, queries, import |
| MCReload | controller, inbounds |
| MCConfiguration | dns, tun, inbounds (one on two sockets), index, table, routes |
| MCUdp | the UDP inbound |
| MCFlows | monitor, resolver, dial |
| MCTun | tcp, udp, table, relays, dns, uot, fragments |

MCController, MCInboundSupervisor, MCInjectedTun, MCAccounting, MCRoutes and
MCRouteIndex have the instances of one component.

## Runs

| run | result | shows |
|---|---|---|
| FakeIp | pass | `PoolConsistent`: cursor in range, inverse indexes, quarantine, capacity. `MemoryIsDurable`: rows behind every mapping. `AnswersStayResolvable`: for a TTL less a touch interval, across crashes. `NoEarlyRebind`: an address changes hands only by expiry or as the least recently used of a full pool. `ViewServesQueries`: the packet plane's view serves what clients were told, unless the last publication came from an overtaken query. `ImportRecovers`: an import is atomic and its retry safe; if another operation ran during it the next start repairs memory |
| Reload | pass | `SelectorsCurrent`: between reloads the planes carry one snapshot and selectors resolve. `RunningIsPersisted`: a difference from the store is recorded, except for two silent endings. `CloseNotLost`: closing a node is not undone by a prepared replacement. `AnnouncedIsServed`: no announced change lost. `ListenersSettle`: one generation of listeners, and a status that says how the start ended wherever the start or a listener task reports it |
| Configuration | pass | `NoMissedReload`, `ReloadsAndStops` of the DNS server; `TunOwnerFollows`: a device runs only while enabled and ends at shutdown; `InboundEventuallyServed`; `TreesExact`, `TablesAgree`: the tree and the sorted tables answer as the patterns say; `FlowsFollowRules`: the rule that decides a flow is true of it, and none before it is among the rules of the winning pattern and those without one; `RuleOrderKept`: saves, deletions and moves keep the order of the other rules |
| Udp | pass | `WorkersOwned`: one datagram per source and no worker without a handle; `ClosesAreCurrent`: a close is for its flow only; `CloseRequestServed`, `SessionEndReleases`: closes and ends are eventually served |
| Flows | pass | `BytesCountedOnce`, `NothingForgotten`, `ImplementsLedger`, `CountsReachTables` of the monitor; `SharingIsSafe`: one owner per flight, no cached answer past its TTL (in whole seconds; a follower returns what the owner of its flight got, unaged, which is not part of it); `CallsReturn`: every query and dial ends; `EveryAddressTried`: a dial that fails before its deadline has tried every address it was offered, and each resolved address is offered once |
| Tun | pass | `StreamsIntact`: both directions of a TCP flow in order, complete and in one piece while task and socket last, with nothing of an earlier flow of the key but before them; `FlowsReleasable`, `UdpFlowsOwned`: tasks, flows and sources agree; `NatConsistent`, `DestinationsCounted`, `NoEndpointStolen`, `RelayBindingsOwned` of the NAT; `WaitersServed` of the DNS client; `ReassemblyExact`; `SessionsReleased` of the UDP association |
| ControllerGroupDelete, InboundFailedReload, TunOwnerExits, TunCloseCuts, SharedFlowKey, UotCancel | violation | see findings |

### Bounds

- FakeIp: three domains, three addresses, capacity two, so eviction, the
  choice among free addresses and an over-full database happen; a TTL (4) of two
  touch intervals (2) and a clock past one TTL and a half (6), so a row can be
  expired, due for a touch, or neither; two concurrent queries, enough to overtake;
  an export whose entries can collide with an operation during the import.
- Reload: two requests, two selectors, two nodes, two commits and two revisions:
  the second request meets every stage of the first; two inbounds, one of them
  transparent, and a channel of one event instead of 32, so that it overflows. In
  this run no reload is without an event, one aborted task at a time still holds on,
  and only the transparent inbound is deleted (`InboundBounds`); in the run
  Configuration one ordinary inbound on two sockets has none of these bounds.
- Configuration: three changes for each supervisor; for the index names with
  wildcards, hyphens and nested labels, and a chunk size and merge fan-in of two, so
  that the external sort takes several passes; 29 sets of rules, one of them with two
  texts of one network, 12 flows and one republication; a table of three rule names, two saving clients, three writes.
- Udp: one source, one target, queues of one element, two packets, one close. Two
  packets are enough for a second generation to meet the events of the first.
- Flows: two flows on two shards, two inbounds, two hours, and eight starts, each a
  database with a budget that favours one kind of event (relays of one key, of two
  inbounds, bytes, readers, a crash and the hour it restarts in): empty, with rows of
  an earlier hour, with a blob that has buckets, and with a blob that has a sum without
  a date beside tables that are ahead of it;
  for the resolver four queries of which three are asked, a cache of one entry,
  a TTL of two and one dropped query; two addresses per family and two permits.
- Tun: two TCP flows of one source, channels of one element, a socket of one unit
  and chunks of two, so that a write is always partial; five budgets of connections,
  units in each direction, closes and expiries, so that a key is used again while
  output of its last task is in the channel; three UDP flows and one echo flow; four
  DNS lookups and three sockets; two sends, a retry queue of two and two
  attempts of an association; two assemblies, three fragments each, of packets of
  up to four units, six buffered units and a timeout of two, with eleven fragments.
- NAT: two sources, endpoints, destinations and networks, an idle timeout of two
  within three ticks. Of two relays one receives at a time, each has one close under
  way at a time, and both send to one destination (`RelayBounds`, `RelayClose`).

The bounds named `Max...`, `Last...` and `Budgets` stand in the guards of the actions
that spend them. `CHECK_DEADLOCK FALSE` everywhere: the bounds end every behaviour,
and supervisors really stop.

### Fairness

- Supervisors: weak fairness of their own steps (the executor polls a ready task) and
  of the end of a reload (it returns); strong fairness of the step that takes the
  reload lock, because tokio's mutex is first come, first served.
- UdpInbound: weak fairness of the steps of session, manager and workers and of the
  broadcast; strong fairness of hearing a close and of taking a notice, because
  `select!` polls its ready arms in random order.
- Accounting: weak fairness of the checkpoint task, the reader and shutdown; strong
  fairness of taking the snapshot lock and of the transaction, which may fail but
  not for ever.
- Resolver and dial: weak fairness of their steps; a network answers, fails or times out.
- Nothing is assumed of requests, failures, listener deaths, drops or shutdown.

## Findings

- **ControllerGroupDelete** (`doradus-api/src/subscription_publish_values.rs:31`):
  a subscription deleted with its nodes leaves live selectors on nodes that no
  longer exist; `prepare` then fails in that reload and in every later one.
- **InboundFailedReload** (`control/controller.rs:635`): an inbound mutation
  whose reload fails stays committed; the next successful reload publishes it
  but announces only its own change, so the old listener keeps running.
- **TunOwnerExits** (`plane/inbounds/listener_tun.rs:117`): the wait of a disabled
  or failed injected TUN returns `true` for a matching reload as well as for
  shutdown, and the loop ends on `true`.
- **TunCloseCuts** (`doradus-tun/src/proxy_output.rs:218`): a TCP task that ended is
  reaped and its socket closed while its last chunks are still in the output
  channel.
- **SharedFlowKey** (`plane/inbounds/handler.rs:243`): two streams of one HTTP/2
  client to domain destinations share a flow key, and the first that ends unlists
  the other.
- **UotCancel** (`doradus-chain/src/chain_uot.rs:181`): a receive dropped between the
  address and the payload of a frame leaves the next receive in the middle of it.

The passing properties name their exceptions, each a window the code has:
`ViewServesAnswers` a query overtaken between `snapshot` of the pool and
`FakeIpViewStore::replace`; `ImportRecovers` an operation during an import (no
production code calls `import_legacy`); `RunningIsPersisted` a request dropped by
its client after the commit, and `inbound_dns_handler(&next)?`, which returns
without `set_reload_error` (`control/controller.rs:601`); `TablesAgree` names beside
a hyphen (`has_prefix`, `doradus-trie/src/ondisk.rs:481`: a hyphen sorts before the
dot); `ListenersSettle` a transparent inbound that is skipped, which stays "starting"
(`plane/inbounds/listeners.rs:348`), or whose tasks have yet to bind, and a report of
an aborted task over a newer status; `StreamsIntact` output of an aborted task that
reaches a socket opened again under its key, before all that the new task read
(`proxy_output.rs:93-116` looks at neither generation nor tracking); `BytesCountedOnce`
tables ahead of an imported blob, which the first checkpoint lowers to the live total
(`monitor_runtime_persistence.rs:223` restores the blob's, not the greater), and a sum of
telemetry without a date, which a repeated import in a later hour counts again
(`monitor_statistics.rs:42`); `NothingForgotten` the gauges of two inbounds between which
a listed flow was moved by a second open (`monitor_lifecycle.rs:150-157`): the first stays
too high; `FlowsFollowRules` rules that the index shadows, whatever their priority, although
the comment in `doradus-trie/src/router.rs:322` says that lower values win, and variants that compilation
drops (`policy/route_expressions.rs:128-131`, `338`: a network conflict drops every
variant, an empty list is no constraint); `RuleOrderKept` a save whose priority was
read before another write, and rows with the ids of an earlier version;
`ClosedHoldsNoStream` a stream a reconnect has opened and still has to give up.

Seen while modelling and left without a property, because no doc, comment or test
says otherwise or because the effect is in code that is not modelled: a malformed
packet ends the run of the TUN device (`runtime.rs:468`); a duplicate fragment drops
its assembly; an error of the resolver is never sent to the dialer, which then fails
with "no addresses" (`plane/happy_eyeballs.rs:570`); an address that hangs delays
the next only until the deadline (`network/happy_eyeballs.rs:324`); sockets of
intercepted DNS over UDP are not closed; an echo flow whose NAT entry was swept
stays tracked (`TrackedHasOwner` names it); a close between the two halves of an open
leaves an entry in the shard for an unlisted flow, whose bytes are then attributed to
it; the `select!` of the coordinator panics when all its branches are disabled
(`plane/happy_eyeballs.rs`), which ends the task as its normal end does; bytes pending
for a flow that has neither tracking nor socket stay until its key is used again; results of a UDP task carry no
generation; the QUIC client may clear a newer connection.

## Proofs

TLAPS checks the theorems of eight modules, for every value of the constants that
satisfies the assumptions named in the component's module. TLC checked each
inductive invariant on the run of its component before it was proved.

**FakeIpPoolProofs**, from `PoolOptions` (a range that is not empty, a capacity within
it, a positive TTL and touch interval) and `FiniteDomains`. The invariant is

    Inv == TypeOK /\ Tables(forward, reverse, rows) /\ Quarantined
           /\ CapacityRespected /\ Backed(forward, rows, answered, up)

and `Closed` (a pool that is not open has empty indexes). `AnswersStayResolvable`
is not inductive alone: after a crash only the rows remain, and their
`last_used_at` may be older than the answer. `Backed` says that a promised answer
has a row whose `last_used_at` is less than one touch interval older than the
answer and whose address no unexpired row of another prefix claims; such a row
is unexpired, so `Open` loads it, and in an open pool the mapping itself is there.
`NoEarlyRebind` follows from the invariant for each action: only an install changes
the owner of an address, and it takes a free address or the least recently used.
The pool under concurrent queries is shown to implement the pool alone
(`QueriesImplementPool`), so the invariant holds there too, and `ViewInv` adds that a
copy which is not behind, and the view, serve every answer that stands unless a
better copy is coming. `ViewAlwaysServes` is `ViewServesAnswers`, which the run checks
under the name `ViewServesQueries` while queries are explored.

Of the legacy import, `ImportAlwaysRecovers` proves `ImportRecovers` for every export
that the loop of `import_legacy` does not refuse (`ExportIsValid`: domains and addresses
of the pool, no address twice). `ImportInv` holds across the three acquisitions of the
mutex: while no operation of the pool overlaps, a lookup already made has found no
conflict that could have come up since, so the rows committed at the second
acquisition and the indexes merged at the third are inverse and agree; after an
overlap only the soundness of the rows is kept, and the next start rebuilds memory
from them. The run checks the same formula of a second pool, through an instance.

**TunProofs** proves, of the NAT table, `IndexesAgree`, `NoIdleBinding`, `LifecycleConserved`,
`NoEndpointStolen`, `DestinationsCounted` and, for the relays (assumption
`RelayNetwork`), `BindingsHaveOwner`, which the run checks as `RelayBindingsOwned`.
A binding on a relay's endpoint is that of its mapping or the one a close has taken
(`releasing`); while a sweep or a send holds the mapping nothing else writes it.
The invariant adds that the table and the destinations of a binding are finite,
which the counting arguments need: each operation changes the cardinality, or the
sum of destinations, by exactly what it counts. Every operation first removes
expired bindings, so the proof goes through one lemma about that removal
(`ExpireKeepsInv`) and one per effect (close, renew, insert, move).

Of the TCP flows of the TUN device it proves `FlowsReleasable`, for any number of
flows and of connections and any capacities (`TunTcpAssumption`: finitely many flows,
capacities are natural numbers, and a read of the remote that returns data returns
some: a read of nothing is the end of the stream). A handler of the loop acts on many flows at once, by
a fold; `FlushStays`, `CloseStays`, `ReapStays`, `ExpireStays` and `ReplayStays` carry a
set of good states through each fold, so that the handlers are proved flow by flow.
The good states are `Ordered(L, P)`: the sockets are those of P, tracked and deferred
flows are in L, a close waits for output, a task belongs to a tracked flow, and there
are no tasks while a lookup is pending or the process is not known. `TunTcpInv` takes
the live flows for L (a socket, or an event not yet dispatched) and adds
`ClosesReported`, without which it is not inductive: the last event of a flow that has
no socket says that the socket closed, so the dispatch that ends a flow's life is the
one that releases it, from the tasks or from the deferred events.

Of its UDP and echo flows it proves `UdpFlowsOwned`, from `UdpKeys` (finitely many flows,
no key shared by a UDP and an echo flow, since a key has its network in it). `UdpInv`
says that the index of bound flows is that of the tasks, source by source, that a
datagram which waits for a process waits for the lookup of its own source, that an
identifier names one echo, and that every tracked flow is bound, waits, is being
echoed, or is an echo whose NAT entry was swept. A handler that walks over the flows
of a source, the datagrams of a lookup or the echoes breaks the last part half way:
`Holding(X, B, g)` lets the flows of X be without owner for the moment, and the
folds are followed with an X that shrinks flow by flow.

**StreamProofs** proves `StreamsIntact` from the same assumption and on top of `TunTcpInv`.
A direction of a flow is a stream of numbered units spread over several queues: what
the socket got, what is pending for it and the outputs not yet handled, or what the
task wrote, its commands and the events not yet dispatched. `Runs(v, l, a, b)` says
that the positions of one queue that belong to the stream hold the numbers after a
up to b, in order and each once; it is preserved by what happens to a queue (its
first element leaves, one is appended, others come between), without computing any
filtered or concatenated sequence. `StreamInv` is

    Download   what the socket got and what is pending hold the units up to some b,
               the outputs those after it up to what the task has read; units of
               older generations come before all of them and none is younger
    Upload     what the task wrote is a prefix; its commands hold the chunks up to
               some b, the events those after it up to what the client sent, with the
               half-close as the number after the last chunk
    Settled    a socket whose opening is not dispatched yet has everything it sent
               behind it, and no generation, task or unit is from the future
    Shaped     a chunk in the outputs is whole and of a task that was spawned
    Drained    between the flush and the first output that does not fit, a socket
               that can be written has nothing pending or is full

`Settled` is what establishes `Upload` when a task is spawned, also when the events of a
flow waited for a process lookup and are replayed; `Drained` is why an output written
straight to its socket does not overtake pending bytes. A handler that ends flows only
sheds (`Sheds`): it leaves the streams of the flows that keep their task. Only the last
step puts the queues together (`FlattenRuns`, `OwnIs`, `QueuedIs`, `ChunksAre`,
`UndispatchedIs`).

**SumProofs** has what the counting proofs need: a sum over a finite set, which the
community modules define by a fold in the order of `CHOOSE`, does not depend on that
order, and grows and shrinks by the term that is added or removed; and that a fold
of any function, over a finite set or along a sequence, exists and stays where its
steps stay, or follows a family of sets when each step leads from one to the next
(`FoldFollows`). Each fact is
proved on a set of least cardinality that would refute it, since induction schemes
cannot be instantiated.

**ControlProofs** proves, of the controller, `TypeOK`, `PlanesAgree`, `SelectorsResolve` (together
`SelectorsCurrent`), `RunningIsPersisted` and `CloseNotLost` for any number of requests,
selectors and nodes. None of the first three is inductive: at publication they need
to know what `rebuild_locked` did several steps earlier. The invariant adds

    LockHeld   a request is between commit and swap iff it holds the lock
    Locals     nothing is prepared before the prepare stage
    Covered    before publication, the selectors still to prepare and the prepared
               ones cover the live ones, and the prepared ones can be built; during
               the swap, the ones still to replace cover those of an older version
    Reported   while no ending was silent: no orphan commit, and a difference
               between store and snapshot belongs to the request under way or is
               recorded

`Covered` holds because construction, retargeting and closing take the lock; drops
do not, but only shrink the set. `CloseNotLost` then needs only that the two closing
actions take the lock, and that nothing is prepared while it is free.

Of the inbound supervisor it proves `TypeOK`, `AnnouncedIsServed`, `OneGeneration` and
`StatusSettles` for any number of inbounds and any capacity of the channel. The
invariant follows an announcement on its way: `Known` says that an inbound whose
record is behind has an event in the queue, or the receiver knows it lagged, or the
inbound is among those whose record is about to be read. A full channel keeps it
because the overwritten event is replaced by `lagged`, `Receive` because a lag or
`All` restarts everything. `Marked` says the same of a status that has not settled;
`Current` and `Bindable` say that a socket is only opened, and a task of a transparent
inbound only spawned, for the record last read, and that the sockets of an inbound
are closed before its record is read again.

**ListenerProofs** proves `NoMissedReload` of the DNS supervisor (the receivers are
subscribed before the setting is read, so each transport that acts on it has read
the last announcement or has its event still to come), and `WorkersOwned` and
`ClosesAreCurrent` of the UDP inbound for any number of sources, sessions and
generations. The invariant `UdpInv` adds that a handle names a worker of its source
(`HandlesNameWorkers`), that a flow is in the monitor only while its worker runs
(`ObservedRuns`), that the packet in process is one a session handed over
(`PacketHeld`), and that the end of a worker is announced after it (`ClosedIsGone`),
which is why a lifecycle event of an older generation cannot remove a newer handle.

**OutboundProofs** proves four components. `WaitersServed` of the DNS client
(`UdpClientInv`: a sender in the map is that of a call of its key which has no
result). `SessionsReleased` of the UDP association, from `UotAssumption`: `UotInv` relates
each call to the generation and stream it saw and says which streams are held;
`RetryInv` says that after the close the only frames left are of sends that have not
looked at the flag yet, and will. `SharingIsSafe` of the resolver, from
`ResolverAssumption`: a flight has one owner, and the map holds the flight of its key
that has not come to an outcome (`FlightsOwned`), a refresh mark by its task (`RefreshesMarked`), and every
result a query carries expires with the reply it came from (`ResultsExpire`).

`EveryAddressTried` of the dialer is proved for any addresses, strategies and
remembered addresses, from `DialInputs` (the families and the cache are sequences; a
dial of a list has one, because `dial_candidates_for_key` refuses an empty list). It
relates what was resolved to what was tried, with the coordinator and a channel in
between, so that the invariant has a half for each side: `CoordinatorInv` says that
the candidates offered and those held back are together the ones resolved, in number
and as sets, and that something is held back only while a delay or another family is
waited for; `DialerInv` that, before the deadline, each offered candidate is in the
channel, pending, attempted or failed, and that the end of the source is seen only
after the channel was emptied. Counting and comparing as sets gives that no address is
offered twice. The filters of `reorder_candidates` are written as folds (`Outside`).

**AccountingProofs** proves `BytesCountedOnce`, `NothingForgotten` and `ImplementsLedger`
for any number of shards, flows, inbounds and hours, from `AccountingAssumption` (at
least one shard; the tables and the blob hold natural numbers, in either order). None
is inductive, because a checkpoint is taken shard by shard while bytes are counted.
`AccountingInv` has

    AccountingShape     types, and how far the checkpoint and the reader are
    GateHeld            who is between taking and applying holds the snapshot lock
    ImportFirst         an import has reached the tables before its blob is deleted
    TotalsSettled       the rows, the delta of the checkpoint and the pending shards
                        add up to what was counted; for a reader, the shards it has
                        read and those it has not do so as well
    TelemetryConserved  the same for the telemetry, through compaction and import
    CaughtUp            once a checkpoint was applied the tables are not ahead
    DirtyMarked         what is pending is marked dirty, or the checkpoint under way
                        will reach its shard
    GaugeFollows        the gauge of an inbound is the number of its listed flows, while
                        none of them was moved between inbounds

A sum over shards is split at the shard the checkpoint has reached; the lemmas of
`SumProofs` move one shard across. The refinement follows: counting a byte is `Count`,
the transaction is `Checkpoint`, a crash is `Restart`, everything else stutters.

### What is only model-checked

- Liveness (`ReloadsAndStops`, `InboundEventuallyServed`, the second half of
  `TunOwnerFollows`, `CloseRequestServed`, `SessionEndReleases`, `CallsReturn`,
  `CountsReachTables`): fairness is out of the prover's reach.
- `TreesExact`, `TablesAgree`, `FlowsFollowRules`: their modules are built on
  recursive operators, and what these compute needs induction over data.
- `ReassemblyExact`: about sorted and concatenated sequences of any length, which the
  provers cannot compute.
- `RuleOrderKept`: about what `SelectSeq` keeps of a table under two orders.
- `TunRunsEnabled`: small, and checked with the liveness it belongs to.

## Not modelled

Fragmentation of packets the TUN device writes, DNS over TCP, TLS, HTTPS and QUIC,
match history, the download of route lists, the construction of resolvers from
their records, wire formats and cryptography of the proxy protocols, VPN drivers,
the remaining projections of rows to JSON, users, backups, geo databases, metrics
text, self update, platform glue: I/O, formatting or code whose correctness is
arithmetic on bytes. The compilation of a configuration (`assembly*.rs`) appears only
as a step of a reload that succeeds or fails.

## Plan

What remains to be proved: `RuleOrderKept` and the accounting half of `ReassemblyExact`,
with the tables and the fragments written as folds, as the streams of a flow are.
Modelling next: the shared connections of the TCP and QUIC DNS clients, and the
refresh of route lists.

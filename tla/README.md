# Verification of svc-lb-mux

svc-lb-mux is a Kubernetes operator (Python, kopf and kr8s) that lets many
*channel* Services share one cloud load balancer, the *mux* Service. A daemon
thread per mux turns the channels attached to it into the port list of the mux,
the addresses of the mux Endpoints and the annotations of the mux. This directory
holds TLA+ models of that daemon, of the threads and objects around it, the
configurations that check them with TLC, and proofs of their main safety
properties for TLAPS.

    tlc -workers 2 -config ownership.cfg MCReconcile
    tlapm MuxReconcile_proofs.tla

## Inventory of the system

| Component | State | Operations | Interacts with | Model |
| --- | --- | --- | --- | --- |
| Port reconciliation pass: `controller.py` `mux_daemon` 437-672, `build_mux_state`; `reconcile.py` | locals of one pass: `old_ports`, `sorted_channels`, `port_owners`, `ports` | refresh, snapshot, recover owners, resolve, reject or accept each channel, save, patch | reads the index `mux_channels`; reads and patches mux, channels, ConfigMap | `MuxReconcile`, `PortRegistry` |
| Claims: `mux_state.py` | `claims`, `changed`, `active_keys`, reserved ports and owners | `allocate`, `record_channel_claims`, `_prune_inactive`, `port_owners`, `to_state` | lives for one pass, loaded from and saved to the store | `MuxReconcile` |
| Store: `port_allocations.py` `ConfigMapAllocationStore` | the ConfigMap; `exists` | `load`, `save`, owner checks, decoding | API server; other muxes, users | `MuxReconcile`, `SharedStore` |
| Endpoints synchronisation: `controller.py` 158-349, 552-578, 674-749; `reconcile.py` 480-617 | `memo.endpoints`, the mux Endpoints | `handle_endpoints`, `mux_endpoints`, `channel_deletion`, gather, compare, patch | handlers in worker threads, daemon thread, two watches | `EndpointSync`, `EndpointContinuity` |
| Queues and the life of a mux: `multiplexer_services`, `mux_daemon` 426-440, `mux_deletion`, `trigger_mux` | `memo.mux_queues`; the pool of 64 threads | create, look up and wait, put, get with timeout, pop | handlers, daemon, index functions | `MuxLifecycle`, `HandlerPool` |
| external-dns aggregation: `reconcile.py` 63-188, `controller.py` 601-641 | mux annotations, the list of aggregated keys in one of them | aggregate, detect conflicts, apply, patch | users and GitOps edit the same annotations | `MuxAnnotations` |
| Topology and summary annotations: `reconcile.py`, `controller.py` 585-600 | mux annotations | write what changed | index, `memo.endpoints`, ingress | `MuxAnnotations`, as one annotation |
| Debug state: `debug_state.py` | mux, channel and Endpoints entries, recent events, under a lock | update, delete, record, snapshot, topology | daemon, handlers, web server | `MuxLifecycle`, `EventLog`; readers left out |
| Kubernetes events: `events.py` | a bounded cache of posted events, without a lock | create or patch an event | every thread | `EventLog` |
| Parsers: `refs.py`, `annotations.py`, `utils.py`, parts of `reconcile.py` and `port_allocations.py` | none | | | what they yield, in the inputs of the models |
| Web server, authentication, `main.py`, `alert.py`, tools, chart | none that reconciliation depends on | | | none |

What is hard about it: no lock and no transaction covers a pass. It reads four
sources one after the other (mux, index, ConfigMap, cache), decides, and writes
four objects one after the other, each write fails on its own, and any
exception ends the pass and starts the daemon again. Users, GitOps reconcilers
and the watches act between any two of its steps, and the operator may restart
anywhere. Three sources say who owns a port and may disagree. Daemons, handlers
and index functions are threads that share `memo` and the event cache without a
lock; only the debug state has one. PROJECT.json lists these hazards line by
line under "hazards".

Properties that make each part correct:

* ports: a (port, protocol) has one owner, in the mux and in the claims; what
  is published is claimed durably first; a newcomer takes nothing over from a
  persisted or a live owner; automatic assignments stay; no port is lost for good;
* store: no mux works with the claims of another; what another mux has saved is
  replaced in a race only; races over one ConfigMap end;
* endpoints: the mux ends up with the addresses of its channels; an address
  that is wanted without a break is never taken away by a pass;
* annotations: what the controller published it recognises as its own; what
  users wrote before a pass it leaves alone; they settle on what channels say;
* life of a mux: events reach the daemon that reads them; a live mux is served
  and shown, a deleted one leaves; nothing shown refers to something not shown;
* threads: functions that wait for a queue do not keep the functions that make it
  from a thread for good, and what they wait to report is reported in the end;
* events: the cache stays bounded under unlocked threads, the log is that of the
  latest events, recording an event never holds a thread.

## Modules

| Module | Contents |
| --- | --- |
| `MuxReconcile` | the pass over ports, its environment, its properties, the refinement mapping to `PortRegistry` |
| `PortRegistry` | abstract specification: what a mux promises about the slots it hands out |
| `SharedStore` | several muxes configured with one state ConfigMap |
| `EndpointSync` | caches, handlers, watches and the daemon's work on the mux Endpoints |
| `EndpointContinuity` | `EndpointSync` with a history: mux entries nothing has spoken against, channels whose watches raced, passes in which nothing happened |
| `MuxAnnotations` | the annotations of one mux, written by its daemon and by users |
| `MuxLifecycle` | daemons, queues, deletion, restarts, the debug state and its lock |
| `HandlerPool` | the pool of threads, the functions kopf runs in it, and `trigger_mux` with its waits and retries |
| `EventLog` | threads in `record_event`: the unlocked cache and the log |
| `MCReconcile`, `MCEndpoints`, `MCContinuity`, `MCAnnotations`, `MCLifecycle`, `MCPool` | instances for TLC; `MCEndpoints` also has the statements of the documentation that do not hold |
| `*_proofs` | inductive invariants and theorems of the module they are named after; `PortRegistry_proofs` has the refinement |

`EventLog` and `SharedStore` are small enough to be run as they are.

How they compose. Each module cuts the daemon's pass at the moments that matter
for its own state and lets the rest of the system do anything it may: in
`EndpointSync` the set of accepted channels, the result of `MuxReconcile`,
changes at any time; in `MuxLifecycle` a pass is what it does to the mux
Endpoints and to the cache; in `MuxAnnotations` the cached pods change at any
time; `SharedStore` keeps of the claims only whose they are. A property proved
of one module does not depend on the choices it leaves to the others.

### MuxReconcile

`live`, `muxPorts`, `settings` and `cm` are objects of the API server; `index`
is the kopf index of channels, which `IndexSync` brings up to date one channel at
a time; everything from `oldPorts` to `resolved` is a local variable of
`mux_daemon` or of its `MuxState`. `pc` is where the pass is:

| `pc` | steps |
| --- | --- |
| `idle` | `Refresh` (`mux.refresh()`) |
| `load` | `Load`: the channel snapshot, `collect_existing_port_owners`, `build_mux_state` with `store.load()`, the seeding of `port_owners` |
| `channels` | per channel: `SkipChannel` or `BeginChannel`; per port `ResolveStaticPort` or `ResolveAutoPort` (or `AutoPortUnavailable`); then `RejectConflict`, `AcceptChannel` or `ChannelGone`. After the last: `SaveStore`, `SkipSave`, `SaveFails` |
| `publish` | `PublishMux` |

A pass is cut into as many steps as it has moments at which another actor's
change matters: each API call and each accepted channel. The snapshot and the
load of the ConfigMap are one step: a change of the ConfigMap that falls between
the two has the effect of one just before them, a change of the index that of one
just after them.

Abstractions. A channel is its rank in the namespace/name order and a port name its
position in `spec.ports`, as the code uses both only to iterate and to compare. The
seven hex digits of `port_hash` are taken to be injective, so a mux port carries its
owner; muxes with colliding hashes are outside the model. A claim is its `muxPort`:
the other fields follow from its key or are for people (a change of only those makes
the code write the same claims once more). A range is the sequence of its ports. A
spec that a parser refuses is a spec that is not `valid`; which text is refused is
not modelled. A mux without ports stands for the placeholder port. The patches of
the status of channels and of the mux annotations are left out (the latter are in
`MuxAnnotations`); that they can fail is part of `AbortPass`. An operator restart is
`AbortPass` followed by `IndexSync`: nothing else of this half is in memory. Users
do not edit the mapping annotation of channels. Deleting the mux is in
`MuxLifecycle`; `DRYRUN_MODE` is not modelled.

### PortRegistry

A registry has members, a durable ledger (kept, absent or unreadable) and a table
of what is served. `Record` and `Publish` are its promises: neither ledger nor
table gives a slot twice, both are about members, while the ledger is kept the
table shows only what it has, and while it can be read nobody is recorded where
another member is served. `MuxReconcile` implements it with the ConfigMap as
ledger, the ports of the mux Service as table, and the channel ports declared in
the snapshot of the pass as members (`ImplementsRegistry`): `Load` and the end of
a pass are `Observe`, a save is `Record`, `PublishMux` is `Publish`, every other
step of the pass stutters, and what users do to ConfigMap and mux is `LoseLedger`
and `ResetTable`.

### SharedStore

`cm` is the ConfigMap: its owner annotation, the mux named in the state, and the
author of the claims. `CheckExists`, `RefreshState`, `RejectState`, `RefreshFails`
are the calls of `load()`, `PatchState`, `CreateState`, `SaveFails` those of
`save()`, `EndPass` a pass that has nothing to save or works stateless. Between
any two of them other daemons do the same and users delete the ConfigMap or clear
its annotation or its data. `written[m]` is a history: who has saved since `m`
read the ConfigMap.

### EndpointSync

`svc`, `eps`, `muxEps` are objects of the cluster; `index`/`gone` and
`seen`/`event` are the two watches, of Services and of Endpoints, which are not
ordered with respect to each other; `cache`, `muxCache` are `memo.endpoints`;
`queue` counts the items of the mux queue. `HandleChannelService`,
`ChannelDeletion`, `HandleEndpoints`, `HandleMuxEndpoints` are the kopf handlers,
`BeginPass`, `CollectChannel`, `ReadMuxEndpoints`, `PublishEndpoints` the daemon.
An address stands for (ip, port, protocol), an entry for an address under a port
name, ready or not. Which channels the port half accepts is the variable
`accepted`, changed by the environment at any time: the two modules meet there.

`ChannelDeletion` runs while the channel is still indexed and its finalizer holds
it (`svc` "deleting", then "released", then `Finalize`); it leaves the index with a
later watch event (`gone`, `UnindexChannel`) that no handler is told of. A
Service deleted before the operator saw it has no finalizer and goes at once.

kopf, kr8s, the endpoints controller and users are external and modelled from
how the code uses them. In particular, building a kr8s object from a cached body
is taken to leave the cached body alone.

Two races of the watches have a name, so that a run can do without them:
`early` (the Endpoints of a channel are reported before the channel) and `hasty`
(a channel is created again before the Endpoints of its predecessor are gone).
In both the operator can lose the Endpoints of a channel for good; the run
`early_endpoints` shows it, and `follows` assumes that they do not happen.

### EndpointContinuity

`EndpointContinuity` adds three histories to `EndpointSync`. `steady` holds the mux
entries that a pass has published while the operator was up to date with their
channel, and that have been in the mux and wanted (channel there and accepted,
address in its Endpoints) in every state since; a restart, which empties the cache,
begins it again. `ServedPodsStayServed` says a pass never takes one of these away.
`raced` has the channels whose last report was in one of the two races of the
watches; `OnlyRacesLoseReports` says that the reports of all others are in the cache
or on their way to a handler that will take them. `calm` says of the pass under way
that it began when the watches had nothing left to report, and that nothing changed
since; `CalmPassesAreRight` says what it then leaves in the mux, without a word
about the cache.

### MuxAnnotations

`anno`, `status`, `chan` are the annotations of the mux, its ingress and its
channels in the cluster; `index` and `pods` are `mux_channels` and the ready
addresses in `memo.endpoints`; `copy`, `ingress`, `snap` are what a pass has read.
A pass has four moments: `Refresh` reads annotations and ingress, `ReadChannels`
takes the channels down (`sorted_channels`), `DescribeMux` draws topology and
summary into `drawn` and reports conflicts, by calls to the API server, and
`UpdateAnnotations` aggregates (`ApplyAggregated`) and patches every annotation that
differs from the copy. Hostnames are aggregated from `snap`, but the topology is
drawn from the index and the cache as they are then (`LiveChannels`): `channels` is
the live value of the kopf index, except that a mux without channels is given an
empty set of its own. The reads at `controller.py` 579-599 are one step; what
changes among them also changes between `ReadChannels` and the patch, which `moved`
records. Users write, remove and replace any key, and rewrite the list of owned
keys (`EditTracked`), between any two steps. A list of hostnames is a set; wording
and layout are left out, and with them the port lines.

Histories: `raced` has the keys users wrote since the refresh, `published` those
whose value is the controller's, and `moved` says that index or pods changed since
the pass took the channels down. `Settled` is what the annotations should say:
`AnnotationsSettle` that they do in the end, `UnracedPassesSettle` that one pass is
enough for it, if nothing it read has changed by the time it patches. That the
channels are in the end as the pass took them down would not do: one that was
edited and edited back has been drawn as it was in between.

### MuxLifecycle

`svc`, `chan`, `muxEps`, `chanEps`, `news` are the cluster: muxes, channels with the
mux they name, the Endpoints of both, and which of them are not reported yet. `index`,
`queue`, `cache` are `mux_channels`, `memo.mux_queues` and the keys of
`memo.endpoints`; a queue is only told apart by whether the running daemon reads
it ("own" or "other"). `pc[m]` is where the daemon of `m` is (none, starting, top,
update, pass), `stopped` the flag kopf sets. `shownMuxes`, `shownChannels`,
`shownEps` are the debug state, `lock` who is in it; `current`, `todo`, `reading`
are the locals of `update_mux_state`, which reads the cache without a lock of its
own: `UpdateRaises` is the KeyError of a key that goes between test and read.
`missed` is a history: the channels whose Endpoints were reported before the channel
was indexed, and dropped (`HandleEndpoints`), or were there before the channel, so
that nothing is reported (`PutChannel`). These are the races `early` and `hasty` of
`EndpointSync`.

The actions are the index functions (`IndexMux`, `IndexChannel`), the handlers
(`ChannelDeletion`, `HandleEndpoints`, `MuxEndpoints`, `MuxDeletion` with
`DeleteMuxState` under the lock, `ReleaseMux` for the finalizer), the daemon
(`StartDaemon`, `Loop`, `BeginUpdate` to `EndUpdate`, `FinishPass`,
`CreationRefused`, `ExitDaemon`), `CreateEndpoints` and `RemoveEndpoints` of the
endpoints controller, and `StopDaemon`, `AbortPass` and `RestartOperator`, which
forgets everything in memory and has all Endpoints reported again.

### HandlerPool

`svc` and `chan` are the muxes and channels of the cluster. `fresh`, `seen`, `stage`
and `stopped` belong to kopf: the objects with an event to process, the channel as
of the event being processed, how far it is (idle, index, handle, retry, done), and
the daemons told to stop. `due` and `threads` are the pool: functions in line and
functions that have a thread. `queue` is who has one in `memo.mux_queues`, `looks`
the loop counter of `trigger_mux`; `heard` is a history, of the channels whose mux
was told of their last change.

`Process` submits the index functions of an object, `IndexMux` and `IndexChannel`
end them and submit what follows: the daemon of a mux, or its `MuxDeletion`, or the
handler of a channel. The handler is `Refuse` (a port without a name, a class that
cannot be parsed), `Trigger`, `LookAgain` up to `MaxLooks` times, or `GiveUp`:
`TemporaryError`, which ends in `Retry` or in the next event, or a plain return if
the channel is being deleted. `TakeThread` gives a thread to what is first in line.
`ExitDaemon` and `AbortDaemon` give one back. What a pass does is not told apart
here; that the queue is the one the daemon reads is `MuxLifecycle`'s.

`NoChangeIsForgotten` says where the last change of a channel is at any time: in an
event, in a function in the pool, waiting for a retry, or with its mux.
`MuxesAreInHand` says the same of muxes: a live one has a queue and a daemon that
nothing has told to stop, or an event that will see to it.

### EventLog

A thread records an event of some kind: `Call` looks the cache up, `PatchEvent`
patches what it found, `CreateSucceeds` and `CreateFails` are up to three attempts
to create it. `Store`, `MoveToEnd`, `CheckLength`, `OpenIterator`, `FindOldest` and
`Evict` are the steps of `CacheDict.__setitem__`, between which threads may be
switched: one that opens its iterator after another has evicted evicts a key too
many. `CacheRaises` is the KeyError, RuntimeError or StopIteration of a thread that
came too late (the last one takes three threads, of which the proofs know and the
run does not). `LogEvent` is `record_event` of the debug state, one step as it holds
the lock. What the API server answers is open.

## Runs

Passing runs (distinct states and time with two workers):

| Run | Question | Bounds | States |
| --- | --- | --- | --- |
| `ownership` | Do ports have one owner, in the mux and in the claims, are claims durable first, and are persisted and live owners safe from newcomers, under every interleaving with edits and a crash, a GitOps reset, the loss or the corruption of the ConfigMap? | 2 channels of one port, 2 ports, one legacy state, 4 edits, 1 fault | 2 594 000, 95 s |
| `allocation` | Do automatic assignments stay, do passes keep to the limit and implement `PortRegistry`, while range, its order and limit change? Channels of several ports: one number for TCP and UDP, a slot twice in a channel, static beside automatic, refused specs | 2 channels of up to 2 ports, 3 ports, 2 protocols, 3 settings, 3 edits, 1 fault | 2 415 000, 180 s |
| `settles` | Is each channel served in the end, or its port really taken? | 3 channels, 2 ports, fixed specs, 4 edits, 1 aborted pass or GitOps reset | 140 000, 40 s |
| `shared_store` | Does a mux ever work with the claims of another, replace a state it should not, or quarrel for ever? | 3 muxes, 3 deletions, repairs or aborts | 535 000, 62 s |
| `continuity` | Does a pass ever take a wanted address away, is a report ever lost, is a calm pass right? | 2 channels, 2 addresses, 3 edits, 1 fault (abort, restart, edit or deletion of the mux Endpoints), both races | 1 608 000, 110 s |
| `follows` | Does the mux end up with the entries of its channels? | 2 channels, 2 edits, 2 of abort, restart, deletion, edit of the mux Endpoints | 110 000, 26 s |
| `annotations` | Whose is an annotation after several passes and edits, does it settle, and is one pass enough? | 2 channels, there from the start, 3 bodies, 3 edits, changes or faults | 1 116 000, 138 s |
| `lifecycle` | Do events reach the daemon, are live muxes served and shown, do deleted ones leave? | 2 muxes, 1 channel that moves, 2 edits or faults | 127 000, 98 s |
| `pool` | Does every mux get its daemon although waiting handlers can hold every thread, and keep queue and daemon; is a change ever dropped, do deletions complete, does the mux hear of every last change? | 1 mux, 2 channels, 2 threads, 5 edits or aborts | 331 000, 120 s |
| `events` | Does the cache stay bounded, is the log right, does every call end? | 2 threads, 3 kinds, cache for 1, log for 2, 4 calls | 510 000, 80 s |

Two channels suffice for contention over a slot, as ownership is decided slot by
slot between one claimant and the rest; the third channel of `settles` is there so
that a channel can be blocked by one that is blocked itself. Two ports make an
allocation move; three let it have a choice left. Four edits create two channels and
change both, or create, delete and create again. Three muxes let one mux lose its
state to a second while a third is between load and save. Two events move a channel
to a mux and delete that mux, or delete a mux and create it again, during one pass.
Three events let users take a key over, give it back and edit the list of owned
keys, or combine one of these with an aborted pass; that the channels of
`annotations` are there from the start, and the first begins with one hostname and a
wish for the proxy, only saves states, as users may change and delete them. In
`pool` the daemon needs one of two threads that two channels can both hold; five
events create mux and channels and delete or change two of them (two muxes with
three threads and four events, 398 000 states, was checked as well). Four calls of
three kinds fill a cache for one and a log for two, evict with two threads at once,
and repeat an event. `MaxEdits`, `MaxFaults`, `MaxEvents` and `MaxCalls` are the
only bounds on histories, besides `MaxQueue`, where the queue saturates: the daemon
only asks whether it is empty, and its timeout starts a pass also if it is.

Deadlock is checked where the daemon always has a next step. `lifecycle`,
`pool` and `events` are exempt: all muxes may be gone, everything may be processed,
and the calls are bounded.

Fairness. Safety properties need none. `FairSpec` of `MuxReconcile` is weakly fair
to the daemon, whose loop is driven by the queue timeout (10 s) and which kopf
starts again after an exception, and to the watch of each channel, which kopf
re-lists. `FairSpec` of `EndpointSync` adds the handlers of each channel, which kopf
retries, and the cluster's endpoints controller. `MuxAnnotations` has the daemon and
the watches. `MuxLifecycle` has each daemon, each handler and the endpoints
controller, and strong fairness to `BeginUpdate` and `DeleteMuxState`, which wait
for the lock of the debug state: other threads take it again and again, hold it for
a bounded computation, and a thread that waits gets it in the end. `HandlerPool` has
`TakeThread`, as the executor starts what was submitted first when a thread is free,
and the steps of each object, as threads run and kopf processes every event and
retry. `EventLog` has each thread, `SharedStore` the daemon of each mux. Users and
faults are never fair; they end because they are bounded, which is the premise "once
changes stop".

Runs that show a disagreement between the code and what is said of it:

| Run | Statement | What happens |
| --- | --- | --- |
| `early_endpoints` | docs/controller.md:308, Endpoints events update the cache | an event ahead of its Service is dropped (controller.py:167) |
| `deleted_endpoints` | docs/controller.md:103, periodic drift is corrected | mux Endpoints that are deleted never come back: the daemon creates them from the cached body, which the API server refuses for its resourceVersion (controller.py:746) |

## Proofs

Every theorem assumes what its module states of the constants in its `ASSUME`, and
nothing about their sizes, nor about the bounds on edits and faults beyond that
they are natural numbers.

`MuxReconcile_proofs` (`ReconcileAssumption`: finitely many port names,
channels are numbers, for their order):

* `TypeCorrect`: `TypeOK` is inductive together with `LoopOK`: the loop works
  only on channels of the snapshot, and on each of them once.
* `SlotsHaveOneOwner`: `OneOwnerPerSlot` speaks of the mux only. `OwnersAgree` adds
  what `port_owners` is for: every port accepted so far is entered there under its
  own owner, so that `FindConflicts` keeps the next channel off its slot.
* `ClaimsStayDisjoint`: `ClaimsInv` adds that the claims in memory are disjoint
  too. The difficult step is `AcceptChannel`, which records static ports.
  `ClaimsGuarded` says that every claim in memory either is known to `owners`, so
  that whoever asks for its slot is refused, or is for a slot that no channel asks
  for statically: claims that `ResolveAutoPort` recorded for a channel refused
  later are of the second kind. `ResolvedAsAsked` ties the ports resolved so far to
  the requests and to the claims.
* `ClaimsArePersistedFirst`: `WriteInv` says that every accepted port is claimed in
  memory, under a channel the loop does not come back to; that once past the save
  a ConfigMap of the controller holds these claims (`AcceptedAreClaimed`); and that
  what `SkipSave` leaves out is what the ConfigMap already says (`StoreInSync`).
* `LivePortsAreSafe`: `LiveInv` says that the mux a pass began with names one
  owner a slot, and that `owners` has an entry for each slot it names: the live
  owner, or one with a persisted claim there (`LiveGuarded`), for which accepting it
  records nothing new. The second case is real: a channel deleted and created
  again finds its old port granted to another channel while the mux still shows it.

* `LimitIsKept`: `LimitInv` says that the ports accepted are finitely many and that
  what the current channel brings still fits (`RoomForCurrent`), from the check that
  begins a channel to its acceptance.
* `PersistedOwnersServed`: `StaticOwnersKept` says that a static channel whose claims
  are held is accepted already, or still to come with its slots its own in `owners`,
  so that neither a conflict nor a newcomer before it stands in its way.
* `AssignmentsAreStable`: `AutoClaimsKept` says that while the loop runs, an
  automatic claim in memory is still the persisted one, unless it had a reason to
  move (`MayMove`). It holds because the claims are disjoint, so that no other
  channel's claim stands in the way when `ResolveAutoPort` tries the persisted port
  first, and because what `AcceptChannel` records is what was asked (`ResolvedAsAsked`).

`PortRegistry_proofs`: `RegistryImplemented` shows that `MuxReconcile` implements
the registry. One lemma an action: a save is `Record`, `PublishMux` is `Publish`,
and so on. They need `RegistryInv`, on top of the invariants above: what a save
adds to the ledger is not served to another declared port (`NewSpared`), which
holds because the live mux is the one the pass has read, but for a reset
(`MuxAsRead`), and `Load` has entered its owners; and a legacy state that is read
is written again as the pass's own (`LegacyIsSaved`).

`SharedStore_proofs`: `StoreTyped`, `ClaimsAreOwn` and
`StatesAreReplacedInRacesOnly`. The state never names another mux than its author
(`StateNamesItsAuthor`), so what `load()` validates is whose the claims are
(`LoadedIsValid`); and if a ConfigMap now names a mux that it did not name when a
daemon read it, that mux has saved since (`OthersSavedSince`).

`EndpointContinuity_proofs`, with every fault and race of the model:

* `EndpointsTyped`: `TypeOK` is inductive as it stands, with what a pass holds.
* `SteadyEntriesAreSecured`: `SteadyIsSecured` is the inductive strengthening of
  `ServedPodsStayServed`: the entry is in the channel's Endpoints, in the cache, in
  an event on its way, and in the pass or still ahead of it. Restarts and edits of
  the mux Endpoints by others (`Undisturbed` is their negation) break it, and
  they speak against the entries they take away, in the history.
* `ServedPodsKept`: then every patch contains it.
* `ReportsAreKept`: `ReportsAreCurrent` adds to `OnlyRacesLoseReports` that an event on
  its way is what the watch has last reported, and that the watch forgets the
  Endpoints that are gone.
* `CalmPassesServeTheChannels`: `CalmIsRight` says that a calm pass has gathered the
  entries of the channels it is past, as they are in the cluster. That the cache it
  reads agrees with the cluster is `ReportsAreKept` (`DrainedCache`): the theorem
  joins the handlers' half of the module with the daemon's.

`MuxLifecycle_proofs`: `LifecycleTyped`, `QueuesAreRead`, `ShownStateIsConsistent`
from one inductive invariant. A mux whose deletion is done is one whose daemon was
told to stop, and a mux that is gone has none (`GoneIsStopped`): so the queue
`mux_deletion` popped is not one a daemon goes on to read. `HolderIsShown`: in an
update, the mux whose daemon holds the lock is shown, so the channels entered for it
have their mux.

`MuxAnnotations_proofs`: `AnnotationsTyped`, `PublishedKeysRecognised`,
`OlderEditsAreSafe`, `OnePassSettles`. `OnlyUsersWrite` says that the annotations
differ from the copy of a pass only in keys of `raced`; `Recognised` that the
controller's keys are among those the list names, in the cluster and in the copy.
`AggregateSays` shows that the aggregation of the code is what `Says` states, for
every number of channels. `DrawnIsCurrent` says that while nothing has moved the
index is what the pass took down and the topology it has drawn is of that index and
of the pods as they are; with these a pass that nothing races with settles.

`EventLog_proofs`:

* `CacheIsBounded`: whenever the cache is over its length some thread is on its way
  to the length check (`OverIsChecked`): a thread that fails on a key that is gone was
  overtaken by one that has removed it and will check again, and one that finds
  the cache empty leaves nothing to evict.
* `EventsTyped`: the keys of the cache stay distinct although threads insert, move
  and evict without a lock, and no count passes the number of calls.
* `LogIsOfTheLatest`: the log is described by `recorded`, the history of the calls:
  `ShowsTheLatest` says that it has the kinds recorded last, in the order of their
  last calls, none twice, and what `Push` does to such a log when one more call is
  recorded is the case analysis of the proof (the kind is in it or not, the log is
  full or not).

`HandlerPool_proofs`, under `PoolAssumption` (fewer muxes than threads; the proofs
need only that the number of threads is one):

* `PoolIsConsistent`: `TypeOK` is inductive once the threads can be counted
  (`PoolInv`): a function is submitted when its object reaches its stage and returns
  before it leaves it, so none is in the pool twice (`OneFunction`), and a daemon gets
  in line only if there is none.
* `ChangesAreKept`: `Served` and `Told` are inductive on top of it. `OthersStay` says
  what the step of one object leaves in the line; the rest is the life of an event.
* `MuxesAreKept`: `Held` adds to `MuxesAreInHand` that only a mux being deleted has its
  daemon told to stop or a stage beyond its index function, and that what is gone
  has no event. So a mux created again never meets the end of its former daemon:
  its finalizer goes only when that daemon is done.

Left to TLC is liveness (`EveryChannelServedOrBlocked`, `MuxFollowsChannels`,
`LiveMuxesAreServed`, `DeletionCompletes`, `AnnotationsSettle`, `CallsEnd`,
`OneMuxKeepsTheState`, `LiveMuxesHaveDaemons`, `DeletionsComplete`,
`MuxesHearOfChanges`), as the prover does not reason about fairness. Every invariant
and every action property of the runs has a theorem. For three of the liveness
properties the theorems say what their fairness leads to: `CalmPassesServeTheChannels`
and `OnePassSettles` that one undisturbed pass is enough (each says what must not
happen meanwhile), `ChangesAreKept` that
whatever a mux has not heard of is still under way.

## Known limits of the results

* `EveryChannelServedOrBlocked` is checked for fixed specs of one port per
  channel and without a port limit. With changing specs it fails: channels that
  exchange their static ports block each other for ever, each with the old claim of
  the other (docs/controller.md:412 explains a conflict by two mappings that want
  one slot; `controller.py` 522).
* `PersistedStaticOwnerServed` is about channels whose ports are all static and
  about muxes without a port limit. A new static request moves a persisted
  automatic assignment (`mux_state.py` 139, while docs/controller.md:271 gives
  persisted owners precedence); and the limit is counted in name order over
  what the pass has accepted so far (`controller.py` 499), so a new channel that
  sorts first pushes a persisted one out.
* `NoLivePortTakenOver` does not say that a live owner is served: it may be refused
  because the persisted claim of its slot is another channel's, or be automatic in
  a pass whose state cannot be decoded, which goes on stateless
  (`controller.py` 388, docs/controller.md:256).
* A channel port that is renamed keeps its old name in the mux Endpoints for ever,
  so the new mux port has no backend: old and new entries are compared as (ip, port,
  protocol) (`reconcile.py` 583-617; the comment at `controller.py` 685 says all
  changes are detected). The instances of `EndpointSync` rename no ports and give
  channels addresses of their own, so entries that differ in the name only do not
  come up there.
* `HandlerPool` assumes fewer muxes than threads. With 64 muxes the daemons hold every
  thread, and no handler or index function runs any more (`controller.py` 90).
  A channel that moves to another mux tells only the new one; the old one
  hears of it by its queue timeout. `MuxesHearOfChanges` does not tell a mux from
  one that was created again under its name: the one told may be the predecessor.
* `ServedPodsStayServed` is about what was published since the operator started: the
  first passes after a restart patch away the channels that are not cached yet
  (`reconcile.py` 483). `OnlyRacesLoseReports` and `CalmPassesAreRight` say that they
  come back.
* A channel whose Endpoints are reported ahead of it (`early`), or that is created
  again before those of its predecessor are gone (`hasty`), stays without addresses
  until they change (`missed` in `MuxLifecycle`), mux Endpoints deleted under the
  cache stay away (`DeletedUnderCache`, `Obstructed`), and a port annotation that is
  no number stops the whole mux (`debug_state.py` 345, `Obstructed`): the liveness
  properties except these states.
* A pass that is under way when its mux is deleted shows the mux in the debug
  state again, until the operator restarts (docs/controller.md:468). The properties
  say that what is shown is consistent, not that it is gone.
* `OnlyRacedEditsAreLost` allows what the code does: a user's edit between refresh
  and patch is set back. `UnracedPassesSettle` allows that a pass which index or pods
  have overtaken leaves an old topology, until the next one.
* `OneMuxKeepsTheState` assumes that passes do not overlap between load and save
  for ever. If they do, the muxes go on replacing each other's state, as the
  patch names no resourceVersion (docs/controller.md:255 says one mux is refused).
* The event cache is first in, first out, as `get()` does not refresh an entry
  (`events.py` 33), while its docstring calls it LRU; nothing checked depends on it.

## Not modelled

* Services that stop being a mux, or a channel, without being deleted.
* `DRYRUN_MODE`, which leaves out the writes.
* The status of channels and the fields of a claim other than its port: nothing
  reads them back.
* The counts and texts of Kubernetes Events, and Slack alerts: output only.
* Pure parsers (class references, ranges, limits of GKE): the models take what a
  parser accepts, and a spec it refuses is one that is not `valid`.
* Readers of the debug state, the web server and its authentication, `main.py`:
  they change no state of the controller. `PortAllocator`: the daemon does not use it.
* muxdebug and rlpx-verify (diagnostics of a cluster and a network), the chart,
  manifests and tests.

What would come next: the parsers of ranges and limits against reference
definitions; restarts in `HandlerPool`.

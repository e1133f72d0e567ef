# Ceph NVMe-oF gateway: TLA+ models

Models, model-checked properties and machine-checked proofs of the gateway in
`src/control`. One directory, no generated files: `tlc -config X.cfg M` runs a
configuration, `tlapm M.tla` checks the proofs of a module. `PROJECT.json` lists
the components, runs, mutants, theorems and hazards, and maps every definition
that models code to its source lines.

Contents: 1 the system, 2 the modules, 3 the runs, 4 fairness, 5 the proofs,
6 disagreements between code and documentation, 7 what is not modelled, 8 plan.

## 1. The system

A gateway exports RBD images as NVMe namespaces through SPDK. Gateways with the
same pool and group name form a *group*: any of them may be configured, all of
them end up with the same configuration. They never talk to each other; they
meet in one RADOS object, whose OMAP holds the configuration as key/value pairs
with a version number, and in the Ceph monitor, which assigns the ANA groups.

A gateway process has these threads: the gRPC workers (one per request under
way), the periodic thread that calls `update()`, the callback of the OMAP watch,
which calls it too, the rebalance thread, and the keep-alive and log threads of
the server. `rpc_lock` serialises the work on SPDK. A request that changes the
configuration holds `rpc_lock` *and* an exclusive RADOS lock on the OMAP; while
it waits for the RADOS lock it gives `rpc_lock` up, so that the updates that will
bring the gateway up to date can run. **Everything a request has read before it
waits may be outdated when it goes on**: most hazards of this code are of this
kind, and most of the models turn around it.

### Inventory

| component | state it keeps | operations | what is hard | what makes it correct |
|---|---|---|---|---|
| OMAP group state (`state.py`) | OMAP, its version, the RADOS lock; per gateway the local copy and its version, `rpc_lock`, `locked_by` | `lock_omap`, `unlock_omap`, `execute_omap_locking_function`, `_add_key`, `_remove_key`, `get_state`, `update`, the periodic thread | interleaving of workers, updates and other gateways; lock expiry; processes that die with the lock | one linear history; no change lost; local copy = OMAP at the local version; everyone catches up |
| state keys (`state.py:60-255`) | the key names | add and remove keys, dependent keys of a subsystem or namespace | several writes for one removal, prefix matches | no key outlives its owner |
| special cases of `update()` (`state.py:1200-1376, 1436-1645`) | none of their own | turn a changed key into a narrower RPC | failed RPCs, several changes of one key between two polls | SPDK follows the local state |
| subsystem RPCs (`grpc.py`) | `subsys_serial`, `subsys_max_ns` | `create_subsystem`, `delete_subsystem` | checks before the lock, deletion of the namespaces first | a subsystem and its namespaces go together |
| gRPC execution and abort | `rpc_lock` | `execute_grpc_function`, `abort_gateway_if_needed` | `rpc_lock` given up in the middle of a call | checks hold when they are used |
| namespace RPCs, `NamespacesLocalList` | the list, `ana_grp_ns_load`, `ana_grp_subs_load`, SPDK's namespaces and bdevs | add, delete, resize, QoS, visibility, hosts, load balancing group, flags | outdated checks, partial failures, counters | OMAP, SPDK, list, bdevs and counters agree |
| cluster contexts (`cluster.py`) | the allocators' dictionaries, SPDK's RADOS contexts, `bdev_cluster`, `bdev_params` | `get_cluster`, `put_cluster`, `create_bdev`, `delete_bdev` | timeouts and refusals of SPDK | counts cover bdevs; limits kept |
| auto load balancing (`rebalance.py`) | counters, monitor's groups, `rebalance_ana_group` | `rebalance_logic`, `ns_rebalance`, `namespace_change_load_balancing_group` | decisions from outdated counters, several gateways, scaling | ends, and ends even; deleted groups are emptied |
| host access | `SubsystemHostAuth`, keys | `add_host`, `remove_host`, `change_host_key` | any host against secure listeners | only allowed hosts, after updates too |
| listeners and ANA state | `subsystem_listeners`, `ana_grp_state`, stashed listeners | `create_listener`, `delete_listener`, `set_ana_state` | a listener created while the monitor sets states | every listener has the group's state |
| image identification | metadata of the RBD image | set, delete | shared by groups, no common lock | one owner of an image |
| SPDK notifications | none | host timeouts, resizes | delayed events | size in the list = size in SPDK |
| listing RPCs, subsystems cache | cached answer of SPDK | `list_*`, `get_subsystems` | answers up to 5 s old | no decision on an old answer |
| gateway server (`server.py`) | subprocesses | start, `keep_alive`, exit, SIGCHLD | one process ends before another | all or none run |
| discovery (`discovery.py`) | connections, log page generation | NVMe discovery commands, asynchronous events | change during a log page read | a host learns of every change |
| monitor, SPDK, Ceph utilities | external | | | modelled from the calls made to them |
| CLI, Prometheus, configuration, protocol files | none | | | not modelled |

`PROJECT.json` lists the same components with their sources and, under
"hazards", what can go wrong in each, at its line, with the properties that would
catch it or the reason that none does yet.

## 2. The modules

    GroupState            what the OMAP and update() promise (abstract)
      ^ implemented by
    OmapGroup             locks, versions, workers and update(), step by step
      OmapGroupInv          its inductive invariants
        OmapGroupProofs       theorems
        MCOmapGroup           instances for TLC
    Namespaces            namespace RPCs on top of what OmapGroup establishes
      NamespacesProofs      theorems
      MCNamespaces          instances
    BdevClusters          bdevs and RADOS contexts of one gateway
      BdevClustersProofs    theorems
    NamespaceEntries      what is kept of each namespace: group, visibility, QoS, hosts
      NamespaceEntriesProofs theorems
      MCNamespaceEntries    instances
    Access                hosts of a subsystem and their keys
      AccessProofs          theorems
      MCAccess              instances
    Listeners             listeners, ANA states, secure against open
      ListenersProofs       theorems
      MCListeners           instances
    Rebalance             automatic load balancing of a group
      RebalanceProofs       theorems
      MCRebalance           instances
    Discovery             discovery service: connections, log page, events
      DiscoveryProofs       theorems
      MCDiscovery           instances

The detailed modules are layered by argument rather than by INSTANCE. `OmapGroup`
has every step of the lock protocol. What it shows (`CheckedStateHolds`,
`LocalIsOfItsVersion`) is that between a successful `verify_versions` and the end
of the write nothing under the gateway changes; so in `Namespaces`,
`NamespaceEntries`, `Access`, `Listeners` and `Rebalance` whatever a function does
while it holds both locks is *one* step, taken by a gateway that is not behind the
OMAP, and only what happens before and between is interleaved. The keys a function
writes under the lock count as one new version. A gateway process that dies in the
middle of a locked function is a step of its own where something can come of it
(`CrashInDelete`). `BdevClusters` models what is inside `create_bdev` and
`delete_bdev`, which `Namespaces` treats as one outcome.

### OmapGroup and GroupState

`omap`, `omapVersion`, `excl`, `shared`: the RADOS object and its lock. `hist`: a
history variable, the content at each version. `local`, `version`, `spdk`,
`rpcLock`, `readMark` (the shared entry in `OmapLock.locked_by`): a gateway. `upc`,
`uby`, `snap`, `todo`: its `update()`, one at a time, and who waits for it. `pc`,
`op`, `tries`, `rounds`: a worker thread inside `execute_grpc_function` →
`create_subsystem_safe` / `delete_subsystem_safe`. A key of the OMAP is a
subsystem; its value is the serial number of the request that wrote it.

Worth knowing when reading it:

- A worker gives up `rpc_lock` for the sleep between two attempts at the RADOS
  lock; attempts made while an update is active are not counted (`LockBusy`).
- After EAGAIN the worker runs `update()` itself (`reload`) and calls the function
  again, `Reloads` times; then it fails.
- RPCs that `update()` makes are atomic under `rpc_lock`. Reading the local version
  and the local state are one step (`UpdCompare`): no other thread writes between,
  which `UpdateInv` states.
- The notification of the OMAP watch is not a separate action: the periodic
  update may start at any time.
- Deletion of a missing key raises KeyError after the version was written; the
  model does the same.
- The ten tries of `update()` at the shared lock are a nondeterministic give-up. The
  assertion on the lock duration is subsumed by lock expiry. Serving begins before
  the first update, as in the code. An abort ends with a new process, one step.
- `LockOnRead` and `LockMayExpire` are parameters: the first is the option
  `omap_file_lock_on_read`, the second says whether an operation may outlive
  `omap_file_lock_duration`.

`GroupState` is what a reader of the documentation expects: one history, extended
by one change at a time by a gateway that has seen all of it; gateways only go
forward, unless restarted. The refinement mapping `Seen`/`Copy` lets a write take
effect with the OMAP operation, also for the writer, whose version and local state
follow in two later steps.

### Namespaces

One subsystem, its namespaces, any number of gateways and requests under way.
`exists`, `omap`, `version` are the OMAP; `local[g]` is the gateway's local state with
its version. `gw[g]` is one gateway: `sub` (`subsys_serial`, and SPDK's subsystem),
`spdk` (SPDK's namespaces), `list` (`subsystem_nsid_bdev_and_uuid`), `bdevs`, `load`
(the sum of `ana_grp_ns_load`). A UUID stands for its image and its bdev. `update[g]` is
what is left to do of an `update()`. `req[c]` is a request: before the lock
(`Check`), waiting, and called again after EAGAIN (`Retry`).
`AddNamespace`, `DeleteNamespace` and `DeleteSubsystem` are what the three functions do
with both locks held, with each of their failure paths.

A gateway that is behind when it gets the lock calls the function again, so it
checks again. A gateway that *was* behind and caught up while the request waited
goes on with the old checks. The history variable `troubles[g]` notes, for one
process, that this has happened (`stale`), that an SPDK call or OMAP write failed
(`fault`), or that an update left out keys because of changed ones (`hidden`, see
finding 1). The main property, `GatewaysAgreeAtRest`, says what a gateway without
trouble guarantees, and so that trouble never spreads to another gateway and that
a restart ends it. The weaker statement of the test suite, that any two gateways
are identical after an update, is finding 5.

Failure paths that are easily overlooked and are modelled as they are in the code:
when SPDK refuses an added namespace the handler drops the list entry of the
*requested* ID, or the whole list if the choice was left to SPDK; an add made by
`update()` does not look into the list first, as a request does (`grpc.py:2197`),
so that there only SPDK refuses an ID in use; when the OMAP write
of an add fails only the bdev is undone, and SPDK removes the namespace with it,
while list and counters stay; a removal whose list entry is missing decrements the
counter of group 0 and then raises; the result of `remove_namespace_from_state` is
ignored; the keys of a subsystem go even if SPDK refuses to delete it.

### NamespaceEntries

What hangs on a namespace besides its image. `omap[i]` holds the three kinds of keys of
namespace `i`: its entry, its QoS key and its host keys. `gw[g]` is a gateway: `list`
(`NamespaceInfo`), `spdk`, `bdev` (the limits SPDK has for a bdev) and `load`
(`ana_grp_ns_load`, group by group). Each add brings an image of its own, whose number
is also the identity of the list entry that a request finds before it waits; an
entry set after the wait is the one found (`SetFound`), which may have left the list.

- `Plan` is what `update()` makes of two states: a namespace whose entry changed in
  group, visibility and trash flag only gets a call for each; anything else deletes
  it and adds it again. `Kinds` is the order of the calls (`prefix_list`, then the
  special cases); each call is a step, other requests run between them.
- `LeavesOut` says, of two states, which differences `update()` does not bring over:
  limits and hosts of a namespace added again, changed keys that displace the others
  of their prefix, hosts of a namespace that is hidden in the same update.
- An add that fails (`AddLeaves`) leaves nothing, takes the ID off the list when SPDK
  refused the namespace, or, when the OMAP write failed, takes the bdev back: SPDK drops the
  namespace with it, while the list entry and its counter stay (`grpc.py:2327-2337`).
  So a list entry need not be served after a fault. `ListIsServed` says what does hold then: SPDK
  has no *other* image under an ID than the list and a bdev for what it serves; only
  at an untroubled gateway list and SPDK have the same namespaces.
- A deletion asks the list for the namespace and its trash flag before it waits for the
  lock and goes by them afterwards (`grpc.py:3549`). `DeletionTrashesAsStored` therefore
  speaks of a deletion that still finds the image it had found: if four requests meet, the
  namespace may have been deleted and its ID be another's by then, and the deletion
  trashes the first image by a flag that the OMAP no longer has.
- `drift` notes that keys of the OMAP themselves no longer say what SPDK has (a
  QoS limit lost because the QoS key is written from before the wait, hosts that stay
  when a namespace becomes visible with force). Then nobody can follow them.

### Access

One subsystem, its key, its hosts with PSK and DH-HMAC-CHAP key, and `Star` for any host.
`gw[g]` is SPDK with `SubsystemHostAuth`; `ctrl` is the controller's key that SPDK has for
a host: the subsystem's key at the time of the call. `ChangeSubsystemKey` is the locked
part of `change_subsystem_key`, `ChangeKeyOfHost` each call of `change_host_key` it
makes afterwards with the copy of the keys it took under the lock (`todo`): a call may be
refused, fail before SPDK has the key, or fail to write after SPDK has it, and the loop goes
on to the next host. The history variable `troubled[g]` has the meaning `troubles` has in
`Namespaces`.

That a keyed subsystem has no host without a key, and that the hosts are limited, is checked
before the wait for the lock and can be untrue after it: two requests that wait at once can
break both. The properties do not look away from that. `KeyedSubsystems` and
`HostsAreLimited` are properties of steps, which say what a step that breaks the rule must be: a
request that goes on although its own check would fail by then (`Outdated`), or at a
gateway that has gone wrong before (`Overtaken`). Everything else, in particular
a request whose check still holds at its gateway, whatever others have written before,
keeps the rules.

### Listeners

`gw[g].list` is `subsystem_listeners` (`active` is FALSE for a listener stashed for a host
that this is not), `spdk` the ANA state of each listener and group, `ana` the `ana_map`,
which outlives listeners and subsystems. `SetAnaState` comes from the monitor at any
time; its failure leaves some listeners in their old state. A new listener takes its states
from the map for the groups up to the subsystem's `max_namespaces` only (`LowGroups`,
`grpc.py:5065`), while `set_ana_state` sets all. `create_listener` builds
its OMAP key with the brackets of an IPv6 address and `delete_listener` without;
`Ipv6` says for which addresses that matters.

`delete_listener` takes the *first* entry it finds for the address, those without a secure
channel and those stashed coming first (`Before`, `FindsActive`), and asks SPDK to stop
listening only if that one is active; then it drops every entry of the address and the
OMAP key (`Removed`). A listener that was stashed for another host beside the active one
thus makes it leave SPDK's listener behind, unlisted (finding 2). The history variable
`missed` has these listeners and those that an ANA call failed for. What holds for all
others, whatever has failed, is that SPDK and the list agree (`ListIsServed`) and that they have
the monitor's states (`AnaFollowsTheMonitor`); `ListenersFollowAtRest` compares SPDK itself, with
its secure channels, with the OMAP. `SecureIsClosed` is a property of steps like those of
Access: a subsystem becomes open to any host *and* secure only by a `create_listener` or
`add_host` whose check, made before the wait, would fail by then, or by opening a
subsystem whose secure listener was left behind in this way.

### Discovery

`conn[f]` is an entry of `conn_vals`, under its file descriptor, with the generation
number that tells a reused descriptor apart. The main loop handles one command of one
connection in a step, under the lock; `timer` (`handle_timeout`) and `update` (the
update callback with `_send_async_event`) are threads that look at the table in one
step and act on what they have seen in a later one. Both end (`Dead`) with the KeyError
of a connection that is gone; `Exit` is an exception that ends the main loop. `host[h]` is
what a host knows. `seen` is a history: which lists a host could have been shown since
its last whole page. A log page is counted in blocks of 1024 bytes: one for the header
and one for each record. `HeaderBlocks` chooses how much of it the host asks for first.

### BdevClusters

Each RPC holds `rpc_lock` from beginning to end, so each is one step. `usage` is the
allocator's dictionary, `registered` SPDK's contexts, `spdkBdev` the context SPDK has
a bdev on, `bdevCluster` and `bdevParams` the gateway's tables. The strategy
(`anagrp`, `flat`, `pool`) is chosen in the initial state. Faults: a call that times
out after or before it took effect, an answer without a bdev name, a refused
deletion, a context that cannot be unregistered.

### Rebalance

Gateway g owns load balancing group g. `omap` is the group in each namespace's OMAP
entry, `view[g]` the gateway's local copy, `fresh` the
gateways that are up to date. `Decide` is the three strategies of `rebalance_logic`
and their order; `Move` is `namespace_change_load_balancing_group_safe` after the
lock; `Retry` is EAGAIN. The monitor (`Rotate`, `ScaleDown`, `Purge`, `ScaleUp`) is
external and does what `cephutils.py` reads from it. One user request is in flight: an
add, a deletion or a change of group (`ServeAdd`, `ServeDelete`, `ServeChange`).

- A command to the monitor that fails gives an empty list of gateways
  (`cephutils.py:112-116`); `Answers` is both possibilities, chosen anew by each
  query. With an empty list every optimized group looks like a deleted gateway's and the least
  loaded group is 0; the move there is refused by the query that
  `namespace_change_load_balancing_group_safe` makes itself, unless that one succeeds
  and the group exists.
- That function sets the group of the list entry it found *before* the lock
  (`grpc.py:2389`, `2463`). `renewed` notes when the list has another entry for the
  namespace by then; setting the old one leaves the new one in its group and the load counters
  wrong (`drifted`). What such a gateway decides is arbitrary (`AnyMoves`), and
  `EvenAtRest` and `DecisionsNarrow` speak of the others.
- Left out: the pacing by wall clock and the monitor's answers kept for ten seconds, which
  delay a decision, and failing SPDK calls.

## 3. The runs

| run | instance | distinct states | shows |
|---|---|---|---|
| group_core | 2 gateways, 3 workers (2 + 1), 1 subsystem, 3 requests, 1 lock retry | 2,182,782 | local state, version, SPDK and OMAP in every interleaving |
| group_live | 2 gateways, 2 workers, 2 requests, 1 crash, 1 reload, fair | 177,999 | refinement of `GroupState`; every gateway catches up |
| group_expiry | 2 workers, 2 requests, locks expire at any step | 1,037,287 | what survives an expired lock |
| group_changed_keys | 1 worker, 2 subsystems, 4 requests | violation | finding 1 |
| namespaces | 2 gateways, 2 clients, 2 IDs, 2 UUIDs, 4 requests, 1 fault, 1 crash | 2,193,649 | OMAP, SPDK, list, bdevs, counters |
| namespace_entries | 2 gateways, 2 clients, IDs 1 and 10, 2 groups, 2 limits, 1 host, 2 requests, 1 fault, 1 crash | 438,817 | entries, limits, hosts and counters follow the OMAP; deletion key by key |
| access | 2 gateways, 2 clients, 3 hosts, 2 keys, at most 2 hosts allowed, 2 requests, 1 fault, 1 crash | 385,362 | hosts and keys follow the OMAP; how limits and key rules can be broken, and how not |
| listeners | 2 gateways, 2 clients, 1 address of each, 2 ANA groups of which one is beyond `max_namespaces`, 2 requests, 1 ANA state, 1 fault or crash | 1,242,101 | SPDK follows the OMAP and the list, ANA states the monitor; how secure and open can meet |
| listeners_deleted | the same with 1 group, no fault or crash | violation | finding 2 |
| discovery | 1 host, 1 file descriptor used twice, 1 subsystem with 2 listeners, 2 changes, 1 fault, fair | 303,037 | pages, events, time-outs |
| clusters | 3 bdevs, 2 ANA groups, limit 2, 3 faults, 3 strategies | 612,843 | no assertion fails, limits are kept |
| rebalance | 3 groups, 4 namespaces of 2 subsystems, in two of the groups or yet to be added, 1 request, 1 scaling, any answer of the monitor, fair | 18,831 | decisions narrow; even at rest; moves end; deleted groups are emptied |

Why the bounds are enough for the cases that matter:

- *OmapGroup.* Three requests are needed for a key to change between two polls
  (create, delete, create again); two workers on one gateway are needed for a
  request that waits for the lock while another one of the same process and its
  update work; a third worker is the other gateway. A crash with the lock held
  needs one crash. More subsystems matter only for the grouping of keys by
  prefix, which group_changed_keys has.
- *Namespaces.* Four requests fill both IDs, delete one and add it again while
  another request waits; two clients are the outdated check; one fault and one
  restart are each combined with all of these. Gateways, clients and UUIDs that
  are alike are interchangeable: `NsSymmetry` permutes them, and no definition
  orders or chooses among them; the run has no liveness property.
- *NamespaceEntries, Access, Listeners.* Every hazard of these is one request that
  overtakes another, or an update that meets one or two changes: two requests, at the
  same gateway or at different ones, in any order with the updates of both. What the
  requests need to find is in the initial states (`SomeStarts`), so that no request is
  spent on preparing it. IDs 1 and 10 have keys of which one is a prefix of the other. A limit of
  two hosts is reached by the second request. Two ANA groups, one within `max_namespaces` and
  one beyond, are the two cases of a new listener's states. The counters go wrong with one crash
  or failure at most before the gateway is excused, so one of each is enough to see
  that it is excused rightly, and that the other gateway is not affected. In
  `Listeners` they share one bound (`MaxMishaps`): a crash also ends what a failure has left.
- *Discovery.* One host that connects twice with one descriptor gives the reuse that the
  two other threads do not notice; two listeners make a page of three blocks, read in
  two parts with two changes before, between and after them. A second host does
  not fit the time of a run; what it adds, who of several waiting hosts is told, is in
  section 6 and violates none of the properties.
- *BdevClusters.* Three bdevs against a limit of two make a second context; three
  faults let one failure build on another's leftovers.
- *Rebalance.* Three groups are the most for which the three strategies leave an
  even distribution; with four groups and 4, 1, 1, 1 namespaces no strategy applies.
  `EvenAtRest` therefore asks for at most three created groups, and says so. Four namespaces
  leave two of a subsystem in one group when one is added or a gateway goes, which is
  where a regular move is due. RebalanceCore starts with all namespaces in one group, which
  makes more moves overlap; RebalanceDrift has the two requests it takes to renew an
  entry while a move waits.

Each definition marked "a mutation" is a plausible bug in one mapped definition,
used by the mutants of `PROJECT.json`: each property has one that violates it.

The configurations that no run uses are larger claims about the same instances, kept
because they answer questions a reader will ask; `tlc -config X.cfg M` runs them:

| configuration | module | shows |
|---|---|---|
| OmapGroupLockless | MCOmapGroup | `NoLostUpdate` and `EveryGatewayCatchesUp` without locks on reads |
| OmapGroupProved | MCOmapGroup | `GroupInv`, `RequestInv`, `SpdkInv` and `SeenInv`, the inductive invariants, and `VersionNeverBack` |
| BdevClustersCounts | BdevClusters | `CountsAreCovered`, `CountsAreExact`, `BdevClusterIsCurrent`, `NextContextIsAvailable`, `FewestBdevsFirst` |
| NamespacesAdds | MCNamespaces | `AddNeverReplaces` |
| NamespaceEntriesSetters | MCNamespaceEntries | `SettersKeepTheRest` |
| ListenersAna | MCListeners | `AnaFollowsTheMonitor`, `ListIsServed` with two ANA states from the monitor (1,504,849 states) |
| RebalanceCore | MCRebalance | the invariants and `DecisionsNarrow` from everything in one group (185,768 states) |
| RebalanceDrift | MCRebalance | the same with 2 groups and 2 requests, where lists drift (75,219 states) |

The others end in a violation and belong to section 6.

Deadlock is checked in group_core and group_live. It is off where the
program really may stop: in `Namespaces`, `NamespaceEntries`, `Access` and `Listeners` when
the requests are used up and nothing is left to update; in `Discovery` when all hosts
are gone; in `Rebalance` when one gateway is left and has nothing to move; in
group_expiry when an expired shared lock has ended the polling thread of every gateway
and no request is left; and in `BdevClusters` because after a failed unregister the pool
allocator insists for ever on registering the same context (nothing in the sources says
this must be survived).

What does *not* hold, and is therefore not claimed: under expiring locks
`SpdkFollowsLocal`, `LocalIsOfItsVersion` and `VersionNeverBack` fail; without the
shared lock on reads the same three and `ReturnedRequestIsInEffect` fail (the
configuration warns about it, `state.py:343-347`). `NamespacesLeaveDeletedGroups`
excuses a gateway whose `ana_grp_subs_load` never gets an entry for one of the groups: if it
is the least loaded one, `rebalance.py:214` refuses to resolve the deadlock, and the
namespaces stay.

## 4. Fairness

`FairSpec` of `OmapGroup`: weak fairness of each worker and each update, since
threads are scheduled and their waits are timed; strong fairness of the RPCs of
`update()`, because they need `rpc_lock`, which waiting workers hold and give up for
whole seconds again and again (`lock_omap` sleeps outside it); weak fairness of the
expiry of a dead process's lock, which RADOS guarantees. Nothing is assumed of
clients, nor that a worker gets the RADOS lock: it may exhaust its retries.

`FairRebalanceSpec`: weak fairness of updates, of the monitor's forgetting a deleted
gateway and of the rotation of the rebalancing gateway; strong fairness of
deciding, moving and serving a request, which are disabled whenever the gateway is
behind and enabled again by its updates. Deciding is fair only with a monitor that answers
both commands (`DecideWith(g, created, created)`): failures may go on for ever, but not
every time, since the monitor is part of a cluster that is meant to be up.

`FairDiscoverySpec`: weak fairness of the passing of a connection's keep-alive time, of the
main loop's handling of a closed connection and of the timer thread, each of which
runs in an endless loop with short waits. Hosts owe nothing: they may stay silent.

## 5. The proofs

All theorems hold for every value of the constants that the named assumptions of
the modules allow; the bounds on requests, faults and crashes are arbitrary
natural numbers there. The assumptions are of three kinds: `None` is no member of the
sets it is added to; sets that are counted are finite; and the initial states are ones that
the requests themselves can bring about (`AccessStarts`, `ListenerStarts`: nothing is left
of a subsystem that is not there, no host without a key next to a subsystem's key, no
secure listener next to open access; `EntryStarts`: the namespace there is has hosts only
if it is not visible to all; and no more hosts than the limit). That excludes a gateway
that is started with a lower limit of hosts than the OMAP already uses.

**OmapGroupProofs.** `TypeCorrect` needs no assumption on locks. The others assume
`LockOnRead` and `~LockMayExpire` (without them `LocalIsOfItsVersion` does not hold,
see section 3). The invariant (`OmapGroupInv`) is: one writer or some readers hold the
lock (`LockInv`); the history ends with the OMAP and every version is inside it; a worker
past `verify_versions` is at the newest version and, between the two local writes,
knows what it has written (`WorkerInv`); what an update has read is a version of the
history, newer than the local one when it is applied, and no worker of that
gateway is between its version and its state then (`UpdateInv`); otherwise the local
state is the history at the local version (`LocalInv`). `LocalInv` alone is not
inductive: the two assignments at the end of a write, and the two at the end of an
update, break it for a step, and only `LockInv` with `UpdateInv` keeps those two windows
apart. `CallerInv` keeps a worker that waits for `update()` out of the way.

- `NoUpdateIsLost` and `VersionsNeverGoBack` follow from `GroupInv` and
  `WhoChangesLocal`: whatever could change the local state or the version of a gateway
  would need the lock, or an update to something newer than the newest version.
  `CheckedStateStaysTrue` is the fact that lets the other modules take a locked
  function as one step.
- `ReturnedRequestsAreInEffect` needs `RequestInv`: a worker holds `rpc_lock` from its first
  attempt at the lock until it returns, so what it did to SPDK before the write is
  there when it has written.
- `GroupStateIsImplemented` is the refinement of `GroupState`. `SeenInv` says where the
  mapping puts a gateway: at the OMAP's version while it writes, at what its update has
  read once that has replaced the local state, otherwise at its version; and that the copy
  is the history there. Each step is then a publication (the write to the OMAP), a
  catching up (the first assignment of an update), a restart or a stutter.
- `SpdkStaysLocal` has one more hypothesis, that there is one subsystem: with two,
  changed keys displace the others of their prefix and SPDK does *not* follow
  (finding 1). `SpdkInv` says of an update under way that what it has still to delete is as
  in the local state, what it has still to add is absent, and the rest is as read.

**NamespacesProofs.** `NsInvariant` is the conjunction of four parts, each proved
from those before it:

1. `TypeInv`: types; each counter covers what SPDK serves (without this `load` is
   not known to stay natural, since failed removals decrement it as well); what an update is to add
   is in the state it read. Gives `NsTypeCorrect`, `LoadStaysCovered`.
2. `OrderInv`: a local state of the OMAP's version *is* the OMAP, an update leads
   to a newer version, a deleted subsystem does not come back, and no image is twice in the
   OMAP or in a state under way. Gives `UuidsStayUnique`: a gateway that gets the lock without
   being behind looks the image up in the OMAP itself.
3. `SubsystemPart`: a gateway without a fault has the subsystem exactly if its local
   state and its update say so. Gives `NamespacesHaveASubsystem`.
4. `ServeInv`: at a gateway without trouble SPDK, list, bdevs and counter fit each
   other (`Fits`), what an update has left to drop and to add leads to the state it
   read (`LeadsThere`), and without an update SPDK serves the local state. This is the
   part that says why the order of `update()` (removals, then additions) is
   right, and why an untroubled add cannot fail: the free ID exists because the
   list is SPDK's (`AddMeans`; the least ID by `LeastId`, a well-foundedness argument). Gives
   `GatewaysServeTheOmap` and `AddsNeverReplace`.

**NamespaceEntriesProofs.** Two invariants, the second on top of the first.

1. `BaseInv` holds at every gateway, whatever has failed: types, versions, what an update
   may still do (`PlannedInv`), what a request has found, that the list is served, and that
   every image is at one ID only (`OwnInv`), where "at" means in the OMAP, in a copy, in a
   plan, in a list, in SPDK or in what a request has found. The last is what makes the rest
   go: SPDK removes namespaces by their bdev, so a removal would reach a namespace
   at another ID if an image could be at two. It is kept because an image
   comes with one add only, and everything else moves it between readers. Gives `EntryTypeCorrect`,
   `ImagesKeepTheirID`, the first half of `TheListIsServed` (no other image under an ID,
   also after faults) and, with the lock held, `SettersKeep`.
2. `EntryInv` adds what holds at a gateway without trouble. `Now` is what such a
   gateway has: its local state or, while `update()` is under way, `KeysNow`: a
   state between the one it had and the one it brings, made of the calls that are left.
   `FollowInv` says that list, SPDK, bdevs and counters are those of `Now`.
   `WholeInv` says that the plan leaves nothing out as far as it is still to be done, and
   that its sets empty in the order of `Kinds`; without it an update would end somewhere
   else than at what it read. `DriftInv` says that as long as `drift` is empty no key
   has hosts or limits without its namespace, here, in the copies and in the plans, and
   that limits only grow from an older of these to a newer. Each call of `update()` is shown to
   take the gateway from `KeysNow` before it to `KeysNow` after it, and each request
   from the OMAP to what it writes. Gives `EntriesFollow`, `DeletionTrashes`,
   `NoKeysAreOrphaned` and the second half of `TheListIsServed` (list and SPDK have
   the same namespaces where nothing went wrong, also in the middle of an update).

**AccessProofs.** `SaneInv` has the types, that an update adds only what it has read, that
only a change of the subsystem's key has hosts left to do, and the versions. `KeptInv` has
for each gateway without trouble that it is what its local state says (`Follows`) or on its
way to what its update has read (`LeadsTo`, call by call), whatever outdated checks other
gateways have written. The hosts still to get the subsystem's new key
(`Pending`) are the exception for the controller's keys; it ends with the request. Gives
`AccessFollows` and `RemovalsLast`. `SubsystemsAreKeyed` and `HostLimitIsKept` are about
steps: `Checked` is what a request can write whose check still holds against its gateway's
table, `CheckedWrite` that it writes nothing else, and `NotOvertaken` that this table is, by
`KeptInv`, that of the OMAP it writes to. `CheckedKeys` and `CheckedCount` then show that such a
write neither makes a keyless host next to a key nor exceeds the limit of hosts: the
only steps that do are those of a request that was overtaken.

**ListenersProofs.** `SaneInv` holds at every gateway, whatever has failed: an active entry of
the list is in SPDK as it is listed, and SPDK's listeners are listed and have been told what
the monitor said, except those in `missed`. Each call keeps it, also where
it stops half-way. Gives `AnaIsAsTold` and `ListenersAreListed`, neither of which excuses
a gateway. `SecureStaysClosed` is about steps, `CalmEffects` says which of a call's effects cannot make a
subsystem open and secure; for the calls of `update()` and for checks that
still hold it follows from the list being SPDK's. `FollowInv` is the same shape as in
Access (with `outdated`, since a listener written past a check is refused by the others'
`update()`) and gives `ListenersFollow`, of SPDK's listeners.

**DiscoveryProofs.** `ServiceInv`: what a host knows fits the connection it has
(`HostAt`), no two hosts have one descriptor, and generation numbers tell the
connection that the update thread looked at from a later one. Gives
`DiscoveryTypeCorrect` and `EventsAnswerCommands`. `PagesWereAllowed` and
`SmallHeadersGetWholeReplies` assume `HeaderBlocks = 0`, hosts that ask for
the first 16 bytes of the header before the page: for others they are false (section 6).

**BdevClustersProofs.** `CountInv` (types, a finite dictionary, counts that cover
the bdevs that will put them back) is inductive under all faults and gives
`ClusterTypeCorrect`, `CountsStayCovered`, `NoPutAsserts`; `LimitInv` adds what holds
until SPDK refuses a deletion and gives `LimitStaysKept` and
`BdevClusterStaysCurrent`. `ExactInv` holds until anything fails: a context is counted once
for each of its bdevs and is registered as long as it is counted. It gives
`CountsStayExact`, `FewestComeFirst` (the counts the pool compares are the numbers of
bdevs) and `NextContextStaysAvailable`: there is a context to take, in the pool the least
used one, otherwise one with room or a new one, whose number exists by the pigeonhole
principle on the numbers in use.

**RebalanceProofs.** `DecisionsAlwaysNarrow`, from `FreshInv` (the list of an
up-to-date gateway is the OMAP) and the lemma `FittingMoveNarrows` on the three
conditions `le_target`, `load_less` and `load_eq`, for any answer of the monitor.
`RebalanceTypeCorrect` needs a gateway the monitor may choose, and that the query before the lock
stops every move to what is no group: with no list the least loaded group is 0.
`RebalancingEndsEven` adds `OptimizedInv` (each group is optimized somewhere, so someone
may move out of it) and `UnevenMoves`: with two or three groups of which one has two
namespaces of a subsystem more than another, one of the three conditions allows a
move; for four it does not (section 3).

**Only model-checked.** Liveness (`EveryGatewayCatchesUp`, `MovesEnd`,
`NamespacesLeaveDeletedGroups`, `LostIsClosed`): fairness and ENABLED are out of the
prover's reach. Within reach but not proved: what group_expiry checks, with locks
that expire, and `SpdkFollowsLocal` for several subsystems.


## 6. Where the code disagrees with what is said of it

The first two are the counterexamples of runs and quoted in `PROJECT.json`; the others are
the counterexamples of the configurations named, each of which asks for one property
that a comment, a message or a test states.

1. **group_changed_keys** (`state.py:1652`). `update()` collects removed, added and
   changed keys by prefix and merges the changed ones with `dict.update()`, which
   replaces the whole group of the prefix. If one subsystem was re-created and
   another one created between two polls, the second never reaches the other
   gateway's SPDK, although its key is then in the local state.
2. **listeners_deleted** (`grpc.py:5243-5274`). "Deletes a listener from a subsystem at a given
   IP/Port" (`grpc.py:5179`). With an entry stashed for another host at the same address (added
   with `verify_host_name` off, `grpc.py:5029-5045`) the search stops at that one, SPDK
   is not called, and both entries and the key go: the request succeeds, SPDK listens on, and
   neither `set_ana_state` nor another deletion reaches the listener.
3. **OmapGroupPolling** (`MCOmapGroup`, `PollingNeverStops`; `state.py:883`). The comment
   says that an unlock error aborts the gateway by default. The shared lock of the
   polling thread is released in `update()`, whose exception ends that thread only:
   the gateway goes on serving, and never polls again.
4. **NamespacesForce** (`MCNamespaces`, `OnlyForceDeletesNamespaces`; `grpc.py:1881`).
   Without `--force` the deletion of a subsystem "would fail in case it contains
   namespaces" (`cli.py:1140`). The only check looks into the gateway's own, possibly
   outdated state, before any lock.
5. **NamespacesDiffer** (`MCNamespaces`, `SameStateAfterUpdate`; `grpc.py:2058`). A gateway
   has the group's state after an update, says the test of two gateways
   (`test_multi_gateway.py:71`). An add whose ID was taken while it waited for the
   lock fails in SPDK, and the handler makes the gateway forget the namespace that has
   the ID: a later deletion of it does not reach this gateway.
6. **NsKept** (`MCNamespaceEntries`, `KeptImagesAreKept`; `grpc.py:3606`). The message of
   `namespace_delete` (`grpc.py:3560`) says how to keep the image: reset the trash flag.
   Another gateway's `update()` deletes with the flag of its own list, which has not
   seen a reset made between two polls, and trashes the image.
7. **NsHosts** (`MCNamespaceEntries`, `HostsFollowAtRest`; `state.py:1389` with
   `state.py:1639`). Namespace hosts are added before visibility is changed; a namespace
   hidden and given a host between two polls gets no host at the other gateways,
   since `namespace_add_host` refuses a visible one (`grpc.py:3687`).
8. **AccessCtrl** (`MCAccess`, `OneControllerKey`; `grpc.py:5724`). `change_subsystem_key`
   gives its hosts the new key one by one, each with a lock of its own, and swallows
   the errors. Any change made at another gateway in between makes such a call fail with
   EAGAIN, and its host is authenticated with the old key there from then on.
9. **AccessKept** (`MCAccess`, `HostKeysAreKept`; `grpc.py:5716`). The same loop writes back
   the hosts' own keys as they were when it took its copy: a key changed
   meanwhile is lost.
10. **ListenersIpv6** (`MCListeners`, `DeletedListenersAreGone`; `grpc.py:5306`). `create_listener`
   makes the OMAP key from the address as given, with brackets; `delete_listener` from the
   address without them. The entry stays, and the listener returns at the next start.
11. **ListenersOsdMap** (`MCListeners`, `OptimizedAfterOsdMap`; `grpc.py:5074`). Before it becomes
    optimized, says the comment of `set_ana_state` (`grpc.py:2112`), a group waits for the
    latest OSD map. A listener created after a `set_ana_state` that found none is made
    optimized from the ANA map without waiting.
12. **DiscoveryLeft** (`MCDiscovery`, `LeftIsClosed`; `discovery.py:1063`). A connection that the
    host closed without shutdown is never closed: `recv` returns nothing, again and
    again, and each time `keep_alive_time` is renewed, so the timer never sees it late.
13. **DiscoveryHeader** (`MCDiscovery`, `RepliesAreWhole`; `discovery.py:772`). A host that asks for the
    header in 1024 bytes, as SPDK's initiator does, has made the log page and not used
    it up; after a change its next reads are answered from the old page and may get
    fewer bytes than "numd indicate[s]".
14. **DiscoveryLate** (`MCDiscovery`, `OnlyLateIsClosed`; `discovery.py:1030`). The timer takes the lock
    "to prevent another thread from processing sudden requests", but decided before: a
    connection heard of in between, or another host's with the same descriptor, is closed.

Smaller ones, seen while modelling and visible in the definitions: one event goes out per
call, to the first connection that waits (`discovery.py:1020`), so that other hosts, and all
hosts if the first has died, learn nothing; `genctr` never changes, so that a host cannot notice a
change within a read; only the last of several outstanding event requests is kept, though
four are offered; a `KeyError` ends the timer or the update thread for good; an uncaught
exception ends the main loop while the timer keeps the process alive. A listener of another
host that is stashed blocks an own one at the same address, and `update()` never
removes it; `delete_listener --force` with another host's name removes this gateway's
listener of that address as well. "Any host" and a secure listener that wait for the lock at
the same time both enter the OMAP (ListenersRace, `NeverOpenAndSecure`, against
`grpc.py`'s "only allowed for subsystems in which \"allow any host\" is off"). A namespace whose add
`update()` makes and SPDK refuses has its RBD image deleted if it has the trash flag, as if a
client had just created it (`grpc.py:2306-2310`). Resolving a deadlock is refused for as long as the least
loaded group never had an entry in `ana_grp_subs_load` (`rebalance.py:214`).

## 7. What is not modelled, and why

Within the modelled parts:

- `OmapGroup`: key prefixes other than subsystems and the removal of several keys.
- `Namespaces`: the re-creation of a deleted subsystem, image metadata, the ANA group
  of a namespace (the counter is the sum), `namespace_add --force`, answers of SPDK that
  are false without an exception, failures inside `delete_bdev` (in `BdevClusters`), and
  the listing RPC that drops a list (`grpc.py:3058`); several versioned writes of
  one RPC are one version.
- `NamespaceEntries`: resize and auto-resize, image identification, the existence and the
  owner of a load balancing group, whether a host may use the subsystem, SPDK's own
  list of hosts per namespace. A process that dies between writes is modelled for the
  deletion only, the function that makes the most of them.
- `Access`: validation and encryption of keys and their files, `force_tls`, keep-alive
  alerts, the limit of hosts over all subsystems, a process that dies inside
  `remove_subsystem` (`state.py:195`).
- `Listeners`: `verify_host_name` beyond its effect on stashing, address families other than
  by their keys, transport options, more than one subsystem.
- `Rebalance`: time (the pacing, the list of gateways kept for ten seconds), SPDK calls that fail,
  more than one user request at once. An add for which the monitor gives no list fails
  an assertion; the gateway's abort is modelled as the end of the request only.
- `Discovery`: commands that arrive in pieces, the layout of replies, the wrap of
  `sq_head_ptr`, a host that gives up a read and starts another on the same connection,
  the error replies that close a connection (a host that leaves).

Components with no module:

- *Image identification*: its hazard is two groups that meet only in the metadata of an
  image, which needs a model of two OMAPs; planned.
- *SPDK notifications*, *listing RPCs and the subsystems cache*: planned, section 8.
- *Processes of the server*: a gateway ends in one step in all modules; planned.
- Not planned: the command line client, the Prometheus exporter, configuration,
  logging, validation of names and key encryption (pure functions over text, or
  read-only I/O); the protocol files (their fields appear as data); SPDK, RADOS and the
  monitor themselves (external: modelled from the calls made to them).

## 8. Plan

Done, in this order: the group state with its abstract specification and invariant;
bdevs and contexts; rebalancing; namespaces; the entries of namespaces with the special
cases of `update()` and the removal of keys; host access; listeners; discovery. The
order was by what everything else rests on: each later component uses "a gateway with
the lock is at the newest version", which the first establishes.

Proofs next, most useful first:

1. `NoLostUpdate`, `CheckedStateHolds` and `ReturnedRequestIsInEffect` under expiring
   locks (`LockMayExpire`), where only the version comparison of the write is left;
   group_expiry checks them.
2. `SpdkFollowsLocal` for several subsystems, which needs as hypothesis that no update
   finds changed keys next to others of their prefix; it is proved for one.
3. That `NamespaceEntries` and `Namespaces` agree where they overlap: a mapping of the
   entries of one to the images of the other.

Models next: `GatewayServer` (the order in which processes end, the abort, the time
`keep_alive` is given), `ImageIdentification` (two groups, one image), the subsystems cache
against the RPCs that invalidate it, notifications of resizes against `namespace_resize`.

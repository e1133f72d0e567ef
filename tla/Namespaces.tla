------------------------------ MODULE Namespaces ------------------------------
(***************************************************************************)
(* The namespaces of one subsystem in a group of gateways: namespace_add,  *)
(* namespace_delete, delete_subsystem (control/grpc.py) and the same       *)
(* functions called by update() (control/state.py, control/server.py).     *)
(*                                                                         *)
(* Each function checks first, then waits for the OMAP lock, and rpc_lock  *)
(* is free while it waits; what it does with both locks held is one step.  *)
(* A gateway that is behind the OMAP when it gets the lock calls the whole *)
(* function again, one that caught up meanwhile goes on with what it has   *)
(* checked before.  OmapGroup models the locks and versions themselves.    *)
(***************************************************************************)
EXTENDS Integers, FiniteSets

CONSTANTS
    Gateways,
    Clients,      \* gRPC calls under way at the same time
    Ids,          \* namespace IDs, 1 to the subsystem's max_namespaces
    Uuids,        \* each stands for a UUID, its image and its bdev
    MaxRequests,  \* bound: requests
    MaxFaults,    \* bound: SPDK calls and OMAP writes that fail
    MaxCrashes,   \* bound: gateway processes that end
    None

ASSUME IdAssumption == Ids \subseteq Nat \ {0} /\ IsFiniteSet(Ids) /\ Ids # {}
ASSUME NsBounds == MaxRequests \in Nat /\ MaxFaults \in Nat /\ MaxCrashes \in Nat

VARIABLES
    exists,     \* the OMAP has the subsystem's key
    omap,       \* the namespace keys of the OMAP
    version,    \* the OMAP's version
    local,      \* each gateway's local state and its version
    gw,         \* each gateway's SPDK and the tables it keeps for it
    update,     \* what is left to do of a gateway's update()
    req,        \* each client's request
    requests, faults, crashes,
    troubles    \* history: what each process went through, see GatewaysAgreeAtRest

omapVars == <<exists, omap, version>>
budgetVars == <<requests, faults, crashes>>
nsVars == <<omapVars, local, gw, update, req, budgetVars, troubles>>

Table == [Ids -> Uuids \cup {None}]
EmptyTable == [i \in Ids |-> None]
Used(t) == {i \in Ids : t[i] # None}
UuidsOf(t) == {t[i] : i \in Used(t)}

LocalStates == [ver : Nat, sub : BOOLEAN, ns : Table]

GatewayStates ==
    [sub   : BOOLEAN,       \* subsys_serial has the subsystem, and so has SPDK
     spdk  : Table,         \* SPDK's namespaces
     list  : Table,         \* subsystem_nsid_bdev_and_uuid
     bdevs : SUBSET Uuids,  \* SPDK's bdevs
     load  : Nat]           \* the sum of ana_grp_ns_load
NewGateway == [sub |-> FALSE, spdk |-> EmptyTable, list |-> EmptyTable,
               bdevs |-> {}, load |-> 0]

Updates == [ver : Nat, sub : BOOLEAN, ns : Table, dropSub : BOOLEAN, addSub : BOOLEAN,
            drop : SUBSET Ids, add : SUBSET Ids]

\* "id" 0 leaves the choice to SPDK.  A deletion remembers the UUID it found,
\* a forced deletion of the subsystem the namespaces left to delete.
Requests ==
    {q \in [op : {"add", "delete", "delsub"}, gw : Gateways, id : Ids \cup {0},
            uuid : Uuids \cup {None}, force : BOOLEAN, todo : SUBSET Ids, waiting : BOOLEAN] :
        /\ q.op = "add" => q.uuid \in Uuids
        /\ q.op = "delete" \/ (q.op = "delsub" /\ q.waiting /\ q.todo # {}) => q.id \in Ids}

ASSUME NsNoneAssumption == None \notin Uuids /\ None \notin Updates

\* the version of a new process, and of the OMAP with the subsystem in it
NewVersion == 1
FirstVersion == 2

NsTypeOK ==
    /\ exists \in BOOLEAN
    /\ omap \in Table
    /\ version \in Nat
    /\ local \in [Gateways -> LocalStates]
    /\ gw \in [Gateways -> GatewayStates]
    /\ update \in [Gateways -> Updates \cup {None}]
    /\ req \in [Clients -> Requests \cup {None}]
    /\ requests \in Nat /\ faults \in Nat /\ crashes \in Nat
    /\ troubles \in [Gateways -> SUBSET {"stale", "hidden", "fault"}]

NsInit ==
    /\ exists = TRUE
    /\ omap = EmptyTable
    /\ version = FirstVersion
    /\ local = [g \in Gateways |-> [ver |-> FirstVersion, sub |-> TRUE, ns |-> EmptyTable]]
    /\ gw = [g \in Gateways |-> [NewGateway EXCEPT !.sub = TRUE]]
    /\ update = [g \in Gateways |-> None]
    /\ req = [c \in Clients |-> None]
    /\ requests = 0 /\ faults = 0 /\ crashes = 0
    /\ troubles = [g \in Gateways |-> {}]

(***************************************************************************)
(* What the calls do to a gateway r                                        *)
(***************************************************************************)
\* nvmf_subsystem_add_ns takes the ID it is given, or the first free one
FreeIds(r) == {i \in Ids : r.spdk[i] = None}
IdsFor(r, id) == {i \in FreeIds(r) : i = id \/ (id = 0 /\ \A j \in FreeIds(r) : i <= j)}
SpdkRefuses(r, id) == IdsFor(r, id) = {}

\* namespace_add_safe's check of the ID and the UUID
InUse(r, id, u) == (id # 0 /\ r.list[id] # None) \/ u \in UuidsOf(r.list)

\* errors of create_bdev and of create_namespace before it calls SPDK; the
\* bdev is deleted again
AddRefusedByListOnly(r, u) == u \in r.bdevs \/ Used(r.list) = Ids \* a mutation
AddRefused(r, u) == u \in r.bdevs \/ ~r.sub \/ Used(r.list) = Ids

\* create_namespace, with the ID SPDK gave
ServeUncounted(r, i, u) == \* a mutation
    [r EXCEPT !.spdk[i] = u, !.list[i] = u, !.bdevs = @ \cup {u}]
Serve(r, i, u) ==
    [r EXCEPT !.spdk[i] = u, !.list[i] = u, !.bdevs = @ \cup {u}, !.load = @ + 1]

\* its handler of SPDK's errors, with the ID of the request
ForgetList(r, id) ==
    [r EXCEPT !.list = IF id = 0 THEN EmptyTable ELSE [@ EXCEPT ![id] = None]]

\* bdev_rbd_delete: SPDK removes the namespace of a bdev with it
DropBdev(r, u) ==
    [r EXCEPT !.bdevs = @ \ {u}, !.spdk = [i \in Ids |-> IF @[i] = u THEN None ELSE @[i]]]

\* remove_namespace; when the list has no entry the counters of group 0 are
\* looked up, and only the second one raises
TakeAwayTwice(r, id) == [r EXCEPT !.spdk[id] = None, !.load = @ - 2] \* a mutation
TakeAway(r, id) == [r EXCEPT !.spdk[id] = None, !.load = @ - 1]
RemoveErrs(r, id) == r.spdk[id] = None \/ r.list[id] = None
AfterRemoveErr(r, id) == IF r.spdk[id] = None THEN r ELSE TakeAway(r, id)
\* and the rest of namespace_delete_safe, for a namespace found with UUID u
Removed(r, id, u) == DropBdev([TakeAway(r, id) EXCEPT !.list[id] = None], u)

\* delete_subsystem_safe
WithoutSubsystem(r) == [r EXCEPT !.sub = FALSE, !.spdk = EmptyTable, !.list = EmptyTable]

(***************************************************************************)
(* update()                                                                *)
(***************************************************************************)
Behind(g) == local[g].ver < version

\* the keys of a prefix to remove or to add: the changed ones, if there are any
Grouped(keys, changed) == IF changed = {} THEN keys ELSE changed

StartUpdate(g) ==
    LET old == local[g].ns
        gone == Used(old) \ Used(omap)
        new == Used(omap) \ Used(old)
        changed == {i \in Used(old) \cap Used(omap) : old[i] # omap[i]}
    IN  /\ Behind(g)
        /\ update[g] = None
        /\ update' = [update EXCEPT ![g] =
              [ver |-> version, sub |-> exists, ns |-> omap,
               dropSub |-> local[g].sub /\ ~exists, addSub |-> ~local[g].sub /\ exists,
               drop |-> Grouped(gone, changed), add |-> Grouped(new, changed)]]
        /\ troubles' = IF changed # {} /\ gone \cup new # {}
                       THEN [troubles EXCEPT ![g] = @ \cup {"hidden"}] ELSE troubles
        /\ UNCHANGED <<omapVars, local, gw, req, budgetVars>>

\* the RPCs of update(), whose errors it ignores: namespaces are deleted before
\* the subsystem and added after it
UpdateDelete(g) ==
    /\ update[g] # None
    /\ \E i \in update[g].drop :
          /\ update' = [update EXCEPT ![g].drop = @ \ {i}]
          /\ gw' = [gw EXCEPT ![g] =
                IF ~@.sub \/ @.list[i] = None THEN @
                ELSE IF RemoveErrs(@, i) THEN AfterRemoveErr(@, i)
                ELSE Removed(@, i, @.list[i])]
    /\ UNCHANGED <<omapVars, local, req, budgetVars, troubles>>

UpdateDropSubsystem(g) ==
    /\ update[g] # None
    /\ update[g].drop = {} /\ update[g].dropSub
    /\ update' = [update EXCEPT ![g].dropSub = FALSE]
    /\ gw' = [gw EXCEPT ![g] = WithoutSubsystem(@)]
    /\ UNCHANGED <<omapVars, local, req, budgetVars, troubles>>

UpdateAddSubsystem(g) ==
    /\ update[g] # None
    /\ update[g].drop = {} /\ update[g].addSub
    /\ update' = [update EXCEPT ![g].addSub = FALSE]
    /\ gw' = [gw EXCEPT ![g].sub = TRUE]
    /\ UNCHANGED <<omapVars, local, req, budgetVars, troubles>>

\* without the request's check of the list: SPDK refuses an ID it has
UpdateAdd(g) ==
    /\ update[g] # None
    /\ update[g].drop = {} /\ ~update[g].dropSub /\ ~update[g].addSub
    /\ \E i \in update[g].add :
          /\ update' = [update EXCEPT ![g].add = @ \ {i}]
          /\ gw' = [gw EXCEPT ![g] =
                IF AddRefused(@, update[g].ns[i]) THEN @
                ELSE IF SpdkRefuses(@, i) THEN ForgetList(@, i)
                ELSE Serve(@, i, update[g].ns[i])]
    /\ UNCHANGED <<omapVars, local, req, budgetVars, troubles>>

UpdateEnd(g) ==
    /\ update[g] # None
    /\ update[g].drop = {} /\ update[g].add = {}
    /\ ~update[g].dropSub /\ ~update[g].addSub
    /\ local' = [local EXCEPT ![g] =
          [ver |-> update[g].ver, sub |-> update[g].sub, ns |-> update[g].ns]]
    /\ update' = [update EXCEPT ![g] = None]
    /\ UNCHANGED <<omapVars, gw, req, budgetVars, troubles>>

(***************************************************************************)
(* A client's request, up to the OMAP lock                                 *)
(***************************************************************************)
Request(op, g, id, u, force, todo) ==
    [op |-> op, gw |-> g, id |-> id, uuid |-> u, force |-> force, todo |-> todo, waiting |-> FALSE]

Ask(c) ==
    /\ req[c] = None
    /\ requests < MaxRequests
    /\ requests' = requests + 1
    /\ \E g \in Gateways :
          \/ \E i \in Ids \cup {0}, u \in Uuids :
                req' = [req EXCEPT ![c] = Request("add", g, i, u, FALSE, {})]
          \/ \E i \in Ids :
                req' = [req EXCEPT ![c] = Request("delete", g, i, None, FALSE, {})]
          \* delete_subsystem reads the local state without any lock
          \/ \E force \in BOOLEAN :
                /\ force \/ Used(local[g].ns) = {}
                /\ req' = [req EXCEPT ![c] =
                      Request("delsub", g, 0, None, force, Used(local[g].ns))]
    /\ UNCHANGED <<omapVars, local, gw, update, faults, crashes, troubles>>

\* the call returns; delete_subsystem goes on with the next namespace, or
\* with the subsystem itself
Deleting(r) == r.op = "delete" \/ (r.op = "delsub" /\ r.todo # {})
Answer(c) ==
    LET q == req[c]
        goesOn == q.op = "delsub" /\ q.todo # {}
    IN  req' = [req EXCEPT ![c] =
            IF goesOn THEN Request("delsub", q.gw, 0, None, q.force, q.todo \ {q.id}) ELSE None]

Wait(c, id, u) == req' = [req EXCEPT ![c].id = id, ![c].uuid = u, ![c].waiting = TRUE]

Check(c) ==
    /\ req[c] # None
    /\ ~req[c].waiting
    /\ LET r == gw[req[c].gw]
           q == req[c]
           found(i) == r.sub /\ r.list[i] # None
       IN  \/ q.op = "add" /\ IF InUse(r, q.id, q.uuid) THEN Answer(c) ELSE Wait(c, q.id, q.uuid)
           \/ q.op = "delete" /\ IF found(q.id) THEN Wait(c, q.id, r.list[q.id]) ELSE Answer(c)
           \/ /\ q.op = "delsub"
              /\ \E i \in q.todo :
                    IF found(i) THEN Wait(c, i, r.list[i])
                    ELSE req' = [req EXCEPT ![c].todo = @ \ {i}]
           \/ q.op = "delsub" /\ q.todo = {} /\ Wait(c, 0, None)
    /\ UNCHANGED <<omapVars, local, gw, update, budgetVars, troubles>>

\* verify_versions raises EAGAIN: the function is called again
Retry(c) ==
    /\ req[c] # None
    /\ req[c].waiting
    /\ Behind(req[c].gw)
    /\ req' = [req EXCEPT ![c].waiting = FALSE]
    /\ UNCHANGED <<omapVars, local, gw, update, budgetVars, troubles>>

(***************************************************************************)
(* With the OMAP lock, at a gateway that is not behind                     *)
(***************************************************************************)
LockedAtAnyVersion(c) == req[c] # None /\ req[c].waiting \* a mutation
Locked(c) == req[c] # None /\ req[c].waiting /\ ~Behind(req[c].gw)

Write(g, sub, ns) ==
    /\ exists' = sub
    /\ omap' = ns
    /\ version' = version + 1
    /\ local' = [local EXCEPT ![g] = [ver |-> version + 1, sub |-> sub, ns |-> ns]]

\* the check made before the lock does not hold any more
Stale(q) ==
    LET r == gw[q.gw]
    IN  \/ q.op = "add" /\ q.id # 0 /\ r.list[q.id] # None
        \/ Deleting(q) /\ r.list[q.id] # q.uuid
Trouble(c, more) ==
    troubles' = [troubles EXCEPT ![req[c].gw] =
        @ \cup more \cup (IF Stale(req[c]) THEN {"stale"} ELSE {})]

Fault(c) ==
    /\ faults < MaxFaults
    /\ faults' = faults + 1
    /\ Trouble(c, {"fault"})
NoFault(c) == Trouble(c, {}) /\ UNCHANGED faults

\* check_if_image_used
ImageIsListed(g, u) == u \in UuidsOf(gw[g].list) \* a mutation
ImageIsUsed(g, u) == u \in UuidsOf(local[g].ns)

AddNamespace(c) ==
    LET g == req[c].gw
        id == req[c].id
        u == req[c].uuid
        r == gw[g]
        refused == ImageIsUsed(g, u) \/ AddRefused(r, u)
    IN  /\ Locked(c)
        /\ req[c].op = "add"
        /\ \/ /\ refused
              /\ UNCHANGED <<omapVars, local, gw>> /\ NoFault(c)
           \/ /\ ~refused
              /\ gw' = [gw EXCEPT ![g] = ForgetList(@, id)]
              /\ IF SpdkRefuses(r, id) THEN NoFault(c) ELSE Fault(c)
              /\ UNCHANGED <<omapVars, local>>
           \/ /\ ~refused
              /\ \E i \in IdsFor(r, id) :
                    \/ /\ gw' = [gw EXCEPT ![g] = Serve(@, i, u)]
                       /\ Write(g, exists, [omap EXCEPT ![i] = u])
                       /\ NoFault(c)
                    \* the OMAP write fails: only the bdev is undone
                    \/ /\ gw' = [gw EXCEPT ![g] = DropBdev(Serve(@, i, u), u)]
                       /\ Fault(c)
                       /\ UNCHANGED <<omapVars, local>>
        /\ Answer(c)
        /\ UNCHANGED <<update, requests, crashes>>

DeleteNamespace(c) ==
    LET g == req[c].gw
        id == req[c].id
        r == gw[g]
    IN  /\ Locked(c)
        /\ Deleting(req[c])
        /\ \/ /\ RemoveErrs(r, id)
              /\ gw' = [gw EXCEPT ![g] = AfterRemoveErr(@, id)]
              /\ UNCHANGED <<omapVars, local>> /\ NoFault(c)
           \/ /\ ~RemoveErrs(r, id)
              /\ gw' = [gw EXCEPT ![g] = Removed(@, id, req[c].uuid)]
              \* the result of remove_namespace_from_state is ignored
              /\ \/ Write(g, exists, [omap EXCEPT ![id] = None]) /\ NoFault(c)
                 \/ UNCHANGED <<omapVars, local>> /\ Fault(c)
        /\ Answer(c)
        /\ UNCHANGED <<update, requests, crashes>>

DeleteSubsystem(c) ==
    LET g == req[c].gw
    IN  /\ Locked(c)
        /\ req[c].op = "delsub" /\ req[c].todo = {}
        \* the keys are removed even if SPDK refuses
        /\ Write(g, FALSE, EmptyTable)
        /\ \/ gw' = [gw EXCEPT ![g] = WithoutSubsystem(@)] /\ NoFault(c)
           \/ UNCHANGED gw /\ Fault(c)
        /\ Answer(c)
        /\ UNCHANGED <<update, requests, crashes>>

\* The process ends, SPDK with it, and starts again from nothing.
Crash(g) ==
    /\ crashes < MaxCrashes
    /\ crashes' = crashes + 1
    /\ gw' = [gw EXCEPT ![g] = NewGateway]
    /\ local' = [local EXCEPT ![g] = [ver |-> NewVersion, sub |-> FALSE, ns |-> EmptyTable]]
    /\ update' = [update EXCEPT ![g] = None]
    /\ req' = [c \in Clients |-> IF req[c] # None /\ req[c].gw = g THEN None ELSE req[c]]
    /\ troubles' = [troubles EXCEPT ![g] = {}]
    /\ UNCHANGED <<omapVars, requests, faults>>

UpdateStep(g) ==
    \/ StartUpdate(g) \/ UpdateDelete(g) \/ UpdateDropSubsystem(g)
    \/ UpdateAddSubsystem(g) \/ UpdateAdd(g) \/ UpdateEnd(g)

NsNext ==
    \/ \E c \in Clients :
          \/ Ask(c) \/ Check(c) \/ Retry(c)
          \/ AddNamespace(c) \/ DeleteNamespace(c) \/ DeleteSubsystem(c)
    \/ \E g \in Gateways : UpdateStep(g) \/ Crash(g)

NsSpec == NsInit /\ [][NsNext]_nsVars

(***************************************************************************)
(* Properties                                                              *)
(***************************************************************************)
\* No image is in two namespaces of the group, whatever the requests raced
\* with (check_if_image_used under the OMAP lock).
UuidsAreUnique ==
    \A i, j \in Used(omap) : omap[i] = omap[j] => i = j

\* The OMAP never has a namespace whose subsystem is gone, although
\* delete_subsystem lists the namespaces before it has any lock and a
\* namespace_add may wait meanwhile.  When SPDK refuses to delete the
\* subsystem its keys go all the same.
NoNamespaceWithoutSubsystem == ~exists /\ faults = 0 => omap = EmptyTable

\* The load counters of a gateway, from which rebalancing decides, are never
\* below the namespaces its SPDK serves (create_namespace, remove_namespace).
LoadCoversServed == \A g \in Gateways : gw[g].load >= Cardinality(Used(gw[g].spdk))

\* An untroubled gateway does not replace a namespace of the OMAP by a new one,
\* although it checked the ID before it had the lock (namespace_add_safe).
AddNeverReplaces ==
    [][\A c \in Clients :
          AddNamespace(c) /\ troubles'[req[c].gw] = {} =>
              \A i \in Used(omap) : omap'[i] = omap[i]]_nsVars

AtRest ==
    /\ \A c \in Clients : req[c] = None
    /\ \A g \in Gateways : ~Behind(g) /\ update[g] = None

\* When all is answered and every gateway is up to date, each gateway serves
\* exactly the namespaces of the OMAP, knows them and counts them, after any
\* requests at any gateways, unless in this process a call failed, update()
\* left a namespace out or a request got the lock with an outdated check.  So
\* trouble stays with the gateway that had it, and a restart ends it.
GatewaysAgreeAtRest ==
    AtRest => \A g \in Gateways : troubles[g] = {} =>
        /\ gw[g].sub = exists
        /\ gw[g].spdk = (IF exists THEN omap ELSE EmptyTable) /\ gw[g].list = gw[g].spdk
        /\ exists => gw[g].bdevs = UuidsOf(omap) /\ gw[g].load = Cardinality(Used(omap))

\* A gateway's namespaces are the group's when all is done and nothing failed
\* (test_multi_gateway_coordination: "checks if GatewayB has the identical
\* state after watch/notify and/or periodic polling").
SameStateAfterUpdate ==
    AtRest /\ faults = 0 =>
        \A g \in Gateways : "hidden" \notin troubles[g] => gw[g].spdk = omap

\* "If not set a subsystem deletion would fail in case it contains namespaces"
\* (--force of the subsystem del command, cli.py).
OnlyForceDeletesNamespaces ==
    [][\A c \in Clients :
          DeleteSubsystem(c) /\ ~req[c].force => omap = EmptyTable]_nsVars

=============================================================================

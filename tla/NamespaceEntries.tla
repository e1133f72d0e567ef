--------------------------- MODULE NamespaceEntries ---------------------------
(***************************************************************************)
(* What a gateway keeps about each namespace of a subsystem besides its    *)
(* image: load balancing group, visibility, trash flag, QoS limits and     *)
(* hosts.  The requests that change them (control/grpc.py), their keys in  *)
(* the OMAP and update(), which brings each kind of change to the other    *)
(* gateways in its own way (control/state.py).                             *)
(*                                                                         *)
(* The locks and checks are those of Namespaces: a request is checked,     *)
(* waits for the OMAP lock with rpc_lock free, and does the rest in one    *)
(* step.  Every add brings an image of its own, known by the number of     *)
(* the request, which is also the identity of the list entry a request     *)
(* has found.                                                              *)
(***************************************************************************)
EXTENDS Integers, FiniteSets

CONSTANTS
    Gateways,
    Clients,      \* gRPC calls under way at the same time
    Ids,          \* namespace IDs
    Groups,       \* load balancing groups
    Limits,       \* rw_ios_per_second, rw_mbytes_per_second, ...
    Values,       \* values of a limit
    Hosts,
    MaxHosts,     \* config max_hosts_per_namespace
    Asks,         \* what the clients ask for
    Starts,       \* the namespaces the group may start with
    MaxRequests,  \* bound: requests
    MaxFaults,    \* bound: OMAP writes and SPDK calls that fail
    MaxCrashes,   \* bound: gateway processes that end
    None

AllAsks ==
    [op : {"add"}, grp : Groups, vis : BOOLEAN, trash : BOOLEAN]
    \cup [op : {"delete"}, sure : BOOLEAN]
    \cup [op : {"group"}, grp : Groups]
    \cup [op : {"vis"}, vis : BOOLEAN, force : BOOLEAN]
    \cup [op : {"trash"}, trash : BOOLEAN]
    \cup [op : {"qos"}, limit : Limits, value : Values]
    \cup [op : {"addhost", "delhost"}, host : Hosts]

ASSUME EntryIds == Ids \subseteq Nat \ {0} /\ Groups \subseteq Nat \ {0} /\ Groups # {}
ASSUME EntryAsks == Asks \subseteq AllAsks
ASSUME EntryBounds ==
    MaxHosts \in Nat /\ MaxRequests \in Nat /\ MaxFaults \in Nat /\ MaxCrashes \in Nat

VARIABLES
    omap,       \* the keys of each namespace
    version,
    local,      \* each gateway's local state and its version
    gw,         \* each gateway's SPDK and its tables
    update,     \* what is left to do of a gateway's update()
    req,        \* each client's request
    images,     \* those RBD is asked to delete (trashed); history: those to be kept
    requests, faults, crashes,
    troubled,   \* history: a process met a fault or an outdated check, see EntriesFollowAtRest
    drift       \* history: keys and gateways went apart in the whole group

omapVars == <<omap, version>>
budgetVars == <<requests, faults, crashes>>
historyVars == <<troubled, drift>>
entryVars == <<omapVars, local, gw, update, req, images, budgetVars, historyVars>>

Insts == 0..MaxRequests
Limited == [Limits -> Values \cup {None}]
NoLimits == [l \in Limits |-> None]

\* the namespace's key, its QoS key and its host keys
Entries == [inst : Insts, grp : Groups, vis : BOOLEAN, trash : BOOLEAN]
Keys == [ns : Entries \cup {None}, qos : Limited, hosts : SUBSET Hosts]
NoKeys == [ns |-> None, qos |-> NoLimits, hosts |-> {}]
Contents == [Ids -> Keys]
EmptyContent == [i \in Ids |-> NoKeys]

ASSUME EntryFinite == IsFiniteSet(Ids) /\ IsFiniteSet(Hosts)
ASSUME EntryNone ==
    /\ None \notin Values /\ None \notin Nat
    /\ None \notin Entries /\ None \notin Limited

ASSUME EntryStarts ==
    \A k \in Starts : k \in Keys /\ k.ns # None /\ k.ns.inst = 0
                     /\ Cardinality(k.hosts) <= (IF k.ns.vis THEN 0 ELSE MaxHosts)

ListEntries == \* NamespaceInfo
    [inst : Insts, grp : Groups, vis : BOOLEAN, trash : BOOLEAN, hosts : SUBSET Hosts]
SpdkEntries == [inst : Insts, grp : Groups, vis : BOOLEAN]
GatewayStates ==
    [list : [Ids -> ListEntries \cup {None}],
     spdk : [Ids -> SpdkEntries \cup {None}],
     bdev : [Insts -> Limited \cup {None}],   \* SPDK's bdevs and their limits
     load : [Groups \cup {0} -> Int]]         \* ana_grp_ns_load

ASSUME GatewayNone == None \notin ListEntries /\ None \notin SpdkEntries

NewGateway ==
    [list |-> [i \in Ids |-> None], spdk |-> [i \in Ids |-> None],
     bdev |-> [n \in Insts |-> None], load |-> [b \in Groups \cup {0} |-> 0]]

\* what a request has found before it waits: the list entry, its trash flag
\* and the QoS key
Requests ==
    [gw : Gateways, id : Ids, ask : Asks, inst : Insts, waiting : BOOLEAN,
     found : Insts \cup {None}, flag : BOOLEAN, qos : Limited]

Updates ==
    [ver : Nat, st : Contents, drop : SUBSET Ids, add : SUBSET Ids, qos : SUBSET Ids,
     grp : SUBSET Ids, vis : SUBSET Ids, trash : SUBSET Ids,
     delhost : SUBSET (Ids \X Hosts), addhost : SUBSET (Ids \X Hosts)]

ASSUME UpdateNone == None \notin Updates

EntryTypeOK ==
    /\ omap \in Contents
    /\ version \in Nat
    /\ local \in [Gateways -> [ver : Nat, st : Contents]]
    /\ gw \in [Gateways -> GatewayStates]
    /\ update \in [Gateways -> Updates \cup {None}]
    /\ req \in [Clients -> Requests \cup {None}]
    /\ images \in [trashed : SUBSET Insts, kept : SUBSET Insts]
    /\ requests \in Nat /\ faults \in Nat /\ crashes \in Nat
    /\ troubled \in [Gateways -> BOOLEAN]
    /\ drift \in SUBSET {"qos", "hosts"}

(***************************************************************************)
(* What the calls do to a gateway r                                        *)
(***************************************************************************)
\* create_namespace of an entry e
Serve(r, i, e) ==
    [r EXCEPT !.spdk[i] = [inst |-> e.inst, grp |-> e.grp, vis |-> e.vis],
              !.list[i] = [inst |-> e.inst, grp |-> e.grp, vis |-> e.vis,
                           trash |-> e.trash, hosts |-> {}],
              !.bdev[e.inst] = NoLimits,
              !.load[e.grp] = @ + 1]

\* what a failing add of e leaves: SPDK has refused the bdev, or the namespace,
\* and the handler takes the ID off the list; or the OMAP write has failed and
\* delete_bdev takes the namespace from SPDK but not from the list and its
\* counter, or fails as well
Undone(r, i, e) == [Serve(r, i, e) EXCEPT !.spdk[i] = None, !.bdev[e.inst] = None]
AddLeaves(r, i, e) ==
    {r, [r EXCEPT !.list[i] = None], Undone(r, i, e), Serve(r, i, e)}

\* delete_rbd_image, for an image with the trash flag
Discards(n, flag) == images' = [images EXCEPT !.trashed = @ \cup (IF flag THEN {n} ELSE {})]

\* a request changes the list entry it has found, if that is still the one
SetFound(r, i, found, e) ==
    IF r.list[i] # None /\ r.list[i].inst = found THEN [r EXCEPT !.list[i] = e] ELSE r
FoundNow(r, i) == IF r.list[i] = None THEN None ELSE r.list[i].inst

\* the counter of the group the namespace leaves, and the one of the next
GroupOf(r, i) == IF r.list[i] = None THEN 0 ELSE r.list[i].grp
Moved(load, b, next) == [load EXCEPT ![b] = @ - 1, ![next] = @ + 1]

RegroupToNext(r, i, found, grp) == [r EXCEPT !.spdk[i].grp = grp + 1] \* a mutation
Regroup(r, i, found, grp) ==
    LET moved == [r EXCEPT !.spdk[i].grp = grp, !.load = Moved(@, GroupOf(r, i), grp)]
    IN  SetFound(moved, i, found, [r.list[i] EXCEPT !.grp = grp])

\* a visibility set with force takes the hosts off the list
Show(r, i, found, vis, force) ==
    SetFound([r EXCEPT !.spdk[i].vis = vis], i, found,
             [r.list[i] EXCEPT !.vis = vis, !.hosts = IF force /\ vis THEN {} ELSE @])

SetTrash(r, i, found, trash) == SetFound(r, i, found, [r.list[i] EXCEPT !.trash = trash])
SetHosts(r, i, found, hosts) == SetFound(r, i, found, [r.list[i] EXCEPT !.hosts = hosts])

\* bdev_set_qos_limit leaves the limits it is not given
Limit(r, inst, limits) ==
    [r EXCEPT !.bdev[inst] = [l \in Limits |-> IF limits[l] = None THEN @[l] ELSE limits[l]]]

\* remove_namespace; without a list entry the counters of group 0 are taken
\* and the second one raises
RemoveErrs(r, i) == r.spdk[i] = None \/ r.list[i] = None
TakeAwayFromFirst(r, i) == \* a mutation
    [r EXCEPT !.spdk[i] = None, !.load[CHOOSE b \in Groups : TRUE] = @ - 1]
TakeAway(r, i) == [r EXCEPT !.spdk[i] = None, !.load[GroupOf(r, i)] = @ - 1]
AfterRemoveErr(r, i) == IF r.spdk[i] = None THEN r ELSE TakeAway(r, i)

\* the rest of namespace_delete_safe; SPDK removes a bdev's namespaces with it
RemovedButListed(r, i, found) == \* a mutation
    [TakeAway(r, i) EXCEPT !.bdev[found] = None]
Removed(r, i, found) ==
    LET left == [TakeAway(r, i) EXCEPT !.list[i] = None, !.bdev[found] = None]
    IN  [left EXCEPT !.spdk = [j \in Ids |->
            IF @[j] # None /\ @[j].inst = found THEN None ELSE @[j]]]

Refused(r, i, ask) ==
    LET e == r.list[i]
    IN  \/ ask.op = "add" /\ e # None
        \/ ask.op \notin {"add", "group"} /\ e = None
        \/ e # None /\ \/ ask.op = "delete" /\ e.trash /\ ~ask.sure
                       \/ ask.op = "vis" /\ e.hosts # {} /\ ask.vis /\ ~ask.force
                       \/ ask.op = "trash" /\ e.trash = ask.trash
                       \/ ask.op = "addhost" /\ (e.vis \/ Cardinality(e.hosts) >= MaxHosts)
                       \/ ask.op = "delhost" /\ (e.vis \/ ask.host \notin e.hosts)

(***************************************************************************)
(* The group starts with one namespace, the same at every gateway.         *)
(***************************************************************************)
EntryInit ==
    \E i \in Ids, k \in Starts :
        LET r == SetHosts(Serve(NewGateway, i, k.ns), i, 0, k.hosts)
        IN  /\ omap = [EmptyContent EXCEPT ![i] = k]
            /\ version = 2
            /\ local = [g \in Gateways |-> [ver |-> 2, st |-> omap]]
            /\ gw = [g \in Gateways |-> Limit(r, 0, k.qos)]
            /\ update = [g \in Gateways |-> None]
            /\ req = [c \in Clients |-> None]
            /\ images = [trashed |-> {}, kept |-> {}]
            /\ requests = 0 /\ faults = 0 /\ crashes = 0
            /\ troubled = [g \in Gateways |-> FALSE]
            /\ drift = {}

(***************************************************************************)
(* A process ends, SPDK with it, and starts again from nothing: by itself  *)
(* or through abort_gateway_if_needed.                                     *)
(***************************************************************************)
Restart(g) ==
    /\ gw' = [gw EXCEPT ![g] = NewGateway]
    /\ local' = [local EXCEPT ![g] = [ver |-> 1, st |-> EmptyContent]]
    /\ update' = [update EXCEPT ![g] = None]
    /\ req' = [c \in Clients |-> IF req[c] # None /\ req[c].gw = g THEN None ELSE req[c]]
    /\ troubled' = [troubled EXCEPT ![g] = FALSE]

Crash(g) ==
    /\ crashes < MaxCrashes
    /\ crashes' = crashes + 1
    /\ Restart(g)
    /\ UNCHANGED <<omapVars, images, requests, faults, drift>>

Abort(g) == Restart(g) /\ UNCHANGED <<omapVars, images, budgetVars, drift>>

(***************************************************************************)
(* update()                                                                *)
(***************************************************************************)
Behind(g) == local[g].ver < version

\* the keys of a prefix to remove or to add: the changed ones, if there are any
Grouped(keys, changed) == IF changed = {} THEN keys ELSE changed

\* The differences of two states.  A namespace is deleted and added again if
\* anything but its group, visibility and trash flag has changed.
Plan(old, new) ==
    LET has(st) == {i \in Ids : st[i].ns # None}
        limited(st) == {i \in Ids : st[i].qos # NoLimits}
        hostsOf(st) == {p \in Ids \X Hosts : p[2] \in st[p[1]].hosts}
        both == has(old) \cap has(new)
        readd == {i \in both : old[i].ns.inst # new[i].ns.inst}
        same == both \ readd
        newLimits == {i \in limited(old) \cap limited(new) : old[i].qos # new[i].qos}
    IN  [drop |-> Grouped(has(old) \ has(new), readd),
         add |-> Grouped(has(new) \ has(old), readd),
         qos |-> Grouped(limited(new) \ limited(old), newLimits),
         grp |-> {i \in same : old[i].ns.grp # new[i].ns.grp},
         vis |-> {i \in same : old[i].ns.vis # new[i].ns.vis},
         trash |-> {i \in same : old[i].ns.trash # new[i].ns.trash},
         delhost |-> hostsOf(old) \ hostsOf(new),
         addhost |-> hostsOf(new) \ hostsOf(old)]

\* what the order of the calls or the grouping leaves out: a namespace or
\* limits next to changed ones, limits and hosts of a namespace added again,
\* hosts of a namespace whose visibility is changed after they are added
LeavesOut(old, new) ==
    LET p == Plan(old, new)
        has(st) == {i \in Ids : st[i].ns # None}
        readd == p.drop \cap p.add
    IN  \/ p.drop # has(old) \ has(new) /\ has(old) # has(new)
        \/ \E i \in Ids : new[i].qos # old[i].qos /\ new[i].qos # NoLimits /\ i \notin p.qos
        \/ \E i \in readd : new[i].qos # NoLimits \/ new[i].hosts # {}
        \/ \E i \in p.vis : ~new[i].ns.vis /\ new[i].hosts # {}

StartUpdate(g) ==
    LET p == Plan(local[g].st, omap)
    IN  /\ Behind(g)
        /\ update[g] = None
        /\ update' = [update EXCEPT ![g] =
              [ver |-> version, st |-> omap, drop |-> p.drop, add |-> p.add, qos |-> p.qos,
               grp |-> p.grp, vis |-> p.vis, trash |-> p.trash,
               delhost |-> p.delhost, addhost |-> p.addhost]]
        /\ troubled' = [troubled EXCEPT ![g] = @ \/ LeavesOut(local[g].st, omap)]
        /\ UNCHANGED <<omapVars, local, gw, req, images, budgetVars, drift>>

\* the RPCs in their order, without the OMAP lock; their errors are ignored
Kinds == <<"delhost", "drop", "add", "qos", "addhost", "grp", "vis", "trash">>
Reached(g, n) == update[g] # None /\ \A k \in 1..(n - 1) : update[g][Kinds[k]] = {}

Does(g, r) ==
    /\ gw' = [gw EXCEPT ![g] = r]
    /\ UNCHANGED <<omapVars, local, req, budgetVars, historyVars>>

\* nvmf_ns_visible raises without a namespace, and may for one all hosts see:
\* nothing catches that, here or in a request
Raises(r, i) == r.spdk[i] # None => r.spdk[i].vis

HostsAfter(ask, hosts) ==
    IF ask.op = "addhost" THEN hosts \cup {ask.host} ELSE hosts \ {ask.host}
UpdateHost(g, i, ask, rest) ==
    LET r == gw[g]
    IN  \/ /\ Refused(r, i, ask) \/ r.spdk[i] # None
           /\ update' = [update EXCEPT ![g] = rest]
           /\ Does(g, IF Refused(r, i, ask) THEN r
                      ELSE SetHosts(r, i, FoundNow(r, i), HostsAfter(ask, r.list[i].hosts)))
           /\ UNCHANGED images
        \/ ~Refused(r, i, ask) /\ Raises(r, i) /\ Abort(g)

UpdateDeleteHost(g) ==
    /\ Reached(g, 1)
    /\ \E p \in update[g].delhost :
          UpdateHost(g, p[1], [op |-> "delhost", host |-> p[2]],
                     [update[g] EXCEPT !.delhost = @ \ {p}])

\* namespace_delete, with i_am_sure
UpdateDelete(g) ==
    /\ Reached(g, 2)
    /\ \E i \in update[g].drop :
          LET r == gw[g]
          IN  /\ update' = [update EXCEPT ![g].drop = @ \ {i}]
              /\ Does(g, IF r.list[i] = None THEN r
                         ELSE IF RemoveErrs(r, i) THEN AfterRemoveErr(r, i)
                         ELSE Removed(r, i, r.list[i].inst))
              /\ Discards(r.list[i].inst, ~RemoveErrs(r, i) /\ r.list[i].trash)

\* The list is not looked at.  SPDK refuses an ID it has: the list entry of the
\* ID goes, and the new namespace's image if it has the trash flag.
UpdateAdd(g) ==
    /\ Reached(g, 3)
    /\ \E i \in update[g].add :
          LET r == gw[g]
              e == update[g].st[i].ns
          IN  /\ update' = [update EXCEPT ![g].add = @ \ {i}]
              /\ Does(g, IF r.spdk[i] # None THEN [r EXCEPT !.list[i] = None]
                         ELSE Serve(r, i, e))
              /\ Discards(e.inst, r.spdk[i] # None /\ e.trash)

UpdateLimits(g) ==
    /\ Reached(g, 4)
    /\ \E i \in update[g].qos :
          LET r == gw[g]
          IN  /\ update' = [update EXCEPT ![g].qos = @ \ {i}]
              /\ Does(g, IF r.list[i] = None \/ r.bdev[r.list[i].inst] = None THEN r
                         ELSE Limit(r, r.list[i].inst, update[g].st[i].qos))
              /\ UNCHANGED images

UpdateAddHost(g) ==
    /\ Reached(g, 5)
    /\ \E p \in update[g].addhost :
          UpdateHost(g, p[1], [op |-> "addhost", host |-> p[2]],
                     [update[g] EXCEPT !.addhost = @ \ {p}])

\* a namespace missing from the list ends the gateway with a KeyError
UpdateGroup(g) ==
    /\ Reached(g, 6)
    /\ \E i \in update[g].grp :
          LET r == gw[g]
          IN  IF r.spdk[i] = None \/ r.list[i] # None
              THEN /\ update' = [update EXCEPT ![g].grp = @ \ {i}]
                   /\ Does(g, IF r.spdk[i] = None THEN r
                              ELSE Regroup(r, i, FoundNow(r, i), update[g].st[i].ns.grp))
                   /\ UNCHANGED images
              ELSE Abort(g)

UpdateVisibility(g) ==
    /\ Reached(g, 7)
    /\ \E i \in update[g].vis :
          LET r == gw[g]
          IN  /\ update' = [update EXCEPT ![g].vis = @ \ {i}]
              /\ Does(g, IF RemoveErrs(r, i) THEN r
                         ELSE Show(r, i, FoundNow(r, i), update[g].st[i].ns.vis, TRUE))
              /\ UNCHANGED images

UpdateTrash(g) ==
    /\ Reached(g, 8)
    /\ \E i \in update[g].trash :
          LET r == gw[g]
          IN  /\ update' = [update EXCEPT ![g].trash = @ \ {i}]
              /\ Does(g, SetTrash(r, i, FoundNow(r, i), update[g].st[i].ns.trash))
              /\ UNCHANGED images

UpdateEnd(g) ==
    /\ Reached(g, 9)
    /\ local' = [local EXCEPT ![g] = [ver |-> update[g].ver, st |-> update[g].st]]
    /\ update' = [update EXCEPT ![g] = None]
    /\ UNCHANGED <<omapVars, gw, req, images, budgetVars, historyVars>>

(***************************************************************************)
(* A client's request, up to the OMAP lock                                 *)
(***************************************************************************)
Ask(c) ==
    /\ req[c] = None
    /\ requests < MaxRequests
    /\ requests' = requests + 1
    /\ \E g \in Gateways, i \in Ids, ask \in Asks :
          req' = [req EXCEPT ![c] =
              [gw |-> g, id |-> i, ask |-> ask, inst |-> requests', waiting |-> FALSE,
               found |-> None, flag |-> FALSE, qos |-> NoLimits]]
    /\ UNCHANGED <<omapVars, local, gw, update, images, faults, crashes, historyVars>>

Answer(c) == req' = [req EXCEPT ![c] = None]

\* the checks, which remember the list entry and the previous limits
Check(c) ==
    /\ req[c] # None
    /\ ~req[c].waiting
    /\ LET q == req[c]
           r == gw[q.gw]
       IN  IF Refused(r, q.id, q.ask) THEN Answer(c)
           ELSE req' = [req EXCEPT ![c].waiting = TRUE, ![c].found = FoundNow(r, q.id),
                        ![c].flag = r.list[q.id] # None /\ r.list[q.id].trash,
                        ![c].qos = local[q.gw].st[q.id].qos]
    /\ UNCHANGED <<omapVars, local, gw, update, images, budgetVars, historyVars>>

\* verify_versions raises EAGAIN: the function is called again
Retry(c) ==
    /\ req[c] # None
    /\ req[c].waiting
    /\ Behind(req[c].gw)
    /\ req' = [req EXCEPT ![c].waiting = FALSE, ![c].found = None, ![c].flag = FALSE,
                          ![c].qos = NoLimits]
    /\ UNCHANGED <<omapVars, local, gw, update, images, budgetVars, historyVars>>

(***************************************************************************)
(* With the OMAP lock, at a gateway that is not behind                     *)
(***************************************************************************)
Locked(c, op) ==
    /\ req[c] # None
    /\ req[c].waiting /\ ~Behind(req[c].gw)
    /\ req[c].ask.op = op

\* the namespace's entry in the local state, read with the lock held
Entry(c) == local[req[c].gw].st[req[c].id].ns
Namespace(c) == gw[req[c].gw].spdk[req[c].id]

\* the namespace is not the one the request has found, or the check would
\* now refuse it
Outdated(q) == \/ FoundNow(gw[q.gw], q.id) # q.found
               \/ q.ask.op # "trash" /\ Refused(gw[q.gw], q.id, q.ask)

\* All the keys a function writes under the lock count as one version.
Write(g, new) ==
    /\ omap' = new
    /\ version' = version + 1
    /\ local' = [local EXCEPT ![g] = [ver |-> version + 1, st |-> new]]

\* history: hosts of a namespace that does not list them, or too many; limits
\* taken from a namespace that stays, or put back to what they were
Drifted(q, new) ==
    {kind \in {"hosts", "qos"} :
        \E i \in Ids :
            LET k == new[i]
            IN  \/ /\ kind = "hosts" /\ k.hosts # {}
                   /\ k.ns = None \/ k.ns.vis \/ Cardinality(k.hosts) > MaxHosts
                \/ /\ kind = "qos"
                   /\ \/ q.ask.op = "qos" /\ q.id = i /\ q.qos # omap[i].qos
                      \/ k.ns = None /\ k.qos # NoLimits
                      \/ k.ns # None /\ \E l \in Limits :
                            omap[i].qos[l] # None /\ k.qos[l] = None}
Drifts(q, new) == drift' = drift \cup Drifted(q, new)

\* The request's effect on its gateway, and what it writes, unless that fails.
\* It returns in any case.
Succeeds(c, r, new) ==
    LET g == req[c].gw
    IN  /\ gw' = [gw EXCEPT ![g] = r]
        /\ Write(g, new)
        /\ Drifts(req[c], new)
        /\ troubled' = [troubled EXCEPT ![g] = @ \/ Outdated(req[c])]
        /\ Answer(c)
        /\ UNCHANGED <<update, budgetVars>>

Breaks(c, r) ==
    LET g == req[c].gw
    IN  /\ faults < MaxFaults
        /\ faults' = faults + 1
        /\ gw' = [gw EXCEPT ![g] = r]
        /\ troubled' = [troubled EXCEPT ![g] = TRUE]
        /\ Answer(c)
        /\ UNCHANGED <<omapVars, local, update, requests, crashes, drift>>

\* an error before anything is changed
Fails(c) ==
    /\ Answer(c)
    /\ UNCHANGED <<omapVars, local, gw, update, images, budgetVars, historyVars>>

\* SPDK may refuse, or the write fail
Effect(c, r, new) == Succeeds(c, r, new) \/ Breaks(c, r) \/ Fails(c)

AddNamespace(c) ==
    LET q == req[c]
        r == gw[q.gw]
        e == [inst |-> q.inst, grp |-> q.ask.grp, vis |-> q.ask.vis, trash |-> q.ask.trash]
    IN  /\ Locked(c, "add")
        /\ \/ /\ r.spdk[q.id] = None
              /\ \/ /\ Succeeds(c, Serve(r, q.id, e), [omap EXCEPT ![q.id].ns = e])
                    /\ UNCHANGED images
                 \/ \E left \in AddLeaves(r, q.id, e) :
                       Breaks(c, left) /\ Discards(q.inst, e.trash)
           \* SPDK refuses, and the list entry of the ID goes
           \/ /\ r.spdk[q.id] # None
              /\ Discards(q.inst, e.trash)
              /\ gw' = [gw EXCEPT ![q.gw].list[q.id] = None]
              /\ troubled' = [troubled EXCEPT ![q.gw] = TRUE]
              /\ Answer(c)
              /\ UNCHANGED <<omapVars, local, update, budgetVars, drift>>

ChangeGroup(c) ==
    LET q == req[c]
        r == gw[q.gw]
    IN  /\ Locked(c, "group")
        /\ \/ (Entry(c) = None \/ Namespace(c) = None) /\ Fails(c)
           \/ Entry(c) # None /\ Namespace(c) # None /\ r.list[q.id] = None /\ Abort(q.gw)
           \/ /\ Entry(c) # None /\ Namespace(c) # None /\ r.list[q.id] # None
              /\ Effect(c, Regroup(r, q.id, q.found, q.ask.grp),
                        [omap EXCEPT ![q.id].ns = [Entry(c) EXCEPT !.grp = q.ask.grp]])
              /\ UNCHANGED images

\* the hosts taken off the list stay in the OMAP
ChangeVisibility(c) ==
    LET q == req[c]
    IN  /\ Locked(c, "vis")
        /\ \/ (Entry(c) = None \/ Namespace(c) = None) /\ Fails(c)
           \/ Entry(c) # None /\ Entry(c).vis = q.ask.vis /\ Fails(c)
           \/ /\ Entry(c) # None /\ Entry(c).vis # q.ask.vis /\ Namespace(c) # None
              /\ Effect(c, Show(gw[q.gw], q.id, q.found, q.ask.vis, q.ask.force),
                        [omap EXCEPT ![q.id].ns = [Entry(c) EXCEPT !.vis = q.ask.vis]])
              /\ UNCHANGED images

\* SPDK has no part in it; when the write fails the list keeps its flag
ChangeTrash(c) ==
    LET q == req[c]
        r == SetTrash(gw[q.gw], q.id, q.found, q.ask.trash)
    IN  /\ Locked(c, "trash")
        /\ \/ Entry(c) = None /\ Fails(c)
           \/ /\ Entry(c) # None /\ Entry(c).trash = q.ask.trash
              /\ gw' = [gw EXCEPT ![q.gw] = r]
              /\ Answer(c)
              /\ UNCHANGED <<omapVars, local, update, images, budgetVars, historyVars>>
           \/ /\ Entry(c) # None /\ Entry(c).trash # q.ask.trash
              /\ \/ Succeeds(c, r, [omap EXCEPT ![q.id].ns = [Entry(c) EXCEPT !.trash = q.ask.trash]])
                 \/ Breaks(c, gw[q.gw])
              /\ UNCHANGED images

\* The limits not asked for come from what was found before the lock, and
\* SPDK is given the others only.
SetLimits(c) ==
    LET q == req[c]
        r == gw[q.gw]
        asked == [NoLimits EXCEPT ![q.ask.limit] = q.ask.value]
        merged == [l \in Limits |-> IF asked[l] # None THEN asked[l] ELSE q.qos[l]]
    IN  /\ Locked(c, "qos")
        /\ \/ r.bdev[q.found] = None /\ Fails(c)
           \/ /\ r.bdev[q.found] # None
              /\ Effect(c, Limit(r, q.found, asked), [omap EXCEPT ![q.id].qos = merged])
              /\ UNCHANGED images

ChangeHosts(c, op) ==
    LET q == req[c]
        r == gw[q.gw]
    IN  /\ Locked(c, op)
        /\ \/ Raises(r, q.id) /\ Abort(q.gw)
           \/ /\ Namespace(c) # None
              /\ LET after == SetHosts(r, q.id, q.found, HostsAfter(q.ask, r.list[q.id].hosts))
                 IN  \/ Succeeds(c, after, [omap EXCEPT ![q.id].hosts = HostsAfter(q.ask, @)])
                     \/ Breaks(c, after)
              /\ UNCHANGED images

AddHost(c) == ChangeHosts(c, "addhost")
DeleteHost(c) == ChangeHosts(c, "delhost")

(***************************************************************************)
(* namespace_delete                                                        *)
(***************************************************************************)
\* the QoS keys that start with the namespace's own, whose ID ends the key
StartsWith(j, i) == \E k \in {1, 10, 100, 1000} : j \div k = i

\* remove_namespace_from_state up to the namespace's own key, for the hosts
\* in the list, and the rest, which OmapGatewayState.remove_namespace does
WithoutKeys(i, hosts) ==
    [omap EXCEPT ![i].qos = NoLimits, ![i].hosts = @ \ hosts]
WithoutNamespace(i) ==
    [j \in Ids |-> IF j = i THEN NoKeys
                  ELSE IF StartsWith(j, i) THEN [omap[j] EXCEPT !.qos = NoLimits] ELSE omap[j]]
HostsOf(g, i) == IF gw[g].list[i] = None THEN {} ELSE gw[g].list[i].hosts

\* the flag is read before the lock and again after it
TrashedByFirstFlag(q) == q.flag \* a mutation
Trashed(q) ==
    q.flag /\ (FoundNow(gw[q.gw], q.id) = q.found => gw[q.gw].list[q.id].trash)

DeleteNamespace(c) ==
    LET q == req[c]
        r == gw[q.gw]
        discarded == IF Trashed(q) THEN {q.found} ELSE {}
    IN  /\ Locked(c, "delete")
        /\ \/ /\ RemoveErrs(r, q.id)
              /\ gw' = [gw EXCEPT ![q.gw] = AfterRemoveErr(@, q.id)]
              /\ troubled' = [troubled EXCEPT ![q.gw] = TRUE]
              /\ Answer(c)
              /\ UNCHANGED <<omapVars, local, update, images, budgetVars, drift>>
           \/ /\ ~RemoveErrs(r, q.id)
              /\ \/ /\ Succeeds(c, Removed(r, q.id, q.found), WithoutNamespace(q.id))
                    /\ images' = [trashed |-> images.trashed \cup discarded,
                                  kept |-> IF Entry(c) # None /\ ~Entry(c).trash
                                           THEN images.kept \cup {Entry(c).inst}
                                           ELSE images.kept]
                 \* the result of remove_namespace_from_state is ignored
                 \/ /\ Breaks(c, Removed(r, q.id, q.found))
                    /\ images' = [images EXCEPT !.trashed = @ \cup discarded]

\* The process ends between the writes of a deletion, each of which is a
\* version of its own.
NamespaceKeyFirst(g, i) == {[omap EXCEPT ![i].ns = None]} \* a mutation
Unfinished(g, i) ==
    {WithoutKeys(i, hosts) : hosts \in SUBSET HostsOf(g, i)}
    \cup {[WithoutKeys(i, HostsOf(g, i)) EXCEPT ![i].ns = None]}

CrashInDelete(c) ==
    LET q == req[c]
    IN  /\ Locked(c, "delete")
        /\ ~RemoveErrs(gw[q.gw], q.id)
        /\ crashes < MaxCrashes
        /\ crashes' = crashes + 1
        /\ omap' \in Unfinished(q.gw, q.id)
        /\ version' = version + 1
        /\ Restart(q.gw)
        /\ Drifts(q, omap')
        /\ UNCHANGED <<images, requests, faults>>

UpdateStep(g) ==
    \/ StartUpdate(g) \/ UpdateDeleteHost(g) \/ UpdateDelete(g) \/ UpdateAdd(g)
    \/ UpdateLimits(g) \/ UpdateAddHost(g) \/ UpdateGroup(g) \/ UpdateVisibility(g)
    \/ UpdateTrash(g) \/ UpdateEnd(g)

EntryNext ==
    \/ \E c \in Clients :
          \/ Ask(c) \/ Check(c) \/ Retry(c)
          \/ AddNamespace(c) \/ DeleteNamespace(c) \/ CrashInDelete(c)
          \/ ChangeGroup(c) \/ ChangeVisibility(c) \/ ChangeTrash(c)
          \/ SetLimits(c) \/ AddHost(c) \/ DeleteHost(c)
    \/ \E g \in Gateways : UpdateStep(g) \/ Crash(g)

EntrySpec == EntryInit /\ [][EntryNext]_entryVars

(***************************************************************************)
(* Properties                                                              *)
(***************************************************************************)
AtRest ==
    /\ \A c \in Clients : req[c] = None
    /\ \A g \in Gateways : ~Behind(g) /\ update[g] = None

\* gateway r does as the keys k of namespace i say
Follows(r, i, k) ==
    /\ k.ns = None <=> r.list[i] = None
    /\ k.ns = None <=> r.spdk[i] = None
    /\ k.ns # None =>
        /\ r.spdk[i] = [inst |-> k.ns.inst, grp |-> k.ns.grp, vis |-> k.ns.vis]
        /\ r.list[i] = [inst |-> k.ns.inst, grp |-> k.ns.grp, vis |-> k.ns.vis,
                        trash |-> k.ns.trash, hosts |-> r.list[i].hosts]
        /\ "hosts" \notin drift => r.list[i].hosts = k.hosts
        /\ "qos" \notin drift => r.bdev[k.ns.inst] = k.qos

\* When all is answered and the gateways are up to date, each gateway has
\* every namespace of the OMAP in SPDK and in its list with the group, the
\* visibility, the trash flag, the hosts and the limits of the OMAP, and
\* counts it in its group, whichever gateways the changes were made at:
\* unless the process met a fault or an outdated check or update() left
\* something out, or the keys themselves lost limits or kept hosts.
EntriesFollowAtRest ==
    AtRest => \A g \in Gateways : ~troubled[g] =>
        /\ \A i \in Ids : Follows(gw[g], i, omap[i])
        /\ \A b \in Groups : gw[g].load[b] =
              Cardinality({i \in Ids : omap[i].ns # None /\ omap[i].ns.grp = b})

\* A namespace in SPDK has its bdev, and the entry the list has under its ID,
\* if it has one, is of the same image.
ServedAsListed(r) ==
    \A i \in Ids : r.spdk[i] # None =>
        /\ r.bdev[r.spdk[i].inst] # None
        /\ r.list[i] # None => r.list[i].inst = r.spdk[i].inst

\* The handlers find a namespace in the list and call SPDK with its ID or its
\* bdev.  Whatever has failed, that is not another namespace than the one they
\* have found; and at a gateway that met no fault and no outdated check and
\* whose update() left nothing out, SPDK has every entry of the list and the
\* list every namespace of SPDK, also within an update(): nvmf_ns_visible, whose
\* exception nothing catches (namespace_add_host_safe), finds its namespace.
ListIsServed ==
    \A g \in Gateways :
        /\ ServedAsListed(gw[g])
        /\ ~troubled[g] => \A i \in Ids : gw[g].list[i] = None <=> gw[g].spdk[i] = None

SetsOnly(i, field, value) ==
    omap' # omap => omap[i].ns # None /\ omap' = [omap EXCEPT ![i].ns[field] = value]

\* A request that changes one field of a namespace writes the entry as it is
\* in the OMAP now, whatever has changed while it waited: the other fields,
\* namespaces and keys stay (the entry is read with the OMAP lock held).
SettersKeepTheRest ==
    [][\A c \in Clients :
          /\ ChangeGroup(c) => SetsOnly(req[c].id, "grp", req[c].ask.grp)
          /\ ChangeVisibility(c) => SetsOnly(req[c].id, "vis", req[c].ask.vis)
          /\ ChangeTrash(c) => SetsOnly(req[c].id, "trash", req[c].ask.trash)]_entryVars

\* A gateway that dies within a deletion leaves no QoS or host key without
\* its namespace: remove_namespace_from_state removes those first.
NoOrphanedKeys ==
    [][\A c \in Clients :
          CrashInDelete(c) /\ ~troubled[req[c].gw] /\ ~Outdated(req[c]) /\ "hosts" \notin drift =>
              LET k == omap'[req[c].id] IN k.ns = None => k = NoKeys]_entryVars

\* A deletion trashes the image only if its namespace is to be trashed by the
\* OMAP at that moment, although namespace_delete reads the flag from the list
\* before and after it waits for the lock: if the namespace is still the one it
\* has found.  If that was deleted meanwhile and its ID given to another one,
\* the image it has found is trashed by the flag read before the lock.
DeletionTrashesAsStored ==
    [][\A c \in Clients :
          DeleteNamespace(c) /\ ~troubled[req[c].gw] /\ images'.trashed # images.trashed =>
              \/ FoundNow(gw[req[c].gw], req[c].id) # req[c].found
              \/ omap[req[c].id].ns # None /\ omap[req[c].id].ns.trash]_entryVars

\* Only images whose namespace had the trash flag when it was deleted go to
\* the trash ("either repeat the command using --i-am-sure or reset the RBD
\* trash image flag", namespace_delete_safe).
KeptImagesAreKept == images.trashed \cap images.kept = {}

\* A gateway's namespaces have the hosts of the OMAP when all is done.
HostsFollowAtRest ==
    AtRest /\ faults = 0 /\ crashes = 0 =>
        \A g \in Gateways, i \in Ids :
            omap[i].ns # None /\ ~omap[i].ns.vis => gw[g].list[i].hosts = omap[i].hosts

=============================================================================

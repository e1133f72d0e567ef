------------------------------- MODULE Access -------------------------------
(***************************************************************************)
(* Who may use a subsystem: its hosts with their PSK and DH-HMAC-CHAP      *)
(* keys, "*" for any host, and the subsystem's own key, which SPDK uses as *)
(* the controller's key of every host that has one (control/grpc.py).      *)
(* There is one subsystem, created and deleted like the rest; update()     *)
(* brings a changed key to the other gateways by a call of its own         *)
(* (control/state.py).                                                     *)
(*                                                                         *)
(* As in NamespaceEntries a request is checked, waits for the OMAP lock    *)
(* with rpc_lock free, and does the rest in one step.                      *)
(***************************************************************************)
EXTENDS Integers, FiniteSets

CONSTANTS
    Gateways,
    Clients,      \* gRPC calls under way at the same time
    Hosts,
    Star,         \* "*", any host
    Keys,         \* DH-HMAC-CHAP keys; 0 stands for none
    Psks,         \* PSK keys; 0 stands for none
    MaxHosts,     \* config max_hosts_per_subsystem
    Asks,         \* what the clients ask for
    Starts,       \* what the OMAP may hold in the beginning
    MaxRequests,  \* bound: requests
    MaxFaults,    \* bound: OMAP writes and SPDK calls that fail
    MaxCrashes,   \* bound: gateway processes that end
    None

NoKey == 0
HostKeys == Hosts \cup {Star}

\* a serial number is chosen by the user, 0, or at random, None
AllAsks ==
    [op : {"create"}, serial : {0, None}, key : Keys \cup {NoKey}]
    \cup [op : {"delete"}]
    \cup [op : {"add"}, host : Hosts, psk : Psks \cup {NoKey}, key : Keys \cup {NoKey}]
    \cup [op : {"add"}, host : {Star}, psk : {NoKey}, key : {NoKey}]
    \cup [op : {"remove"}, host : HostKeys]
    \cup [op : {"hostkey"}, host : Hosts, key : Keys \cup {NoKey}]
    \cup [op : {"subkey"}, key : Keys \cup {NoKey}]

ASSUME AccessKeys == Keys \subseteq Nat \ {0} /\ Psks \subseteq Nat \ {0} /\ Star \notin Hosts
ASSUME AccessAsks == Asks \subseteq AllAsks
ASSUME AccessBounds ==
    MaxHosts \in Nat /\ MaxRequests \in Nat /\ MaxFaults \in Nat /\ MaxCrashes \in Nat

VARIABLES
    omap,       \* the keys of the subsystem and of its hosts
    version,
    local,      \* each gateway's local state and its version
    gw,         \* each gateway's SPDK and its SubsystemHostAuth
    update,     \* what is left to do of a gateway's update()
    req,        \* each client's request
    requests, faults, crashes,
    troubled    \* history: a process met a fault, an outdated check or a refused update()

omapVars == <<omap, version>>
budgetVars == <<requests, faults, crashes>>
accessVars == <<omapVars, local, gw, update, req, budgetVars, troubled>>

Insts == 0..MaxRequests
MaybeKeys == Keys \cup {NoKey}
NoHosts == [h \in HostKeys |-> None]
HostEntries == [psk : Psks \cup {NoKey}, key : MaybeKeys]
Contents ==
    [sub : [inst : Insts, key : MaybeKeys] \cup {None},
     hosts : [HostKeys -> HostEntries \cup {None}]]
EmptyContent == [sub |-> None, hosts |-> NoHosts]

\* ctrl is the controller's key SPDK has for the host
GatewayStates ==
    [sub : Insts \cup {None}, key : MaybeKeys,
     hosts : [HostKeys -> [psk : Psks \cup {NoKey}, key : MaybeKeys, ctrl : MaybeKeys] \cup {None}]]
NewGateway == [sub |-> None, key |-> NoKey, hosts |-> NoHosts]

\* ctrl and psk are what the request found before it waited, todo the hosts
\* whose key a changed subsystem key still has to go to
Requests ==
    [gw : Gateways, ask : AllAsks, inst : Insts, waiting : BOOLEAN, ctrl : MaybeKeys,
     psk : Psks \cup {NoKey}, host : Hosts \cup {None}, todo : [Hosts -> MaybeKeys]]
NoTodo == [h \in Hosts |-> NoKey]

Calls == SUBSET {"subsystem"}
Updates ==
    [ver : Nat, st : Contents, delhost : SUBSET HostKeys, drop : Calls, add : Calls,
     addhost : SUBSET HostKeys, subkey : Calls, hostkey : SUBSET Hosts]

ASSUME AccessNone ==
    /\ None \notin Insts /\ None \notin Hosts /\ None \notin HostEntries
    /\ None \notin [inst : Insts, key : MaybeKeys]
    /\ None \notin [psk : Psks \cup {NoKey}, key : MaybeKeys, ctrl : MaybeKeys]
    /\ None \notin Requests /\ None \notin Updates
ASSUME AccessHosts == IsFiniteSet(Hosts)
\* The requests of another run have left no host without its subsystem, no
\* host without a key next to a subsystem's key, not too many hosts, and
\* nothing with "*".
ASSUME AccessStarts ==
    /\ Starts \subseteq Contents
    /\ \A st \in Starts :
          /\ st.sub = None => st = EmptyContent
          /\ st.sub # None /\ st.sub.key # NoKey =>
                \A h \in HostKeys : st.hosts[h] # None => st.hosts[h].key # NoKey
          /\ Cardinality({h \in Hosts : st.hosts[h] # None}) <= MaxHosts
          /\ st.hosts[Star] # None => st.hosts[Star] = [psk |-> NoKey, key |-> NoKey]

AccessTypeOK ==
    /\ omap \in Contents
    /\ version \in Nat
    /\ local \in [Gateways -> [ver : Nat, st : Contents]]
    /\ gw \in [Gateways -> GatewayStates]
    /\ update \in [Gateways -> Updates \cup {None}]
    /\ req \in [Clients -> Requests \cup {None}]
    /\ requests \in Nat /\ faults \in Nat /\ crashes \in Nat
    /\ troubled \in [Gateways -> BOOLEAN]

(***************************************************************************)
(* What the calls do to a gateway r                                        *)
(***************************************************************************)
Known(r) == {h \in Hosts : r.hosts[h] # None}
Keyed(r) == {h \in Known(r) : r.hosts[h].key # NoKey}

\* a key that is not given leaves what the table has
Created(r, inst, key) ==
    [r EXCEPT !.sub = inst, !.key = IF key = NoKey THEN @ ELSE key]

\* SPDK does not know the subsystem, or has the host; "*" may be repeated
SpdkRefuses(r, h) == r.sub = None \/ (h # Star /\ r.hosts[h] # None)

Allowed(r, h, psk, key, ctrl) ==
    [r EXCEPT !.hosts[h] = [psk |-> psk, key |-> key,
                            ctrl |-> IF key = NoKey THEN NoKey ELSE ctrl]]
Disallowed(r, h) == [r EXCEPT !.hosts[h] = None]

WithKeyAlone(r, h, key, ctrl) == Allowed(r, h, r.hosts[h].psk, key, r.hosts[h].ctrl) \* a mutation
WithKey(r, h, key, ctrl) == Allowed(r, h, r.hosts[h].psk, key, ctrl)

\* add_host_safe, up to the lock: with no context only what the gateway
\* itself knows of the subsystem counts
NotAddableByKey(r, h, key) == \* a mutation
    r.sub = None \/ (r.key # NoKey /\ key = NoKey) \/ Cardinality(Known(r)) > MaxHosts
NotAddable(r, h, key) ==
    \/ r.sub = None
    \/ r.key # NoKey /\ key = NoKey
    \/ h # Star /\ Cardinality(Known(r)) >= MaxHosts
NotKeyable(r, key) == r.key # NoKey /\ key = NoKey

Refused(r, st, ask) ==
    \/ ask.op = "add" /\ (NotAddable(r, ask.host, ask.key) \/ st.hosts[ask.host] # None)
    \/ ask.op = "hostkey" /\ (NotKeyable(r, ask.key) \/ st.hosts[ask.host] = None)

(***************************************************************************)
(* The group starts with what another run has left, the same everywhere.   *)
(***************************************************************************)
Serving(st) ==
    LET key == IF st.sub = None THEN NoKey ELSE st.sub.key
    IN  [sub |-> IF st.sub = None THEN None ELSE st.sub.inst,
         key |-> key,
         hosts |-> [h \in HostKeys |->
            IF st.hosts[h] = None THEN None
            ELSE [psk |-> st.hosts[h].psk, key |-> st.hosts[h].key,
                  ctrl |-> IF st.hosts[h].key = NoKey THEN NoKey ELSE key]]]

AccessInit ==
    /\ omap \in Starts
    /\ version = 2
    /\ local = [g \in Gateways |-> [ver |-> 2, st |-> omap]]
    /\ gw = [g \in Gateways |-> Serving(omap)]
    /\ update = [g \in Gateways |-> None]
    /\ req = [c \in Clients |-> None]
    /\ requests = 0 /\ faults = 0 /\ crashes = 0
    /\ troubled = [g \in Gateways |-> FALSE]

\* A process ends, SPDK with it, and starts again from nothing.
Crash(g) ==
    /\ crashes < MaxCrashes
    /\ crashes' = crashes + 1
    /\ gw' = [gw EXCEPT ![g] = NewGateway]
    /\ local' = [local EXCEPT ![g] = [ver |-> 1, st |-> EmptyContent]]
    /\ update' = [update EXCEPT ![g] = None]
    /\ req' = [c \in Clients |-> IF req[c] # None /\ req[c].gw = g THEN None ELSE req[c]]
    /\ troubled' = [troubled EXCEPT ![g] = FALSE]
    /\ UNCHANGED <<omapVars, requests, faults>>

(***************************************************************************)
(* update()                                                                *)
(***************************************************************************)
Behind(g) == local[g].ver < version

\* the keys of a prefix to remove or to add: the changed ones, if there are any
Grouped(keys, changed) == IF changed = {} THEN keys ELSE changed

CallIf(wanted) == IF wanted THEN {"subsystem"} ELSE {}

\* A subsystem whose serial number has changed is deleted and created again,
\* a host whose PSK has changed removed and added; a key alone is changed.
Plan(old, new) ==
    LET has(st) == {h \in HostKeys : st.hosts[h] # None}
        both == has(old) \cap has(new)
        changed == {h \in both : old.hosts[h].psk # new.hosts[h].psk}
        readd == old.sub # None /\ new.sub # None /\ old.sub.inst # new.sub.inst
    IN  [delhost |-> Grouped(has(old) \ has(new), changed),
         drop |-> CallIf(readd \/ (old.sub # None /\ new.sub = None)),
         add |-> CallIf(readd \/ (old.sub = None /\ new.sub # None)),
         addhost |-> Grouped(has(new) \ has(old), changed),
         subkey |-> CallIf(/\ old.sub # None /\ new.sub # None /\ ~readd
                           /\ old.sub.key # new.sub.key),
         hostkey |-> {h \in (both \ changed) \cap Hosts : old.hosts[h].key # new.hosts[h].key}]

\* what the grouping of the calls leaves out: hosts next to changed ones, and
\* the other hosts of a subsystem that is deleted, to be created again or not
LeavesOut(old, new) ==
    LET p == Plan(old, new)
        has(st) == {h \in HostKeys : st.hosts[h] # None}
    IN  \/ p.delhost \cap p.addhost # {} /\ has(old) # has(new)
        \/ p.drop # {} /\ has(old) \cap has(new) # {}

StartUpdate(g) ==
    LET p == Plan(local[g].st, omap)
    IN  /\ Behind(g)
        /\ update[g] = None
        /\ update' = [update EXCEPT ![g] =
              [ver |-> version, st |-> omap, delhost |-> p.delhost, drop |-> p.drop,
               add |-> p.add, addhost |-> p.addhost, subkey |-> p.subkey, hostkey |-> p.hostkey]]
        /\ troubled' = [troubled EXCEPT ![g] = @ \/ LeavesOut(local[g].st, omap)]
        /\ UNCHANGED <<omapVars, local, gw, req, budgetVars>>

\* the RPCs in their order, without the OMAP lock; a refusal is ignored
Kinds == <<"delhost", "drop", "add", "addhost", "subkey", "hostkey">>
Reached(g, n) == update[g] # None /\ \A k \in 1..(n - 1) : update[g][Kinds[k]] = {}

Does(g, refused, r) ==
    /\ gw' = [gw EXCEPT ![g] = IF refused THEN gw[g] ELSE r]
    /\ troubled' = [troubled EXCEPT ![g] = @ \/ refused]
    /\ UNCHANGED <<omapVars, local, req, budgetVars>>

UpdateRemoveHost(g) ==
    /\ Reached(g, 1)
    /\ \E h \in update[g].delhost :
          /\ update' = [update EXCEPT ![g].delhost = @ \ {h}]
          /\ Does(g, gw[g].sub = None, Disallowed(gw[g], h))

UpdateDrop(g) ==
    /\ Reached(g, 2) /\ update[g].drop # {}
    /\ update' = [update EXCEPT ![g].drop = {}]
    /\ Does(g, gw[g].sub = None, NewGateway)

UpdateCreate(g) ==
    /\ Reached(g, 3) /\ update[g].add # {}
    /\ update' = [update EXCEPT ![g].add = {}]
    /\ LET new == update[g].st.sub
       IN  Does(g, gw[g].sub # None, Created(gw[g], new.inst, new.key))

UpdateAddHost(g) ==
    /\ Reached(g, 4)
    /\ \E h \in update[g].addhost :
          LET e == update[g].st.hosts[h]
              r == gw[g]
          IN  /\ update' = [update EXCEPT ![g].addhost = @ \ {h}]
              /\ Does(g, NotAddable(r, h, e.key) \/ SpdkRefuses(r, h),
                         Allowed(r, h, e.psk, e.key, r.key))

\* change_subsystem_key: the table first, then each host that has a key
UpdateSubsystemKey(g) ==
    /\ Reached(g, 5) /\ update[g].subkey # {}
    /\ update' = [update EXCEPT ![g].subkey = {}]
    /\ LET r == gw[g]
           key == update[g].st.sub.key
       IN  Does(g, FALSE,
               [r EXCEPT !.key = key,
                         !.hosts = [h \in HostKeys |->
                            IF h \in Keyed(r) THEN [@[h] EXCEPT !.ctrl = key] ELSE @[h]]])

UpdateHostKey(g) ==
    /\ Reached(g, 6)
    /\ \E h \in update[g].hostkey :
          LET key == update[g].st.hosts[h].key
              r == gw[g]
          IN  /\ update' = [update EXCEPT ![g].hostkey = @ \ {h}]
              /\ Does(g, NotKeyable(r, key) \/ r.hosts[h] = None, WithKey(r, h, key, r.key))

UpdateEnd(g) ==
    /\ Reached(g, 7)
    /\ local' = [local EXCEPT ![g] = [ver |-> update[g].ver, st |-> update[g].st]]
    /\ update' = [update EXCEPT ![g] = None]
    /\ UNCHANGED <<omapVars, gw, req, budgetVars, troubled>>

(***************************************************************************)
(* A client's request, up to the OMAP lock                                 *)
(***************************************************************************)
Ask(c) ==
    /\ req[c] = None
    /\ requests < MaxRequests
    /\ requests' = requests + 1
    /\ \E g \in Gateways, ask \in Asks :
          req' = [req EXCEPT ![c] =
              [gw |-> g, ask |-> ask, inst |-> requests', waiting |-> FALSE,
               ctrl |-> NoKey, psk |-> NoKey, host |-> None, todo |-> NoTodo]]
    /\ UNCHANGED <<omapVars, local, gw, update, faults, crashes, troubled>>

Answer(c) == req' = [req EXCEPT ![c] = None]

\* the PSK of the table, for change_host_key
FoundPskIfAny(r, ask) == \* a mutation
    IF ask.op = "hostkey" /\ r.hosts[ask.host] # None THEN r.hosts[ask.host].psk ELSE None
FoundPsk(r, ask) ==
    IF ask.op = "hostkey" /\ r.hosts[ask.host] # None THEN r.hosts[ask.host].psk ELSE NoKey

Check(c) ==
    /\ req[c] # None /\ ~req[c].waiting
    /\ LET q == req[c]
           r == gw[q.gw]
       IN  IF Refused(r, local[q.gw].st, q.ask) THEN Answer(c)
           ELSE req' = [req EXCEPT ![c].waiting = TRUE, ![c].ctrl = r.key,
                                   ![c].psk = FoundPsk(r, q.ask)]
    /\ UNCHANGED <<omapVars, local, gw, update, budgetVars, troubled>>

\* verify_versions raises EAGAIN: the function is called again
Retry(c) ==
    /\ req[c] # None /\ req[c].waiting /\ req[c].host = None
    /\ Behind(req[c].gw)
    /\ req' = [req EXCEPT ![c].waiting = FALSE, ![c].ctrl = NoKey, ![c].psk = NoKey]
    /\ UNCHANGED <<omapVars, local, gw, update, budgetVars, troubled>>

(***************************************************************************)
(* With the OMAP lock, at a gateway that is not behind                     *)
(***************************************************************************)
LockedAtAnyVersion(c, op) == \* a mutation
    req[c] # None /\ req[c].waiting /\ req[c].host = None /\ req[c].ask.op = op
Locked(c, op) ==
    /\ req[c] # None /\ req[c].waiting /\ req[c].host = None
    /\ ~Behind(req[c].gw)
    /\ req[c].ask.op = op

\* the check would now refuse the request, or find other keys
Outdated(q) ==
    LET r == gw[q.gw]
    IN  \/ Refused(r, local[q.gw].st, q.ask)
        \/ q.ask.op \in {"add", "hostkey"} /\ (q.ctrl # r.key \/ q.psk # FoundPsk(r, q.ask))
        \/ /\ q.host # None
           /\ \/ r.hosts[q.host] = None
              \/ r.hosts[q.host] # [psk |-> q.psk, key |-> q.ask.key, ctrl |-> r.hosts[q.host].ctrl]
              \/ q.ctrl # r.key

Write(g, new) ==
    /\ omap' = new
    /\ version' = version + 1
    /\ local' = [local EXCEPT ![g] = [ver |-> version + 1, st |-> new]]

\* The request's effect r on its gateway, and what it writes.
Succeeds(c, r, new) ==
    LET g == req[c].gw
    IN  /\ gw' = [gw EXCEPT ![g] = r]
        /\ Write(g, new)
        /\ troubled' = [troubled EXCEPT ![g] = @ \/ Outdated(req[c])]
        /\ UNCHANGED <<update, budgetVars>>

\* A call or a write fails: the gateway is left as r, the OMAP as it is.
Breaks(c, r) ==
    LET g == req[c].gw
    IN  /\ faults < MaxFaults
        /\ faults' = faults + 1
        /\ gw' = [gw EXCEPT ![g] = r]
        /\ troubled' = [troubled EXCEPT ![g] = TRUE]
        /\ Answer(c)
        /\ UNCHANGED <<omapVars, local, update, requests, crashes>>

\* an error before anything is changed
Fails(c) ==
    /\ Answer(c)
    /\ UNCHANGED <<omapVars, local, gw, update, budgetVars, troubled>>

Effect(c, r, new) == (Succeeds(c, r, new) /\ Answer(c)) \/ Breaks(c, r)

\* SPDK's error does not keep a removal from the OMAP
Removal(c, can, r, new) ==
    LET g == req[c].gw
    IN  \/ can /\ Effect(c, r, new)
        \/ ~can /\ Succeeds(c, gw[g], new) /\ Answer(c)
        \/ /\ can /\ faults < MaxFaults
           /\ faults' = faults + 1
           /\ Write(g, new)
           /\ troubled' = [troubled EXCEPT ![g] = TRUE]
           /\ Answer(c)
           /\ UNCHANGED <<gw, update, requests, crashes>>

CreateSubsystem(c) ==
    LET q == req[c]
        r == gw[q.gw]
        inst == IF q.ask.serial = None THEN q.inst ELSE q.ask.serial
    IN  /\ Locked(c, "create")
        /\ \/ r.sub # None /\ Fails(c)
           \/ /\ r.sub = None
              /\ Effect(c, Created(r, inst, q.ask.key),
                        [omap EXCEPT !.sub = [inst |-> inst, key |-> q.ask.key]])

DeleteSubsystem(c) ==
    LET r == gw[req[c].gw]
    IN  /\ Locked(c, "delete")
        /\ Removal(c, r.sub # None, NewGateway, EmptyContent)

AddHost(c) ==
    LET q == req[c]
        r == gw[q.gw]
        h == q.ask.host
    IN  /\ Locked(c, "add")
        /\ \/ SpdkRefuses(r, h) /\ Fails(c)
           \/ /\ ~SpdkRefuses(r, h)
              /\ Effect(c, Allowed(r, h, q.ask.psk, q.ask.key, q.ctrl),
                        [omap EXCEPT !.hosts[h] = [psk |-> q.ask.psk, key |-> q.ask.key]])

RemoveHost(c) ==
    LET q == req[c]
        r == gw[q.gw]
        h == q.ask.host
    IN  /\ Locked(c, "remove")
        /\ \/ h # Star /\ r.hosts[h] = None /\ Fails(c)
           \/ /\ h = Star \/ r.hosts[h] # None
              /\ Removal(c, r.sub # None, Disallowed(r, h), [omap EXCEPT !.hosts[h] = None])

\* SPDK knows the host whose key is to be changed
SpdkHas(r, h) == r.hosts[h] # None

ChangeHostKey(c) ==
    LET q == req[c]
        r == gw[q.gw]
        h == q.ask.host
    IN  /\ Locked(c, "hostkey")
        /\ \/ ~SpdkHas(r, h) /\ Fails(c)
           \/ /\ SpdkHas(r, h)
              /\ Effect(c, WithKey(r, h, q.ask.key, q.ctrl),
                        [omap EXCEPT !.hosts[h] = [psk |-> q.psk, key |-> q.ask.key]])

(***************************************************************************)
(* change_subsystem_key: with the lock the subsystem's entry, and then,    *)
(* host by host and each time with the lock anew, what change_host_key     *)
(* does.                                                                   *)
(***************************************************************************)
\* The next host, of a gateway r with local state st; a host whose check
\* refuses it is passed over, now or when its turn comes.
NextHost(q, r, st) ==
    LET left == {h \in Hosts : q.todo[h] # NoKey}
        fit == {h \in left : st.hosts[h] # None}
    IN  IF fit = {} THEN {None}
        ELSE {[q EXCEPT !.waiting = TRUE, !.host = h, !.ctrl = r.key,
                        !.psk = IF r.hosts[h] = None THEN NoKey ELSE r.hosts[h].psk,
                        !.todo = [k \in Hosts |-> IF k = h \/ k \in passed THEN NoKey ELSE @[k]],
                        !.ask.key = q.todo[h]]
              : h \in fit, passed \in SUBSET (left \ fit)}

KeylessHosts(r, st) == {h \in HostKeys : st.hosts[h] # None /\ h \notin Keyed(r)}

ChangeSubsystemKey(c) ==
    LET q == req[c]
        g == q.gw
        r == gw[g]
        key == q.ask.key
        st == local[g].st
        new == [omap EXCEPT !.sub = [inst |-> st.sub.inst, key |-> key]]
        barred == key # NoKey /\ KeylessHosts(r, st) # {}
        todo == [h \in Hosts |-> IF h \in Keyed(r) THEN r.hosts[h].key ELSE NoKey]
    IN  /\ Locked(c, "subkey")
        /\ \/ (st.sub = None \/ barred) /\ Fails(c)
           \/ /\ st.sub # None /\ ~barred
              /\ \/ /\ Succeeds(c, [r EXCEPT !.key = key], new)
                    /\ \E next \in NextHost([q EXCEPT !.todo = todo], [r EXCEPT !.key = key], new) :
                          req' = [req EXCEPT ![c] = next]
                 \/ Breaks(c, r)

\* A host keeps its entry, whatever has happened to n, its gateway's SPDK.
PassesOver(c, n) ==
    LET g == req[c].gw
    IN  /\ \E next \in NextHost(req[c], n, local[g].st) : req' = [req EXCEPT ![c] = next]
        /\ gw' = [gw EXCEPT ![g] = n]
        /\ troubled' = [troubled EXCEPT ![g] = TRUE]
        /\ UNCHANGED <<omapVars, local, update, requests, crashes>>

\* The host's turn.  Its errors are ignored: EAGAIN, a host SPDK does not have,
\* a call that fails before SPDK has the key or a write that fails after it.
ChangeKeyOfHost(c) ==
    LET q == req[c]
        g == q.gw
        r == gw[g]
        h == q.host
        after == WithKey(r, h, q.ask.key, q.ctrl)
        new == [omap EXCEPT !.hosts[h] = [psk |-> q.psk, key |-> q.ask.key]]
    IN  /\ q # None /\ q.host # None
        /\ \/ /\ Behind(g) \/ ~SpdkHas(r, h)
              /\ PassesOver(c, r) /\ UNCHANGED faults
           \/ /\ ~Behind(g) /\ SpdkHas(r, h)
              /\ Succeeds(c, after, new)
              /\ \E next \in NextHost(q, after, new) : req' = [req EXCEPT ![c] = next]
           \/ /\ ~Behind(g) /\ SpdkHas(r, h)
              /\ faults < MaxFaults /\ faults' = faults + 1
              /\ \E n \in {r, after} : PassesOver(c, n)

UpdateStep(g) ==
    \/ StartUpdate(g) \/ UpdateRemoveHost(g) \/ UpdateDrop(g) \/ UpdateCreate(g)
    \/ UpdateAddHost(g) \/ UpdateSubsystemKey(g) \/ UpdateHostKey(g) \/ UpdateEnd(g)

AccessNext ==
    \/ \E c \in Clients :
          \/ Ask(c) \/ Check(c) \/ Retry(c)
          \/ CreateSubsystem(c) \/ DeleteSubsystem(c) \/ AddHost(c) \/ RemoveHost(c)
          \/ ChangeHostKey(c) \/ ChangeSubsystemKey(c) \/ ChangeKeyOfHost(c)
    \/ \E g \in Gateways : UpdateStep(g) \/ Crash(g)

AccessSpec == AccessInit /\ [][AccessNext]_accessVars

(***************************************************************************)
(* Properties                                                              *)
(***************************************************************************)
AtRest ==
    /\ \A c \in Clients : req[c] = None
    /\ \A g \in Gateways : ~Behind(g) /\ update[g] = None

\* When all is answered and the gateways are up to date, each gateway lets
\* in the hosts of the OMAP with their keys and, for those with a key, the
\* subsystem's: unless the process met a fault or an outdated check, or its
\* update() was refused a call or left something out (add_host,
\* change_host_key and change_subsystem_key at one gateway, the special cases
\* of update() at the other).
AccessFollowsAtRest ==
    AtRest => \A g \in Gateways : ~troubled[g] => gw[g] = Serving(omap)

\* the requests that hold the OMAP lock
HasLock(c) ==
    \/ CreateSubsystem(c) \/ DeleteSubsystem(c) \/ AddHost(c) \/ RemoveHost(c)
    \/ ChangeHostKey(c) \/ ChangeSubsystemKey(c) \/ ChangeKeyOfHost(c)

\* A request goes on with the lock although its check would fail by then, or
\* at a gateway that had gone wrong before.
Overtaken(c) == HasLock(c) /\ (troubled[req[c].gw] \/ Outdated(req[c]))

HasKeylessHost(st) ==
    /\ st.sub # None /\ st.sub.key # NoKey
    /\ \E h \in HostKeys : st.hosts[h] # None /\ st.hosts[h].key = NoKey

\* A subsystem with a key comes to have a host without one, or to be open to
\* any host ("Host must have a DH-HMAC-CHAP key if the subsystem has one"), in
\* one way only: a request is overtaken while it waits for the lock, or made
\* at a gateway that has gone wrong.  Nothing else in the group leads there,
\* whatever another gateway has written before.
KeyedSubsystems ==
    [][HasKeylessHost(omap') /\ ~HasKeylessHost(omap) =>
          \E c \in Clients : Overtaken(c)]_accessVars

HostCount(st) == Cardinality({h \in Hosts : st.hosts[h] # None})

\* The hosts of the subsystem come to be more than max_hosts_per_subsystem, or
\* more still, in that way only, at whichever gateways they are added: each
\* counts the hosts of its own table.
HostsAreLimited ==
    [][HostCount(omap') > MaxHosts /\ HostCount(omap') > HostCount(omap) =>
          \E c \in Clients : Overtaken(c)]_accessVars

\* A change of keys does not bring a host back that was removed while the
\* request waited for the lock: SPDK refuses to set the keys of a host it
\* does not have (change_host_key writes the host's whole entry).
RemovedHostsStayOut ==
    [][\A c \in Clients :
          (ChangeHostKey(c) \/ ChangeKeyOfHost(c)) /\ ~troubled[req[c].gw] =>
              \A h \in Hosts : omap.hosts[h] = None => omap'.hosts[h] = None]_accessVars

\* After a change of the subsystem's key every host is authenticated with
\* the new one, when nothing has failed (change_subsystem_key).
OneControllerKey ==
    AtRest /\ faults = 0 /\ crashes = 0 /\ omap.sub # None =>
        \A g \in Gateways : \A h \in Keyed(gw[g]) : gw[g].hosts[h].ctrl = omap.sub.key

\* A change of the subsystem's key leaves the hosts' own keys as they are.
HostKeysAreKept ==
    [][\A c \in Clients : ChangeKeyOfHost(c) =>
          \A h \in Hosts : omap.hosts[h] # None /\ omap'.hosts[h] # None =>
              omap'.hosts[h].key = omap.hosts[h].key]_accessVars

=============================================================================

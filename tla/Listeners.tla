------------------------------ MODULE Listeners ------------------------------
(***************************************************************************)
(* The listeners of a subsystem and the ANA states the monitor gives to    *)
(* them (control/grpc.py).  Each gateway listens at addresses of its own   *)
(* host; one for another host may be stashed for it.  A subsystem with a   *)
(* secure listener is not open to any host.                                *)
(*                                                                         *)
(* As in NamespaceEntries a request is checked, waits for the OMAP lock    *)
(* with rpc_lock free, and does the rest in one step.                      *)
(***************************************************************************)
EXTENDS Integers, FiniteSets

CONSTANTS
    Gateways,     \* a gateway stands for its host, too
    Clients,      \* gRPC calls under way at the same time
    Addrs,        \* addresses with their ports
    Ipv6,         \* those that are IPv6
    Groups,       \* ANA groups
    LowGroups,    \* those numbered up to the subsystem's max_namespaces
    Asks,         \* what the clients ask for
    Starts,       \* what the OMAP may hold in the beginning
    MaxRequests,  \* bound: requests
    MaxAnas,      \* bound: ANA states from the monitor
    MaxMishaps,   \* bound: OMAP writes and SPDK calls that fail, processes that end
    Star,         \* all hosts
    None

AllAsks ==
    [op : {"create", "delete", "open", "close"}]
    \cup [op : {"listen"}, host : Gateways, addr : Addrs, secure : BOOLEAN, verify : BOOLEAN]
    \cup [op : {"unlisten"}, host : Gateways \cup {Star}, addr : Addrs, force : BOOLEAN]

ASSUME ListenerAddrs == Ipv6 \subseteq Addrs
ASSUME ListenerGroups == LowGroups \subseteq Groups
ASSUME ListenerAsks == Asks \subseteq AllAsks
ASSUME ListenerBounds ==
    MaxRequests \in Nat /\ MaxAnas \in Nat /\ MaxMishaps \in Nat

VARIABLES
    omap,       \* the subsystem, whether it is open to any host, its listeners
    version,
    local,      \* each gateway's local state and its version
    gw,         \* each gateway's SPDK and tables
    update,     \* what is left to do of a gateway's update()
    req,        \* each client's request
    requests, anas, faults, crashes,
    troubled,   \* history: a call failed or was refused, or a check was outdated
    outdated    \* history: such a gateway, or an outdated check, wrote to the OMAP

omapVars == <<omap, version>>
budgetVars == <<requests, anas, faults, crashes>>
historyVars == <<troubled, outdated>>
listenerVars == <<omapVars, local, gw, update, req, budgetVars, historyVars>>

AnaStates == {"optimized", "inaccessible"}
Insts == 0..MaxRequests
NoListeners == [a \in Addrs |-> None]

\* a listener's entry says whether it is secure
Contents ==
    [sub : Insts \cup {None}, any : BOOLEAN,
     lst : [Gateways -> [Addrs -> BOOLEAN \cup {None}]]]
EmptyContent ==
    [sub |-> None, any |-> FALSE, lst |-> [g \in Gateways |-> NoListeners]]

\* list is subsystem_listeners, spdk the ANA states of SPDK's listeners, secure
\* those with a secure channel, ana the ana_map, latest the groups whose
\* clusters have had the latest OSD map since the group was to become
\* optimized; history: missed has SPDK's listeners that an ANA call failed for
\* or that delete_listener took off the list
GatewayStates ==
    [sub : Insts \cup {None}, any : BOOLEAN,
     list : SUBSET [addr : Addrs, secure : BOOLEAN, active : BOOLEAN],
     spdk : [Addrs -> [Groups -> AnaStates] \cup {None}], secure : SUBSET Addrs,
     ana : [Groups -> AnaStates \cup {None}], latest : SUBSET Groups,
     missed : SUBSET Addrs]
NewGateway ==
    [sub |-> None, any |-> FALSE, list |-> {}, spdk |-> NoListeners, secure |-> {},
     ana |-> [p \in Groups |-> None], latest |-> {}, missed |-> {}]

Requests == [gw : Gateways, ask : AllAsks, inst : Insts, waiting : BOOLEAN]
Calls == SUBSET {"subsystem"}
Updates ==
    [ver : Nat, st : Contents, dellst : SUBSET Addrs, delany : Calls, drop : Calls,
     add : Calls, addany : Calls, addlst : SUBSET Addrs]

ASSUME ListenerNone ==
    /\ None \notin Insts /\ None \notin BOOLEAN /\ None \notin [Groups -> AnaStates]
    /\ None \notin Requests /\ None \notin Updates
\* The requests leave nothing of a subsystem that is not there, and do not
\* both open a subsystem to any host and give it a secure listener.
ASSUME ListenerStarts ==
    /\ Starts \subseteq Contents
    /\ \A st \in Starts :
          /\ st.sub = None => st = EmptyContent
          /\ st.any => \A g \in Gateways, a \in Addrs : st.lst[g][a] # TRUE

ListenerTypeOK ==
    /\ omap \in Contents
    /\ version \in Nat
    /\ local \in [Gateways -> [ver : Nat, st : Contents]]
    /\ gw \in [Gateways -> GatewayStates]
    /\ update \in [Gateways -> Updates \cup {None}]
    /\ req \in [Clients -> Requests \cup {None}]
    /\ requests \in Nat /\ anas \in Nat /\ faults \in Nat /\ crashes \in Nat
    /\ troubled \in [Gateways -> BOOLEAN] /\ outdated \in BOOLEAN

(***************************************************************************)
(* What the calls do to a gateway r                                        *)
(***************************************************************************)
AtAddr(r, a) == {l \in r.list : l.addr = a}
IsActive(r, a) == \E l \in AtAddr(r, a) : l.active

\* delete_listener looks for the entries without a secure channel first, and
\* of these for the stashed ones: whether the first it finds is active
Before(k, l) == (~k.secure /\ l.secure) \/ (k.secure = l.secure /\ ~k.active /\ l.active)
FindsActive(r, a) ==
    \E l \in AtAddr(r, a) : l.active /\ \A k \in AtAddr(r, a) : ~Before(k, l)
HasSecure(r) == \E l \in r.list : l.secure

Created(r, inst) == [r EXCEPT !.sub = inst]

\* the ANA map outlives the subsystem
Deleted(r) ==
    [r EXCEPT !.sub = None, !.any = FALSE, !.list = {},
              !.spdk = NoListeners, !.secure = {}, !.missed = {}]

\* all groups inaccessible, then those of the ANA map that are optimized, up
\* to the subsystem's max_namespaces
AllInaccessible(r) == [p \in Groups |-> "inaccessible"] \* a mutation
FirstAnaAsTold(r) == r.ana \* a mutation
FirstAna(r) ==
    [p \in Groups |-> IF p \in LowGroups /\ r.ana[p] = "optimized"
                      THEN "optimized" ELSE "inaccessible"]

Stashed(r, a, secure) ==
    [r EXCEPT !.list = @ \cup {[addr |-> a, secure |-> secure, active |-> FALSE]}]
Listening(r, a, secure, ana) ==
    [r EXCEPT !.list = @ \cup {[addr |-> a, secure |-> secure, active |-> TRUE]},
              !.spdk[a] = ana,
              !.secure = IF secure THEN @ \cup {a} ELSE @ \ {a}]
Unset(r, a) == [r EXCEPT !.missed = @ \cup {a}]

\* The entries go, and SPDK's listener does if the first of them is active.
Unlisted(r, a) ==
    [r EXCEPT !.list = @ \ AtAddr(r, a),
              !.missed = IF r.spdk[a] = None THEN @ ELSE @ \cup {a}]
SilentStillListed(r, a) == [r EXCEPT !.spdk[a] = None, !.secure = @ \ {a}] \* a mutation
Silent(r, a) ==
    [r EXCEPT !.list = @ \ AtAddr(r, a), !.spdk[a] = None,
              !.secure = @ \ {a}, !.missed = @ \ {a}]
Removed(r, a) == IF FindsActive(r, a) THEN Silent(r, a) ELSE Unlisted(r, a)
Stays(r, a) == r.spdk[a] # None /\ ~FindsActive(r, a)

\* SPDK does not know the subsystem, or listens there
SpdkRefuses(r, a) == r.sub = None \/ r.spdk[a] # None

(***************************************************************************)
(* The checks before the OMAP lock                                         *)
(***************************************************************************)
NoListening(r, secure) == r.sub = None \/ (secure /\ r.any)
NoOpeningWithoutLook(r) == r.sub = None \* a mutation
NoOpening(r) == r.sub = None \/ HasSecure(r)

Refused(r, st, ask) ==
    \/ ask.op = "listen" /\ NoListening(r, ask.secure)
    \/ ask.op = "unlisten" /\ ask.host = Star /\ ~ask.force
    \/ ask.op = "open" /\ (NoOpening(r) \/ st.any)

(***************************************************************************)
(* The group starts with what another run has left, the same everywhere.   *)
(***************************************************************************)
Serving(g, st) ==
    LET at == {a \in Addrs : st.lst[g][a] # None}
    IN  [NewGateway EXCEPT
            !.sub = st.sub, !.any = st.any,
            !.list = {[addr |-> a, secure |-> st.lst[g][a], active |-> TRUE] : a \in at},
            !.spdk = [a \in Addrs |-> IF a \in at THEN FirstAna(NewGateway) ELSE None],
            !.secure = {a \in at : st.lst[g][a]}]

ListenerInit ==
    /\ omap \in Starts
    /\ version = 2
    /\ local = [g \in Gateways |-> [ver |-> 2, st |-> omap]]
    /\ gw = [g \in Gateways |-> Serving(g, omap)]
    /\ update = [g \in Gateways |-> None]
    /\ req = [c \in Clients |-> None]
    /\ requests = 0 /\ anas = 0 /\ faults = 0 /\ crashes = 0
    /\ troubled = [g \in Gateways |-> FALSE] /\ outdated = FALSE

\* A process ends, SPDK with it, and starts again from nothing.
Crash(g) ==
    /\ faults + crashes < MaxMishaps
    /\ crashes' = crashes + 1
    /\ gw' = [gw EXCEPT ![g] = NewGateway]
    /\ local' = [local EXCEPT ![g] = [ver |-> 1, st |-> EmptyContent]]
    /\ update' = [update EXCEPT ![g] = None]
    /\ req' = [c \in Clients |-> IF req[c] # None /\ req[c].gw = g THEN None ELSE req[c]]
    /\ troubled' = [troubled EXCEPT ![g] = FALSE]
    /\ UNCHANGED <<omapVars, requests, anas, faults, outdated>>

(***************************************************************************)
(* set_ana_state, from the monitor                                         *)
(***************************************************************************)
\* what the monitor says becomes the gateway's map, subsystem or not
Told(r, said) ==
    [r EXCEPT !.ana = said, !.latest = @ \ {p \in Groups : said[p] # "optimized"}]

\* Listener by listener and group by group; a group is optimized once its
\* clusters have the latest OSD map.
Set(r, said, at, awaited) ==
    [Told(r, said) EXCEPT
        !.spdk = [a \in Addrs |-> IF a \in at THEN said ELSE @[a]],
        !.latest = @ \cup {p \in Groups : awaited /\ said[p] = "optimized"},
        !.missed = @ \ at]

\* the same up to some groups of one of the listeners left
Stopped(r, said, at, left, b, part, awaited) ==
    [Set(r, said, at, awaited) EXCEPT
        !.spdk[b] = [p \in Groups |-> IF p \in part THEN said[p] ELSE r.spdk[b][p]],
        !.missed = @ \cup left]

SetAnaState(g) ==
    /\ anas < MaxAnas
    /\ anas' = anas + 1
    /\ \E said \in [Groups -> AnaStates] :
          LET r == gw[g]
              active == {a \in Addrs : IsActive(r, a)}
          IN  \/ /\ gw' = [gw EXCEPT ![g] = IF r.sub = None THEN Told(r, said)
                                            ELSE Set(r, said, active, r.list # {})]
                 /\ UNCHANGED <<faults, troubled>>
              \/ \* a call fails, the listeners left are not reached
                 /\ r.sub # None /\ active # {} /\ faults + crashes < MaxMishaps
                 /\ faults' = faults + 1
                 /\ troubled' = [troubled EXCEPT ![g] = TRUE]
                 /\ \E reached \in SUBSET active, b \in active, part \in SUBSET Groups,
                       awaited \in BOOLEAN :
                       /\ b \notin reached
                       /\ reached # {} \/ (\E p \in part : said[p] = "optimized") => awaited
                       /\ gw' = [gw EXCEPT ![g] =
                             Stopped(r, said, reached, active \ reached, b, part, awaited)]
    /\ UNCHANGED <<omapVars, local, update, req, requests, crashes, outdated>>

(***************************************************************************)
(* update()                                                                *)
(***************************************************************************)
Behind(g) == local[g].ver < version

\* the keys of a prefix to remove or to add: the changed ones, if there are any
Grouped(keys, changed) == IF changed = {} THEN keys ELSE changed
CallIf(wanted) == IF wanted THEN {"subsystem"} ELSE {}
Entries(st) == {e \in Gateways \X Addrs : st.lst[e[1]][e[2]] # None}

\* The calls for g; those for another host's listeners change nothing.
Plan(g, old, new) ==
    LET changed == {e \in Entries(old) \cap Entries(new) :
                        old.lst[e[1]][e[2]] # new.lst[e[1]][e[2]]}
        own(es) == {a \in Addrs : <<g, a>> \in es}
        readd == old.sub # None /\ new.sub # None /\ old.sub # new.sub
    IN  [dellst |-> own(Grouped(Entries(old) \ Entries(new), changed)),
         delany |-> CallIf(old.any /\ ~new.any),
         drop |-> CallIf(readd \/ (old.sub # None /\ new.sub = None)),
         add |-> CallIf(readd \/ (old.sub = None /\ new.sub # None)),
         addany |-> CallIf(~old.any /\ new.any),
         addlst |-> own(Grouped(Entries(new) \ Entries(old), changed)),
         readd |-> readd, changed |-> changed]

\* listeners next to changed ones, and what stays the same of a subsystem
\* that is created again
LeavesOut(p, old, new) ==
    \/ p.changed # {} /\ Entries(old) # Entries(new)
    \/ p.readd /\ (Entries(old) \cap Entries(new) # {} \/ (old.any /\ new.any))

StartUpdate(g) ==
    LET p == Plan(g, local[g].st, omap)
    IN  /\ Behind(g)
        /\ update[g] = None
        /\ update' = [update EXCEPT ![g] =
              [ver |-> version, st |-> omap, dellst |-> p.dellst, delany |-> p.delany,
               drop |-> p.drop, add |-> p.add, addany |-> p.addany, addlst |-> p.addlst]]
        /\ troubled' = [troubled EXCEPT ![g] = @ \/ LeavesOut(p, local[g].st, omap)]
        /\ UNCHANGED <<omapVars, local, gw, req, budgetVars, outdated>>

\* the RPCs in their order, without the OMAP lock; their errors are ignored
Kinds == <<"dellst", "delany", "drop", "add", "addany", "addlst">>
Reached(g, n) == update[g] # None /\ \A k \in 1..(n - 1) : update[g][Kinds[k]] = {}

Leaves(g, trouble, r) ==
    /\ gw' = [gw EXCEPT ![g] = r]
    /\ troubled' = [troubled EXCEPT ![g] = @ \/ trouble]
    /\ UNCHANGED <<omapVars, local, req, budgetVars, outdated>>
Does(g, refused, r) == Leaves(g, refused, IF refused THEN gw[g] ELSE r)

\* delete_listener without force, which connections at the address refuse
UpdateDeleteListener(g) ==
    /\ Reached(g, 1)
    /\ \E a \in update[g].dellst :
          LET r == gw[g]
          IN  /\ update' = [update EXCEPT ![g].dellst = @ \ {a}]
              /\ \/ AtAddr(r, a) = {} /\ Leaves(g, TRUE, r)
                 \/ AtAddr(r, a) # {} /\ Leaves(g, Stays(r, a), Removed(r, a))
                 \/ r.spdk[a] # None /\ Leaves(g, TRUE, r)

UpdateClose(g) ==
    /\ Reached(g, 2) /\ update[g].delany # {}
    /\ update' = [update EXCEPT ![g].delany = {}]
    /\ Does(g, gw[g].sub = None, [gw[g] EXCEPT !.any = FALSE])

UpdateDrop(g) ==
    /\ Reached(g, 3) /\ update[g].drop # {}
    /\ update' = [update EXCEPT ![g].drop = {}]
    /\ Does(g, gw[g].sub = None, Deleted(gw[g]))

UpdateCreate(g) ==
    /\ Reached(g, 4) /\ update[g].add # {}
    /\ update' = [update EXCEPT ![g].add = {}]
    /\ Does(g, gw[g].sub # None, Created(gw[g], update[g].st.sub))

UpdateOpen(g) ==
    /\ Reached(g, 5) /\ update[g].addany # {}
    /\ update' = [update EXCEPT ![g].addany = {}]
    /\ Does(g, NoOpening(gw[g]), [gw[g] EXCEPT !.any = TRUE])

UpdateCreateListener(g) ==
    /\ Reached(g, 6)
    /\ \E a \in update[g].addlst :
          LET r == gw[g]
              secure == update[g].st.lst[g][a]
          IN  /\ update' = [update EXCEPT ![g].addlst = @ \ {a}]
              /\ Does(g, NoListening(r, secure) \/ AtAddr(r, a) # {} \/ SpdkRefuses(r, a),
                      Listening(r, a, secure, FirstAna(r)))

UpdateEnd(g) ==
    /\ Reached(g, 7)
    /\ local' = [local EXCEPT ![g] = [ver |-> update[g].ver, st |-> update[g].st]]
    /\ update' = [update EXCEPT ![g] = None]
    /\ UNCHANGED <<omapVars, gw, req, budgetVars, historyVars>>

(***************************************************************************)
(* A client's request, up to the OMAP lock                                 *)
(***************************************************************************)
Ask(c) ==
    /\ req[c] = None
    /\ requests < MaxRequests
    /\ requests' = requests + 1
    /\ \E g \in Gateways, ask \in Asks :
          req' = [req EXCEPT ![c] =
              [gw |-> g, ask |-> ask, inst |-> requests', waiting |-> FALSE]]
    /\ UNCHANGED <<omapVars, local, gw, update, anas, faults, crashes, historyVars>>

Answer(c) == req' = [req EXCEPT ![c] = None]

\* Without force a deletion is refused when hosts are connected there.
Check(c) ==
    /\ req[c] # None /\ ~req[c].waiting
    /\ LET q == req[c]
           r == gw[q.gw]
       IN  \/ Refused(r, local[q.gw].st, q.ask) /\ Answer(c)
           \/ /\ q.ask.op = "unlisten" /\ ~q.ask.force /\ r.spdk[q.ask.addr] # None
              /\ Answer(c)
           \/ /\ ~Refused(r, local[q.gw].st, q.ask)
              /\ req' = [req EXCEPT ![c].waiting = TRUE]
    /\ UNCHANGED <<omapVars, local, gw, update, budgetVars, historyVars>>

\* verify_versions raises EAGAIN: the function is called again
Retry(c) ==
    /\ req[c] # None /\ req[c].waiting
    /\ Behind(req[c].gw)
    /\ req' = [req EXCEPT ![c].waiting = FALSE]
    /\ UNCHANGED <<omapVars, local, gw, update, budgetVars, historyVars>>

(***************************************************************************)
(* With the OMAP lock, at a gateway that is not behind                     *)
(***************************************************************************)
LockedAtAnyVersion(c, op) == \* a mutation
    req[c] # None /\ req[c].waiting /\ req[c].ask.op = op
Locked(c, op) ==
    /\ req[c] # None /\ req[c].waiting
    /\ ~Behind(req[c].gw)
    /\ req[c].ask.op = op

Outdated(q) == Refused(gw[q.gw], local[q.gw].st, q.ask)

Write(g, new, adds) ==
    LET ver == IF adds \/ new # omap THEN version + 1 ELSE version
    IN  /\ omap' = new
        /\ version' = ver
        /\ local' = [local EXCEPT ![g] = [ver |-> ver, st |-> new]]

\* a key is written even if it is there, but not removed unless it is
Adds(q) == q.ask.op \in {"create", "open", "listen"}

\* the request's effect r on its gateway, and what it writes
Succeeds(c, mixed, r, new) ==
    LET g == req[c].gw
    IN  /\ gw' = [gw EXCEPT ![g] = r]
        /\ Write(g, new, Adds(req[c]))
        /\ troubled' = [troubled EXCEPT ![g] = @ \/ mixed \/ Outdated(req[c])]
        /\ outdated' = (outdated \/ (new # omap /\ (troubled[g] \/ Outdated(req[c]))))
        /\ Answer(c)
        /\ UNCHANGED <<update, budgetVars>>

\* A call or a write fails: the gateway is left as one of left, the OMAP as new.
Breaks(c, left, new) ==
    LET g == req[c].gw
    IN  /\ faults + crashes < MaxMishaps
        /\ faults' = faults + 1
        /\ \E r \in left : gw' = [gw EXCEPT ![g] = r]
        /\ troubled' = [troubled EXCEPT ![g] = TRUE]
        /\ Write(g, new, FALSE)
        /\ outdated' = (outdated \/ (new # omap /\ (troubled[g] \/ Outdated(req[c]))))
        /\ Answer(c)
        /\ UNCHANGED <<update, requests, anas, crashes>>

\* an error before anything is changed
Fails(c) ==
    /\ Answer(c)
    /\ UNCHANGED <<omapVars, local, gw, update, budgetVars, historyVars>>

CreateSubsystem(c) ==
    LET r == gw[req[c].gw]
        after == Created(r, req[c].inst)
        new == [omap EXCEPT !.sub = req[c].inst]
    IN  /\ Locked(c, "create")
        /\ \/ r.sub # None /\ Fails(c)
           \/ r.sub = None /\ (Succeeds(c, FALSE, after, new) \/ Breaks(c, {r, after}, omap))

\* SPDK's error does not keep a removal from the OMAP
DeleteSubsystem(c) ==
    LET r == gw[req[c].gw]
    IN  /\ Locked(c, "delete")
        /\ \/ r.sub = None /\ Succeeds(c, FALSE, r, EmptyContent)
           \/ r.sub # None /\ Succeeds(c, FALSE, Deleted(r), EmptyContent)
           \/ r.sub # None /\ Breaks(c, {r}, EmptyContent)
           \/ r.sub # None /\ Breaks(c, {Deleted(r)}, omap)

\* add_host and remove_host for "*"
OpenToAny(c) ==
    LET r == gw[req[c].gw]
        after == [r EXCEPT !.any = TRUE]
    IN  /\ Locked(c, "open")
        /\ \/ r.sub = None /\ Fails(c)
           \/ /\ r.sub # None
              /\ \/ Succeeds(c, FALSE, after, [omap EXCEPT !.any = TRUE])
                 \/ Breaks(c, {r, after}, omap)

CloseToAny(c) ==
    LET r == gw[req[c].gw]
        new == [omap EXCEPT !.any = FALSE]
    IN  /\ Locked(c, "close")
        /\ \/ r.sub = None /\ Succeeds(c, FALSE, r, new)
           \/ r.sub # None /\ Succeeds(c, FALSE, [r EXCEPT !.any = FALSE], new)
           \/ r.sub # None /\ Breaks(c, {r}, new)
           \/ r.sub # None /\ Breaks(c, {[r EXCEPT !.any = FALSE]}, omap)

\* A listener of the gateway's own host is created, one of another host
\* stashed.  If its ANA states cannot be set it stays, listed and without a key
\* in the OMAP, as far as they are set; SPDK begins with all groups optimized.
CreateListener(c) ==
    LET q == req[c]
        g == q.gw
        r == gw[g]
        a == q.ask.addr
        own == q.ask.host = g
        after == Listening(r, a, q.ask.secure, FirstAna(r))
        begun == {[p \in Groups |-> IF p \in set THEN FirstAna(r)[p] ELSE "inaccessible"]
                  : set \in SUBSET Groups} \cup {[p \in Groups |-> "optimized"]}
        broken == {Unset(Listening(r, a, q.ask.secure, ana), a) : ana \in begun}
        new == [omap EXCEPT !.lst[q.ask.host][a] = q.ask.secure]
    IN  /\ Locked(c, "listen")
        /\ \/ own /\ (AtAddr(r, a) # {} \/ SpdkRefuses(r, a)) /\ Fails(c)
           \/ ~own /\ q.ask.verify /\ Fails(c)
           \/ /\ own /\ AtAddr(r, a) = {} /\ ~SpdkRefuses(r, a)
              /\ Succeeds(c, FALSE, after, new) \/ Breaks(c, {r, after} \cup broken, omap)
           \/ /\ ~own /\ ~q.ask.verify
              /\ \/ Succeeds(c, FALSE, Stashed(r, a, q.ask.secure), new)
                 \/ Breaks(c, {Stashed(r, a, q.ask.secure)}, omap)

\* The keys of listeners at an IPv6 address hold it in brackets, and are
\* looked for without them.
WithoutListener(st, host, a) ==
    IF a \in Ipv6 THEN st
    ELSE [st EXCEPT !.lst = [g \in Gateways |->
              IF host \in {g, Star} THEN [@[g] EXCEPT ![a] = None] ELSE @[g]]]

\* With force the host need not be the gateway's: what it listens to or
\* stashed there goes, together with the entry of that host.  A stashed entry
\* at the same address may hide the active one from SPDK's deletion.
DeleteListener(c) ==
    LET q == req[c]
        g == q.gw
        r == gw[g]
        a == q.ask.addr
        new == WithoutListener(omap, q.ask.host, a)
        mixed == \/ a \in Ipv6
                 \/ IsActive(r, a) /\ q.ask.host \notin {g, Star}
                 \/ Stays(r, a)
    IN  /\ Locked(c, "unlisten")
        /\ \/ /\ AtAddr(r, a) = {} \/ (q.ask.host # g /\ ~q.ask.force)
              /\ Fails(c)
           \/ /\ AtAddr(r, a) # {}
              /\ q.ask.host = g \/ q.ask.force
              /\ \/ Succeeds(c, mixed, Removed(r, a), new)
                 \/ FindsActive(r, a) /\ Breaks(c, {r, Unlisted(r, a)}, new)
                 \/ Breaks(c, {Removed(r, a)}, omap)

UpdateStep(g) ==
    \/ StartUpdate(g) \/ UpdateDeleteListener(g) \/ UpdateClose(g) \/ UpdateDrop(g)
    \/ UpdateCreate(g) \/ UpdateOpen(g) \/ UpdateCreateListener(g) \/ UpdateEnd(g)

ListenerNext ==
    \/ \E c \in Clients :
          \/ Ask(c) \/ Check(c) \/ Retry(c)
          \/ CreateSubsystem(c) \/ DeleteSubsystem(c) \/ OpenToAny(c) \/ CloseToAny(c)
          \/ CreateListener(c) \/ DeleteListener(c)
    \/ \E g \in Gateways : SetAnaState(g) \/ UpdateStep(g) \/ Crash(g)

ListenerSpec == ListenerInit /\ [][ListenerNext]_listenerVars

(***************************************************************************)
(* Properties                                                              *)
(***************************************************************************)
AtRest ==
    /\ \A c \in Clients : req[c] = None
    /\ \A g \in Gateways : ~Behind(g) /\ update[g] = None

\* When all is answered and the gateways are up to date, SPDK at each gateway
\* listens exactly where the OMAP says its host does, with a secure channel
\* where it says so, the list has the same listeners, and the subsystem is
\* open to any host when the OMAP says so: unless one of the gateway's calls
\* failed, was refused in update(), rested on an outdated check or left a
\* listener in SPDK that it took off the list, or another gateway for which
\* that is so wrote to the OMAP (create_listener, delete_listener and
\* update(), which ignores the errors of its calls).
ListenersFollowAtRest ==
    AtRest /\ ~outdated => \A g \in Gateways : ~troubled[g] =>
        /\ gw[g].sub = omap.sub /\ gw[g].any = omap.any
        /\ \A a \in Addrs :
              /\ gw[g].spdk[a] # None <=> omap.lst[g][a] # None
              /\ a \in gw[g].secure <=> omap.lst[g][a] = TRUE
              /\ {l.secure : l \in {l \in AtAddr(gw[g], a) : l.active}} = {omap.lst[g][a]} \ {None}

\* set_ana_state, which goes by the list, reaches the listeners SPDK has,
\* whatever has failed, was refused or outdated, except those whose entry
\* delete_listener removed alone; and it calls SPDK for no other.
ListIsServed ==
    \A g \in Gateways, a \in Addrs :
        /\ IsActive(gw[g], a) => gw[g].spdk[a] # None
        /\ gw[g].spdk[a] # None /\ a \notin gw[g].missed => IsActive(gw[g], a)

\* A listener in SPDK is optimized in exactly the groups the monitor last made
\* optimized here, whether it was created before or after it was told and
\* whatever else has failed (set_ana_state and create_listener); only those
\* that an ANA call failed for, or that are not on the list any more, may lag,
\* and groups beyond max_namespaces until the monitor speaks again.
AnaFollowsTheMonitor ==
    \A g \in Gateways, a \in Addrs :
        gw[g].spdk[a] # None /\ a \notin gw[g].missed =>
            \A p \in Groups :
                /\ gw[g].spdk[a][p] = "optimized" => gw[g].ana[p] = "optimized"
                /\ p \in LowGroups /\ gw[g].ana[p] = "optimized" => gw[g].spdk[a][p] = "optimized"

OpenAndSecure(r) == r.any /\ r.secure # {}

\* SPDK comes to be open to any host and to listen with a secure channel in
\* one way only: create_listener or add_host goes on after its wait for the
\* lock although its check would fail by then, or there is a secure listener
\* that delete_listener took off the list and left in SPDK.  No update(),
\* failure or restart does it.
SecureIsClosed ==
    [][\A g \in Gateways :
          OpenAndSecure(gw'[g]) /\ ~OpenAndSecure(gw[g]) =>
              \/ \E a \in gw[g].secure : ~IsActive(gw[g], a)
              \/ \E c \in Clients : /\ CreateListener(c) \/ OpenToAny(c)
                                    /\ req[c].gw = g
                                    /\ Outdated(req[c])]_listenerVars

\* "Secure channel is only allowed for subsystems in which "allow any host" is
\* off" (create_listener_safe), at no time.
NeverOpenAndSecure == \A g \in Gateways : ~OpenAndSecure(gw[g])

\* delete_listener "deletes a listener from a subsystem at a given IP/Port":
\* when it succeeds for the gateway's own host SPDK does not listen there.
DeletedListenersAreSilent ==
    [][\A c \in Clients :
          DeleteListener(c) /\ faults' = faults /\ req[c].ask.host = req[c].gw
              /\ AtAddr(gw[req[c].gw], req[c].ask.addr) # {} =>
              gw'[req[c].gw].spdk[req[c].ask.addr] = None]_listenerVars

\* A listener becomes optimized only when the clusters of the group have had
\* the latest OSD map.
OptimizedAfterOsdMap ==
    \A g \in Gateways, a \in Addrs, p \in Groups :
        gw[g].spdk[a] # None =>
            (gw[g].spdk[a][p] = "optimized" => p \in gw[g].latest)

\* A listener that delete_listener has deleted has no entry any more.
DeletedListenersAreGone ==
    [][\A c \in Clients :
          DeleteListener(c) /\ gw'[req[c].gw] # gw[req[c].gw] /\ faults' = faults =>
              \A g \in Gateways :
                  req[c].ask.host \in {g, Star} => omap'.lst[g][req[c].ask.addr] = None]_listenerVars

=============================================================================

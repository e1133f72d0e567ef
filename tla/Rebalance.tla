----------------------------- MODULE Rebalance -----------------------------
(***************************************************************************)
(* Automatic load balancing (control/rebalance.py).  Gateway g owns load   *)
(* balancing (ANA) group g.  The rebalance thread of a gateway decides     *)
(* from its own counters which namespace goes to which group and then, in  *)
(* namespace_change_load_balancing_group_safe, waits for the OMAP lock;    *)
(* rpc_lock is free while it waits, so updates, other gateways' changes    *)
(* and the monitor come in between.  The OMAP lock and update() are        *)
(* modelled in OmapGroup; here a gateway is fresh or not, and one that is  *)
(* not updates before it writes.  Every command to the monitor may fail.   *)
(***************************************************************************)
EXTENDS Integers, FiniteSets

CONSTANTS
    NumGroups,
    Namespaces,
    Subsystems,
    Nqn,            \* the subsystem of each namespace
    Placed,         \* where namespaces are at the start; 0 for nowhere
    MaxRequests,    \* bound: user requests
    MaxScaling,     \* bound: gateways deleted or created
    None            \* no request, nothing decided

Groups == 1..NumGroups
Placement == [Namespaces -> Groups \cup {0}]

ASSUME GroupAssumption == NumGroups \in Nat \ {0}
ASSUME NamespaceAssumption == IsFiniteSet(Namespaces) /\ Nqn \in [Namespaces -> Subsystems]
ASSUME PlacedAssumption == Placed \in Placement
ASSUME RebalanceBounds == MaxRequests \in Nat /\ MaxScaling \in Nat

VARIABLES
    omap,       \* the group in each namespace's OMAP entry
    view,       \* the gateway's local copy; unless the gateway is in drifted,
                \* its list has these groups and its load counters count them
    fresh,      \* gateways whose local version is the OMAP's
    loaded,     \* the groups with an entry in the gateway's ana_grp_subs_load
    optimized,  \* the gateway's groups in state OPTIMIZED (ana_grp_state)
    pending,    \* the move the rebalance thread waits to make
    renewed,    \* <<gateway, namespace>>: deleted and added again since the
                \* gateway made the list entry that a move has found or can find
    drifted,    \* gateways that set the group of an entry their list had lost
    req,        \* the user's request that waits for the OMAP lock
    requests,   \* number of requests so far
    created,    \* the monitor: groups of the gateways that exist
    deleting,   \* the monitor: groups of deleted gateways that had namespaces
    worker,     \* the monitor: rebalance_ana_group
    scalings    \* number of gateways deleted or created so far

gatewayVars == <<view, fresh, loaded, pending, renewed, drifted>>
monitorVars == <<created, deleting, worker, optimized, scalings>>
rebalanceVars == <<omap, gatewayVars, req, requests, monitorVars>>

Moves == [kind : {"regular", "scale_down", "deadlock"}, ns : Namespaces, src : Groups, dst : Groups]
Requests == [kind : {"add", "del", "change"}, gw : Groups, ns : Namespaces, grp : Groups]

RebalanceTypeOK ==
    /\ omap \in Placement
    /\ view \in [Groups -> Placement]
    /\ fresh \subseteq created
    /\ loaded \in [Groups -> SUBSET Groups]
    /\ optimized \in [Groups -> SUBSET Groups]
    /\ pending \in [Groups -> Moves \cup {None}]
    /\ renewed \subseteq Groups \X Namespaces
    /\ drifted \subseteq Groups
    /\ req \in Requests \cup {None}
    /\ requests \in 0..MaxRequests
    /\ created \subseteq Groups /\ deleting \subseteq Groups \ created
    /\ worker \in created
    /\ scalings \in 0..MaxScaling

RebalanceInit ==
    /\ created \in SUBSET Groups
    /\ \A n \in Namespaces : Placed[n] \in created \cup {0}
    /\ omap = Placed
    /\ view = [g \in Groups |-> Placed]
    /\ fresh = created
    /\ loaded = [g \in Groups |-> IF g \in created THEN {Placed[n] : n \in Namespaces} \ {0} ELSE {}]
    /\ optimized = [g \in Groups |-> IF g \in created THEN {g} ELSE {}]
    /\ pending = [g \in Groups |-> None]
    /\ renewed = {} /\ drifted = {}
    /\ req = None
    /\ requests = 0
    /\ deleting = {}
    /\ worker \in created
    /\ scalings = 0

(***************************************************************************)
(* The load counters, of a gateway's list p                                *)
(***************************************************************************)
Load(p, a) == Cardinality({n \in Namespaces : p[n] = a})                   \* ana_grp_ns_load
SubsLoad(p, a, q) == Cardinality({n \in Namespaces : p[n] = a /\ Nqn[n] = q}) \* ana_grp_subs_load
Total(p, q) == Cardinality({n \in Namespaces : p[n] # 0 /\ Nqn[n] = q})    \* get_namespace_count

\* get_number_created_gateways: the monitor's groups, or none if it fails
Answers == {created, {}}

\* find_min_loaded_group: the last one, in the order of the groups
MinGroup(list, p) ==
    IF list = {} THEN 0
    ELSE CHOOSE a \in list :
            \A b \in list : Load(p, a) < Load(p, b) \/ (Load(p, a) = Load(p, b) /\ a >= b)

\* find_min_loaded_group_in_subsys: a group without namespaces, or the one
\* with the fewest of the subsystem
MinInSubsys(list, p, q) ==
    IF \E a \in list : Load(p, a) = 0
      THEN {a \in list : Load(p, a) = 0}
      ELSE {a \in list : \A b \in list : SubsLoad(p, a, q) <= SubsLoad(p, b, q)}

(***************************************************************************)
(* rebalance_logic                                                         *)
(***************************************************************************)
\* a group with namespaces whose gateway the monitor does not list
Invalid(list, p) == {a \in Groups : Load(p, a) # 0 /\ a \notin list}
LastInvalid(list, p) == CHOOSE a \in Invalid(list, p) : \A b \in Invalid(list, p) : b <= a

FitsAnyway(src, min, total, groups) == src > min \* a mutation
FitsBelowTarget(src, min, total, groups) == (min + 1) * groups <= total \* a mutation

\* le_target, load_less and load_eq for a source group above the target of
\* total / groups, with the divisions multiplied out
Fits(src, min, total, groups) ==
    \/ (min + 1) * groups <= total
    \/ total < groups /\ src > 1 /\ min = 0
    \/ src - 1 = min + 1

AboveTarget(src, total, groups) == src * groups > total

MoveOf(kind, n, a, b) == [kind |-> kind, ns |-> n, src |-> a, dst |-> b]

\* the regular moves out of an optimized group a
RegularMoves(list, g, a) ==
    LET p == view[g]
        size == Cardinality(list)
        fits(n, b) ==
           /\ p[n] = a
           /\ AboveTarget(SubsLoad(p, a, Nqn[n]), Total(p, Nqn[n]), size)
           /\ b \in MinInSubsys(list, p, Nqn[n])
           /\ Fits(SubsLoad(p, a, Nqn[n]), SubsLoad(p, b, Nqn[n]), Total(p, Nqn[n]), size)
    IN UNION {{MoveOf("regular", n, a, b) : b \in {c \in list : fits(n, c)}} : n \in Namespaces}

ToMinGroup(list, g, kind, a) ==
    {MoveOf(kind, n, a, MinGroup(list, view[g])) : n \in {n \in Namespaces : view[g][n] = a}}

\* what the loop over the groups makes of group a; it goes on if it is {}
GroupMoves(list, g, a) ==
    LET p == view[g] IN
    CASE a \in optimized[g] /\ a \notin list /\ Load(p, a) > 0 ->
            ToMinGroup(list, g, "scale_down", a)
      [] /\ a \in optimized[g] /\ a \in list
         /\ Invalid(list, p) = {} /\ worker \in optimized[g] -> RegularMoves(list, g, a)
      [] /\ Invalid(list, p) # {} /\ worker \in optimized[g]
         \* num_active_ana_groups is num_gws, which counts the deleted ones
         /\ list = created \cup deleting
         \* chosen_nqn is not "null"
         /\ MinGroup(list, p) \in loaded[g] ->
            ToMinGroup(list, g, "deadlock", LastInvalid(list, p))
      [] OTHER -> {}

\* the loop ends at an optimized group of a deleted gateway that is empty
EndsLoop(list, g, a) ==
    a \in optimized[g] /\ a \notin list /\ Load(view[g], a) = 0

Decisions(list, g) ==
    UNION {GroupMoves(list, g, a) : a \in
        {a \in Groups : \A b \in 1..(a - 1) :
            GroupMoves(list, g, b) = {} /\ ~EndsLoop(list, g, b)}}

\* what a gateway can decide whose list and counters are wrong
AnyMoves(list, g) == {m \in Moves : view[g][m.ns] # 0 /\ m.dst \in list}

\* The monitor is asked twice: by rebalance_logic, which gets list, and, before
\* the lock, by namespace_change_load_balancing_group_safe, which gets again
\* and refuses another group, 0 for instance.
DecideWith(g, list, again) ==
    /\ g \in created
    /\ pending[g] = None
    /\ \E m \in IF g \in drifted THEN AnyMoves(list, g) ELSE Decisions(list, g) :
          /\ pending' = IF m.dst \in again THEN [pending EXCEPT ![g] = m] ELSE pending
          \* find_min_loaded_group_in_subsys makes an entry for the group
          /\ loaded' = IF m.kind = "regular" THEN [loaded EXCEPT ![g] = @ \cup {m.dst}] ELSE loaded
    /\ UNCHANGED <<omap, view, fresh, renewed, drifted, req, requests, monitorVars>>

Decide(g) == \E list, again \in Answers : DecideWith(g, list, again)

(***************************************************************************)
(* Writes under the OMAP lock                                              *)
(***************************************************************************)
Served == {omap[n] : n \in Namespaces} \ {0}

\* the group namespace_add looks for, even if it was given one; with an empty
\* list it fails
LooksFor(list, p, kind, n) ==
    IF kind = "add" /\ list # {} THEN MinInSubsys(list, p, Nqn[n]) ELSE {0}

Write(g, n, a) ==
    /\ g \in fresh
    /\ omap' = [omap EXCEPT ![n] = a]
    /\ view' = [view EXCEPT ![g][n] = a]
    /\ fresh' = {g}
    /\ loaded' = [loaded EXCEPT ![g] = @ \cup ({a} \ {0})]

\* namespace_change_load_balancing_group_safe with the lock: an entry that has
\* gone since is an error, one that has moved since is moved all the same
ChangeGroup(g, n, a) ==
    IF omap[n] # 0 THEN Write(g, n, a)
                   ELSE g \in fresh /\ UNCHANGED <<omap, view, fresh, loaded>>

\* It sets the group of the list entry that find_namespace returned before the
\* lock.  If the list has another one now, that one keeps its old group, and
\* what later calls subtract from the load counters is wrong as well.
Finds(g, n) ==
    /\ drifted' = IF <<g, n>> \in renewed /\ omap[n] # 0 THEN drifted \cup {g} ELSE drifted
    /\ renewed' = renewed \ {<<g, n>>}

MoveStaleSource(g) == \* a mutation
    /\ pending[g] # None
    /\ ChangeGroup(g, pending[g].ns, pending[g].src)
    /\ Finds(g, pending[g].ns)
    /\ pending' = [pending EXCEPT ![g] = None]
    /\ UNCHANGED <<req, requests, monitorVars>>
Move(g) ==
    /\ pending[g] # None
    /\ ChangeGroup(g, pending[g].ns, pending[g].dst)
    /\ Finds(g, pending[g].ns)
    /\ pending' = [pending EXCEPT ![g] = None]
    /\ UNCHANGED <<req, requests, monitorVars>>

\* update(): each entry that changed is added, removed or moved; a move that
\* waits keeps the entry it found
Refresh(g) ==
    /\ view' = [view EXCEPT ![g] = omap]
    /\ fresh' = fresh \cup {g}
    /\ renewed' = {r \in renewed : r[1] = g => pending'[g] # None /\ r[2] = pending'[g].ns}

Update(g) ==
    /\ g \in created \ fresh
    /\ loaded' = [loaded EXCEPT ![g] = @ \cup Served]
    /\ UNCHANGED <<omap, pending, drifted, req, requests, monitorVars>>
    /\ Refresh(g)

\* the lock finds the version changed: the gateway updates and the whole
\* function is called again (execute_omap_locking_function), with a new answer
\* of the monitor if it asks for one
Retry(g) ==
    /\ g \in created \ fresh
    /\ \/ /\ pending[g] # None
          /\ pending' = [pending EXCEPT ![g] = None]
          /\ loaded' = [loaded EXCEPT ![g] = @ \cup Served]
          /\ UNCHANGED <<req, requests>>
       \/ /\ req # None /\ req.gw = g
          /\ \E list \in Answers :
                /\ req' = IF req.kind = "del" \/ req.grp \in list THEN req ELSE None
                /\ \E b \in LooksFor(list, omap, req.kind, req.ns) :
                      loaded' = [loaded EXCEPT ![g] = @ \cup Served \cup ({b} \ {0})]
          /\ UNCHANGED <<pending, requests>>
    /\ Refresh(g)
    /\ UNCHANGED <<omap, drifted, monitorVars>>

(***************************************************************************)
(* The user's requests, and the checks they make before the lock           *)
(***************************************************************************)
Ask(g) ==
    /\ req = None
    /\ requests < MaxRequests
    /\ requests' = requests + 1
    /\ g \in created
    /\ \E n \in Namespaces, a \in created, k \in {"add", "change", "del"} :
          /\ k = "add" <=> view[g][n] = 0
          /\ req' = [kind |-> k, gw |-> g, ns |-> n, grp |-> a]
          /\ \E b \in LooksFor(created, view[g], k, n) :
                loaded' = [loaded EXCEPT ![g] = @ \cup ({b} \ {0})]
    /\ UNCHANGED <<omap, view, fresh, pending, renewed, drifted, monitorVars>>

\* a user's change is only taken by the gateway that serves the group
OwnedByOther(g, n) == \E h \in created \ {g} : omap[n] \in optimized[h]

\* moves that wait, and gateways that have not seen a namespace's deletion,
\* have another entry than the one that n gets now
Renewed(g, n) ==
    {h \in created : (pending[h] # None /\ pending[h].ns = n) \/ (h # g /\ view[h][n] # 0)} \X {n}

ServeAdd ==
    /\ req.kind = "add" /\ omap[req.ns] = 0
    /\ Write(req.gw, req.ns, req.grp)
    /\ renewed' = renewed \cup Renewed(req.gw, req.ns)

ServeDelete ==
    /\ req.kind = "del" /\ omap[req.ns] # 0
    /\ Write(req.gw, req.ns, 0)
    /\ UNCHANGED renewed

\* There is one request at a time: nobody has added its namespace again.
ServeChange ==
    /\ req.kind = "change" /\ omap[req.ns] # 0 /\ ~OwnedByOther(req.gw, req.ns)
    /\ Write(req.gw, req.ns, req.grp)
    /\ UNCHANGED renewed

Serve ==
    /\ req # None
    /\ ServeAdd \/ ServeDelete \/ ServeChange
    /\ req' = None
    /\ UNCHANGED <<pending, drifted, requests, monitorVars>>

\* a user's change also ends when the monitor cannot be asked for the owner
Reject ==
    /\ req # None
    /\ req.gw \in fresh
    /\ \/ req.kind = "add" /\ omap[req.ns] # 0
       \/ req.kind = "del" /\ omap[req.ns] = 0
       \/ req.kind = "change"
    /\ req' = None
    /\ UNCHANGED <<omap, gatewayVars, requests, monitorVars>>

(***************************************************************************)
(* The monitor, from the way the gateways use it                           *)
(***************************************************************************)
RotateToAnyone == \* a mutation
    /\ worker' \in Groups
    /\ UNCHANGED <<omap, gatewayVars, req, requests, created, deleting, optimized, scalings>>
Rotate ==
    /\ \E a \in created \ {worker} :
          /\ \/ a > worker /\ \A b \in created : b <= worker \/ b >= a
             \/ \A b \in created : a <= b /\ b <= worker
          /\ worker' = a
    /\ UNCHANGED <<omap, gatewayVars, req, requests, created, deleting, optimized, scalings>>

\* a gateway is deleted; another one serves its group meanwhile
ScaleDown(g) ==
    /\ scalings < MaxScaling
    /\ g \in created /\ created # {g}
    /\ scalings' = scalings + 1
    /\ created' = created \ {g}
    /\ deleting' = deleting \cup {g}
    /\ worker' \in IF worker = g THEN created' ELSE {worker}
    /\ \E h \in created' :
          optimized' = [optimized EXCEPT ![g] = {}, ![h] = @ \cup optimized[g]]
    /\ fresh' = fresh \ {g}
    /\ loaded' = [loaded EXCEPT ![g] = {}]
    /\ pending' = [pending EXCEPT ![g] = None]
    /\ renewed' = {r \in renewed : r[1] # g}
    /\ drifted' = drifted \ {g}
    /\ req' = IF req # None /\ req.gw = g THEN None ELSE req
    /\ UNCHANGED <<omap, view, requests>>

\* the gateways report no namespaces in its group any more
Purge(g) ==
    /\ g \in deleting
    /\ \A h \in created : Load(view[h], g) = 0
    /\ deleting' = deleting \ {g}
    /\ optimized' = [h \in Groups |-> optimized[h] \ {g}]
    /\ UNCHANGED <<omap, gatewayVars, req, requests, created, worker, scalings>>

ScaleUp(g) ==
    /\ scalings < MaxScaling
    /\ g \in Groups \ (created \cup deleting)
    /\ scalings' = scalings + 1
    /\ created' = created \cup {g}
    /\ optimized' = [optimized EXCEPT ![g] = {g}]
    /\ loaded' = [loaded EXCEPT ![g] = Served]
    /\ UNCHANGED <<omap, pending, drifted, req, requests, deleting, worker>>
    /\ Refresh(g)

RebalanceNext ==
    \/ \E g \in Groups :
          \/ Decide(g) \/ Move(g) \/ Update(g) \/ Retry(g) \/ Ask(g)
          \/ ScaleDown(g) \/ Purge(g) \/ ScaleUp(g)
    \/ Serve \/ Reject \/ Rotate

RebalanceSpec == RebalanceInit /\ [][RebalanceNext]_rebalanceVars

\* Periodic threads run; the OMAP lock is given to those who wait.  The monitor
\* takes the groups in turn, so a gateway is only now and then the worker, but
\* again and again; it also answers a gateway's two commands now and then.
RebalanceFairness ==
    /\ \A g \in Groups :
          /\ SF_rebalanceVars(DecideWith(g, created, created))
          /\ WF_rebalanceVars(Update(g))
          /\ SF_rebalanceVars(Move(g))
          /\ WF_rebalanceVars(Purge(g))
    /\ SF_rebalanceVars(Serve \/ Reject)
    /\ WF_rebalanceVars(Rotate)

FairRebalanceSpec == RebalanceSpec /\ RebalanceFairness

(***************************************************************************)
(* Properties                                                              *)
(***************************************************************************)
\* no gateway would move anything, whoever the worker were
AtRest ==
    /\ req = None /\ fresh = created /\ deleting = {}
    /\ Invalid(created, omap) = {}
    /\ drifted = {}
    /\ \A g \in created :
          pending[g] = None /\ \A a \in optimized[g] : RegularMoves(created, g, a) = {}

\* When the rebalancing of up to three groups has come to rest it is as even as
\* it can be.  (With four groups it may rest at 4, 1, 1 and 1 namespaces of a
\* subsystem: none of le_target, load_less and load_eq holds then.)
EvenAtRest ==
    AtRest /\ Cardinality(created) <= 3 =>
        \A q \in Subsystems, a, b \in created : SubsLoad(omap, a, q) <= SubsLoad(omap, b, q) + 1

\* A gateway whose list is current only decides on a regular move that makes
\* the distribution narrower, so moves cannot undo each other (le_target,
\* load_less, load_eq).
DecisionsNarrow ==
    [][\A g \in Groups :
          LET m == pending'[g] IN
          g \in fresh \ drifted /\ pending[g] = None /\ m # None /\ m.kind = "regular" =>
             SubsLoad(omap, m.src, Nqn[m.ns]) >= SubsLoad(omap, m.dst, Nqn[m.ns]) + 2]_rebalanceVars

\* Rebalancing ends: after the last request and the last change of gateways
\* no move is made for ever after.
MovesEnd == <>[](\A g \in Groups : pending[g] = None)

\* a group without an entry is not resolved to (chosen_nqn is "null")
SomeGroupIsUnknown == \E g \in created : ~(created \subseteq loaded[g])

\* Every namespace of a deleted gateway's group is moved to a group that has a
\* gateway (scale-down and deadlock resolving), unless the user deletes it: it
\* stays for good only if some gateway never gets an entry in
\* ana_grp_subs_load for one of the groups.
NamespacesLeaveDeletedGroups ==
    \A n \in Namespaces :
        omap[n] \notin created \cup {0} ~>
            (omap[n] \in created \cup {0} \/ []SomeGroupIsUnknown)

=============================================================================

---------------------------- MODULE BdevClusters ----------------------------
(***************************************************************************)
(* The bdevs of one gateway and the RADOS cluster contexts SPDK opens for  *)
(* them: create_bdev and delete_bdev (control/grpc.py) with the three      *)
(* allocation strategies (control/cluster.py).  Both run with rpc_lock     *)
(* held from beginning to end, so each is one step; what can go wrong is   *)
(* an SPDK call that fails, and the counts the failure leaves behind.      *)
(***************************************************************************)
EXTENDS Naturals, FiniteSets

CONSTANTS
    Bdevs,      \* bdev names, one for each namespace UUID
    Groups,     \* ANA groups
    Limit,      \* bdevs_per_cluster, flat_bdevs_per_cluster or cluster_connections
    Faults,     \* what SPDK may do beyond its contract, see the actions
    MaxFaults,  \* bound: how often it does
    None        \* no cluster context; the scope of names without a group

\* cluster_context_<group>_<number>, cluster_context_<number>, cluster_<number>
Contexts == (Groups \cup {None}) \X Nat

ASSUME BdevAssumption == IsFiniteSet(Bdevs)
ASSUME LimitAssumption == Limit \in Nat \ {0}
ASSUME NoneAssumption == None \notin Groups /\ None \notin Contexts
ASSUME FaultAssumption ==
    /\ Faults \subseteq {"timeout", "noname", "refused", "free"}
    /\ MaxFaults \in Nat

VARIABLES
    strategy,     \* the allocator get_cluster_allocator chose from the config
    usage,        \* the allocator's dictionary: cluster context -> bdevs
    registered,   \* cluster contexts registered in SPDK
    spdkBdev,     \* the cluster context of each bdev in SPDK
    bdevCluster,  \* bdev_cluster, from which nothing is ever removed
    bdevParams,   \* the keys of bdev_params
    faults,       \* number of faults so far
    failed        \* and their kinds

bdevVars == <<spdkBdev, bdevCluster, bdevParams>>
faultVars == <<faults, failed>>
clusterVars == <<strategy, usage, registered, bdevVars, faultVars>>

Strategies == {"anagrp", "flat", "pool"}
Scope(g) == IF strategy = "anagrp" THEN g ELSE None

FaultsOK == faults \in Nat /\ failed \subseteq Faults

ClusterTypeOK ==
    /\ strategy \in Strategies
    /\ DOMAIN usage \subseteq Contexts
    /\ usage \in [DOMAIN usage -> Nat]
    /\ registered \subseteq Contexts
    /\ spdkBdev \in [Bdevs -> Contexts \cup {None}]
    /\ bdevCluster \in [Bdevs -> Contexts \cup {None}]
    /\ bdevParams \subseteq Bdevs
    /\ FaultsOK

\* the dictionary of a new allocator: only the pool knows its names in advance
NewUsage(s) == [c \in IF s = "pool" THEN {None} \X (1..Limit) ELSE {} |-> 0]

ClusterInit ==
    /\ strategy \in Strategies
    /\ usage = NewUsage(strategy)
    /\ registered = {}
    /\ spdkBdev = [b \in Bdevs |-> None]
    /\ bdevCluster = [b \in Bdevs |-> None]
    /\ bdevParams = {}
    /\ faults = 0
    /\ failed = {}

Fault(kind) ==
    /\ kind \in Faults
    /\ faults < MaxFaults
    /\ faults' = faults + 1
    /\ failed' = failed \cup {kind}

\* an assertion nobody handles aborts the gateway; SPDK ends with it and the
\* next process reads its configuration again
ClusterAbort ==
    /\ strategy' \in Strategies
    /\ usage' = NewUsage(strategy')
    /\ registered' = {}
    /\ spdkBdev' = [b \in Bdevs |-> None]
    /\ bdevCluster' = [b \in Bdevs |-> None]
    /\ bdevParams' = {}

(***************************************************************************)
(* get_cluster and put_cluster                                             *)
(***************************************************************************)
RoomForOneMore(g) == {c \in DOMAIN usage : c[1] = Scope(g) /\ usage[c] <= Limit} \* a mutation
Room(g) == {c \in DOMAIN usage : c[1] = Scope(g) /\ usage[c] < Limit}

\* _alloc_cluster_name: the first number that is not in the dictionary
NewContext(g) ==
    {c \in {Scope(g)} \X (0..Cardinality(DOMAIN usage)) :
        /\ c \notin DOMAIN usage
        /\ \A n \in 0..(c[2] - 1) : <<Scope(g), n>> \in DOMAIN usage}

LeastUsed == {c \in DOMAIN usage : \A d \in DOMAIN usage : usage[c] <= usage[d]}

\* the contexts get_cluster may return; which of several is a matter of the
\* order of the dictionary
Choices(g) ==
    CASE strategy = "pool" -> LeastUsed
      [] strategy # "pool" /\ Room(g) # {} -> Room(g)
      [] OTHER -> NewContext(g)

\* _alloc_cluster is called, and SPDK refuses a name that is registered
IsNew(c) == IF strategy = "pool" THEN usage[c] = 0 ELSE c \notin DOMAIN usage
CanGet(c) == IsNew(c) => c \notin registered

GetUsage(c) ==
    [d \in DOMAIN usage \cup {c} |->
        IF d # c THEN usage[d] ELSE IF d \in DOMAIN usage THEN usage[d] + 1 ELSE 1]

\* put_cluster right after get_cluster would free the context
Alone(c) == GetUsage(c)[c] = 1

\* SPDK does not unregister a context that has bdevs
CanFree(c, bdevs) == \A b \in Bdevs : bdevs[b] # c

\* the dictionary after put_cluster: a context without bdevs goes, but for
\* those of the pool.  If _free_cluster raises the count stays at zero.
PutUsageAtOne(c, freed) == \* a mutation
    [d \in IF strategy # "pool" /\ usage[c] <= 2 /\ freed
           THEN DOMAIN usage \ {c} ELSE DOMAIN usage |->
        IF d = c THEN usage[c] - 1 ELSE usage[d]]
PutUsageTwice(c, freed) == \* a mutation
    [d \in IF strategy # "pool" /\ usage[c] = 1 /\ freed
           THEN DOMAIN usage \ {c} ELSE DOMAIN usage |->
        IF d = c THEN usage[c] - 2 ELSE usage[d]]
PutUsage(c, freed) ==
    [d \in IF strategy # "pool" /\ usage[c] = 1 /\ freed
           THEN DOMAIN usage \ {c} ELSE DOMAIN usage |->
        IF d = c THEN usage[c] - 1 ELSE usage[d]]

Put(c, freed) ==
    /\ usage' = PutUsage(c, freed)
    /\ registered' = IF usage[c] = 1 /\ freed THEN registered \ {c} ELSE registered

(***************************************************************************)
(* create_bdev                                                             *)
(***************************************************************************)
Create(b, g) ==
    \E c \in Choices(g) :
        /\ CanGet(c)
        /\ usage' = GetUsage(c)
        /\ registered' = registered \cup {c}
        /\ spdkBdev' \in {spdkBdev, [spdkBdev EXCEPT ![b] = c]}
        /\ bdevCluster' = [bdevCluster EXCEPT ![b] = c]
        /\ bdevParams' = bdevParams \cup {b}
        /\ UNCHANGED strategy

CreateBdev(b, g) ==
    /\ spdkBdev[b] = None
    /\ Create(b, g)
    /\ spdkBdev'[b] # None
    /\ UNCHANGED faultVars

\* SPDK answers with an empty name: the context is not put back
CreateNameless(b, g) ==
    /\ spdkBdev[b] = None
    /\ Fault("noname")
    /\ Create(b, g)
    /\ spdkBdev'[b] = None

\* bdev_rbd_create raises, the bdev of that name being there already or the
\* image being gone.  put_cluster undoes get_cluster, so the call leaves nothing
\* behind but the end of a context that an earlier fault had left at zero.  If
\* _free_cluster raises in the handler nothing catches it.
CreateFails(g) ==
    \E c \in Choices(g) :
        /\ CanGet(c)
        /\ Alone(c)
        /\ \/ /\ CanFree(c, spdkBdev)
              /\ usage' = [d \in IF strategy = "pool" THEN DOMAIN usage
                                 ELSE DOMAIN usage \ {c} |-> usage[d]]
              /\ registered' = registered \ {c}
              /\ UNCHANGED <<strategy, bdevVars, faultVars>>
           \/ ~CanFree(c, spdkBdev) /\ ClusterAbort /\ UNCHANGED faultVars
           \/ Fault("free") /\ ClusterAbort

(***************************************************************************)
(* delete_bdev                                                             *)
(***************************************************************************)
\* what follows when SPDK did not raise: without an entry in bdev_params the
\* KeyError ends the call before put_cluster
Forget(b, freed) ==
    /\ bdevParams' = bdevParams \ {b}
    /\ IF b \in bdevParams THEN Put(bdevCluster[b], freed)
                           ELSE UNCHANGED <<usage, registered>>
    /\ UNCHANGED <<strategy, bdevCluster>>

Gone(b) == [spdkBdev EXCEPT ![b] = None]

DeleteBdev(b) ==
    /\ spdkBdev[b] # None
    /\ spdkBdev' = Gone(b)
    /\ \/ Forget(b, CanFree(bdevCluster[b], spdkBdev')) /\ UNCHANGED faultVars
       \/ Forget(b, FALSE) /\ Fault("free")

\* bdev_rbd_delete raises although the bdev is gone
DeleteTimesOut(b) ==
    /\ spdkBdev[b] # None
    /\ Fault("timeout")
    /\ spdkBdev' = Gone(b)
    /\ UNCHANGED <<strategy, usage, registered, bdevCluster, bdevParams>>

\* it returns false: only looked at after the count was put back
DeleteRefused(b) ==
    /\ b \in bdevParams
    /\ spdkBdev[b] # None
    /\ Fault("refused")
    /\ UNCHANGED spdkBdev
    /\ Forget(b, CanFree(bdevCluster[b], spdkBdev))

\* bdev_rbd_create raises although the bdev is there.  put_cluster undoes
\* get_cluster, which fails if that was the only count as the bdev is there, and
\* namespace_add_safe deletes the bdev it finds.
CreateTimesOut(b, g) ==
    /\ spdkBdev[b] = None
    /\ Fault("timeout")
    /\ \E c \in Choices(g) :
          /\ CanGet(c)
          /\ \/ Alone(c) /\ ClusterAbort
             \/ /\ ~Alone(c)
                /\ UNCHANGED spdkBdev
                /\ Forget(b, CanFree(bdevCluster[b], spdkBdev))

ClusterNext ==
    \/ \E b \in Bdevs, g \in Groups :
          CreateBdev(b, g) \/ CreateNameless(b, g) \/ CreateTimesOut(b, g)
    \/ \E g \in Groups : CreateFails(g)
    \/ \E b \in Bdevs : DeleteBdev(b) \/ DeleteTimesOut(b) \/ DeleteRefused(b)

ClusterSpec == ClusterInit /\ [][ClusterNext]_clusterVars

(***************************************************************************)
(* Properties                                                              *)
(***************************************************************************)
BdevsOn(c) == {b \in Bdevs : spdkBdev[b] = c}
\* the bdevs for which delete_bdev will put c back
CountedOn(c) == {b \in bdevParams : bdevCluster[b] = c}

\* Whatever SPDK does, put_cluster finds the context it is given and its
\* count does not fall below zero (the assertions of the three put_cluster).
PutNeverAsserts ==
    \A b \in bdevParams :
        bdevCluster[b] \in DOMAIN usage /\ usage[bdevCluster[b]] > 0

\* A context is counted at least once for each bdev that will put it back,
\* so no bdev takes the count, and the context, of another one with it
\* (create_bdev, delete_bdev, put_cluster).
CountsAreCovered ==
    /\ \A b \in bdevParams : bdevCluster[b] \in DOMAIN usage
    /\ \A c \in DOMAIN usage : Cardinality(CountedOn(c)) <= usage[c]

\* No context has more bdevs than the configuration allows, although calls
\* time out and leave counts behind (bdevs_per_cluster, flat_bdevs_per_cluster);
\* a deletion that SPDK refuses takes the count of a bdev that stays.
LimitIsKept ==
    strategy # "pool" /\ "refused" \notin failed =>
        \A c \in DOMAIN usage : Cardinality(BdevsOn(c)) <= Limit

\* A bdev's entry in bdev_cluster, which set_ana_state and get_subsystems
\* read, names the context SPDK has it on, also after the bdev was deleted and
\* created again, unless a refused deletion left one to be found in its place.
BdevClusterIsCurrent ==
    "refused" \notin failed =>
        \A b \in Bdevs : spdkBdev[b] # None => bdevCluster[b] = spdkBdev[b]

\* As long as SPDK keeps to its contract the contexts registered are the
\* ones in use, and the counts are the numbers of their bdevs ("free the
\* cluster context if no longer used by any bdev").
CountsAreExact ==
    failed = {} =>
        /\ registered = {spdkBdev[b] : b \in {d \in Bdevs : spdkBdev[d] # None}}
        /\ \A c \in DOMAIN usage : usage[c] = Cardinality(BdevsOn(c))

\* There is a context for the next bdev: as long as nothing failed, get_cluster
\* never insists on a name that SPDK still has registered.
NextContextIsAvailable ==
    failed = {} => \A g \in Groups : \E c \in Choices(g) : CanGet(c)

\* A new bdev of the pool goes to a context with the fewest bdevs
\* (ClusterPoolAllocator.get_cluster).
FewestBdevsFirst ==
    [][\A b \in Bdevs :
          strategy = "pool" /\ failed = {} /\ spdkBdev[b] = None /\ spdkBdev'[b] # None =>
              \A c \in DOMAIN usage :
                  Cardinality(BdevsOn(spdkBdev'[b])) <= Cardinality(BdevsOn(c))]_clusterVars

=============================================================================

---------------------------- MODULE OmapGroupInv ----------------------------
(***************************************************************************)
(* The inductive invariant behind the safety properties of OmapGroup.  It  *)
(* holds when update() reads under the shared lock and no operation        *)
(* outlives omap_file_lock_duration (LockOnRead, ~LockMayExpire).          *)
(***************************************************************************)
EXTENDS OmapGroup

\* the steps a worker takes under the exclusive lock
UnderLock == {"verify", "spdk", "commit", "setver", "local", "unlock"}

\* The lock on the OMAP: one writer or some readers.
LockInv ==
    /\ excl # Free => shared = {}
    /\ \A w \in Workers : pc[w] \in UnderLock => excl = w
    /\ \A g \in Gateways : upc[g] = "read" => g \in shared

\* The history starts empty and ends with the OMAP, and nobody is outside it.
HistoryInv ==
    /\ hist[FirstVersion] = Empty
    /\ hist[omapVersion] = omap
    /\ \A g \in Gateways : version[g] \in 1..omapVersion

\* A worker that passed the version check works on the newest version, and
\* knows what it has written until it has written it locally as well.
WorkerInv ==
    \A w \in Workers :
        LET g == Owner[w]
            written == [local[g] EXCEPT ![op[w].nqn] = NewValue(w)]
        IN  /\ pc[w] \in {"spdk", "commit", "local"} => version[g] = omapVersion
            /\ pc[w] = "setver" =>
                  /\ op[w].ver = omapVersion
                  /\ omapVersion = version[g] + 1
                  /\ upc[g] = "compare" => snap[g].ver <= version[g]
            /\ pc[w] \in {"setver", "local"} => written = omap

\* What update() has read is a version of the history, and once it applies
\* it the version is newer than the local one.
UpdateInv ==
    \A g \in Gateways :
        /\ upc[g] \in {"compare", "apply", "setver"} =>
              /\ snap[g].ver \in 1..omapVersion
              /\ snap[g].st = hist[snap[g].ver]
        /\ upc[g] \in {"apply", "setver"} =>
              /\ version[g] < snap[g].ver
              /\ \A w \in Mine(g) : pc[w] # "setver"
        /\ upc[g] = "setver" => local[g] = snap[g].st

\* The local state is the local version's, but for the steps in which the
\* two are changed one after the other.
LocalInv ==
    \A g \in Gateways :
        upc[g] # "setver" /\ (\A w \in Mine(g) : pc[w] # "local") =>
            local[g] = hist[version[g]]

\* The worker that update() returns to waits for it.
CallerInv ==
    \A g \in Gateways : uby[g] \in Workers =>
        Owner[uby[g]] = g /\ pc[uby[g]] = "reload"

\* The conjunction is inductive (lock_omap, update(), _add_key).
GroupInv ==
    /\ TypeOK
    /\ LockInv
    /\ HistoryInv
    /\ WorkerInv
    /\ UpdateInv
    /\ LocalInv
    /\ CallerInv

\* the steps a worker takes with rpc_lock held: rpc_lock is released in the
\* sleep of lock_omap and by every return
UnderRpcLock == {"lock"} \cup UnderLock

\* what a request has done to SPDK before it writes the OMAP
InSpdk(w) == spdk[Owner[w]][op[w].nqn] = NewValue(w)

\* A request knows the version of its write from the write on, and nothing
\* undoes what it did before it returns: updates wait for rpc_lock and other
\* writers for the lock on the OMAP.
RequestHolds(w) ==
    /\ pc[w] \in UnderRpcLock => rpcLock[Owner[w]] = w
    /\ pc[w] \notin {"setver", "local", "unlock"} => op[w].ver = 0
    /\ pc[w] \in {"setver", "local"} => op[w].ver = omapVersion
    /\ pc[w] \in {"commit", "setver", "local"} => InSpdk(w)
    /\ pc[w] = "unlock" /\ op[w].ver # 0 =>
          /\ op[w].ver = omapVersion
          /\ version[Owner[w]] = omapVersion
          /\ omap[op[w].nqn] = NewValue(w)
          /\ local[Owner[w]][op[w].nqn] = NewValue(w)
          /\ InSpdk(w)
RequestInv == \A w \in Workers : RequestHolds(w)

\* SPDK of a gateway.  What update() has still to do in it: a subsystem waiting
\* to be deleted is as in the local state, one waiting only to be created is
\* absent, and all others are as in the OMAP that was read.  Apart from that
\* only a request between its SPDK call and its local write has SPDK and the
\* local state differ.
SpdkHolds(g) ==
    /\ upc[g] = "apply" =>
          \A s \in Subsystems :
              /\ spdk[g][s] = IF s \in todo[g].del THEN local[g][s]
                              ELSE IF s \in todo[g].add THEN 0
                              ELSE snap[g].st[s]
              /\ s \in todo[g].del \ todo[g].add => snap[g].st[s] = 0
    /\ upc[g] # "apply" =>
          \/ \E w \in Mine(g) : pc[w] \in {"commit", "setver", "local"}
          \/ spdk[g] = local[g]
SpdkInv == \A g \in Gateways : SpdkHolds(g)

\* Where a gateway is in the history of GroupState: a writer is already at
\* its own write, an update that has replaced the local state at what it read.
SeenVersion(g) ==
    IF Writing(g) # {} THEN omapVersion
    ELSE IF Replacing(g) THEN snap[g].ver ELSE version[g]

\* The refinement mapping puts every gateway at one version of the history.
SeenInv ==
    \A g \in Gateways :
        /\ Seen[g] = SeenVersion(g)
        /\ Seen[g] \in 1..omapVersion
        /\ Copy[g] = hist[Seen[g]]

=============================================================================

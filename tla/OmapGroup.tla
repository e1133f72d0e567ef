----------------------------- MODULE OmapGroup -----------------------------
(***************************************************************************)
(* A group of NVMe-oF gateways sharing one OMAP object (control/state.py)  *)
(* and the subsystem RPCs that change it (control/grpc.py).                *)
(*                                                                         *)
(* Every gateway is a process: gRPC worker threads that run                *)
(* create_subsystem/delete_subsystem, one update() at a time (started by   *)
(* the periodic thread or by a worker that found its state not current),   *)
(* a local copy of the OMAP with its version, and the SPDK target.  The    *)
(* gateways meet only in RADOS: the OMAP with its version key and the      *)
(* advisory lock on it.                                                    *)
(***************************************************************************)
EXTENDS Naturals, FiniteSets

CONSTANTS
    Gateways,         \* gateway processes of the group
    Workers,          \* gRPC worker threads of all the gateways
    Owner,            \* Owner[w]: the gateway whose thread w is
    Subsystems,       \* subsystem NQNs
    MaxSubsystems,    \* config max_subsystems
    LockRetries,      \* config omap_file_lock_retries
    Reloads,          \* config omap_file_update_reloads
    LockOnRead,       \* config omap_file_lock_on_read
    LockMayExpire,    \* may an operation outlive omap_file_lock_duration?
    MaxCrashes,       \* bound: gateway processes that die
    MaxRpcs,          \* bound: RPCs issued by clients
    Free, Dead,       \* no lock holder; a holder whose process is gone
    Periodic          \* the caller of update() that is not a worker

ASSUME OwnerAssumption == Owner \in [Workers -> Gateways]
ASSUME BoundAssumption ==
    /\ Subsystems # {}
    /\ MaxSubsystems \in Nat \ {0}
    /\ LockRetries \in Nat
    /\ Reloads \in Nat
    /\ MaxCrashes \in Nat
    /\ MaxRpcs \in Nat
ASSUME FlagAssumption ==
    /\ LockOnRead \in BOOLEAN
    /\ LockMayExpire \in BOOLEAN
ASSUME HolderAssumption ==
    /\ Free \notin Workers \cup Gateways
    /\ Dead \notin Workers \cup Gateways
    /\ Periodic \notin Workers
    /\ Free # Dead

VARIABLES
    \* RADOS: the OMAP object and the advisory lock on it
    omap,          \* subsystem -> serial number stored, 0 when there is no key
    omapVersion,   \* value of the omap_version key
    excl,          \* holder of the exclusive lock
    shared,        \* holders of the shared lock (update() readers)
    hist,          \* history: hist[v] is the OMAP at version v
    \* one gateway process
    local,         \* LocalGatewayState.state
    version,       \* OmapGatewayState.version, the local version
    spdk,          \* subsys_serial, the subsystems of the SPDK target
    rpcLock,       \* holder of rpc_lock
    readMark,      \* OmapLock.locked_by still lists a shared lock
    \* the update() of a gateway
    upc, uby, snap, todo,
    periodicUp,    \* the _update_caller thread is alive
    \* a worker thread
    pc, op, tries, rounds,
    rpcs,          \* RPCs issued so far; the number of an RPC is its serial
    crashes        \* processes that died so far

radosVars == <<omap, omapVersion, excl, shared, hist>>
gwVars == <<local, version, spdk, rpcLock, readMark>>
updVars == <<upc, uby, snap, todo, periodicUp>>
workerVars == <<pc, op, tries, rounds, rpcs, crashes>>
vars == <<radosVars, gwVars, updVars, workerVars>>

Content == [Subsystems -> Nat]
Empty == [s \in Subsystems |-> 0]
Present(c) == {s \in Subsystems : c[s] # 0}
\* a request; "id" is its serial number, "ver" the OMAP version its write made
Ops == [kind : {"create", "delete"}, nqn : Subsystems, id : Nat, ver : Nat]
NoOp == [kind |-> "create", nqn |-> CHOOSE s \in Subsystems : TRUE,
         id |-> 0, ver |-> 0]
NoSnap == [ver |-> 0, st |-> Empty]
NoTodo == [del |-> {}, add |-> {}]
Mine(g) == {w \in Workers : Owner[w] = g}
\* the version of a new OMAP and of a new process
FirstVersionZero == 0 \* a mutation
FirstVersion == 1

TypeOK ==
    /\ omap \in Content
    /\ omapVersion \in Nat \ {0}
    /\ excl \in Workers \cup {Free, Dead}
    /\ shared \subseteq Gateways \cup {Dead}
    /\ hist \in [1..omapVersion -> Content]
    /\ local \in [Gateways -> Content]
    /\ version \in [Gateways -> Nat]
    /\ spdk \in [Gateways -> Content]
    /\ rpcLock \in [Gateways -> Workers \cup {Free}]
    /\ readMark \in [Gateways -> BOOLEAN]
    /\ upc \in [Gateways -> {"idle", "lock", "read", "compare", "apply", "setver"}]
    /\ uby \in [Gateways -> Workers \cup {Periodic}]
    /\ snap \in [Gateways -> [ver : Nat, st : Content]]
    /\ todo \in [Gateways -> [del : SUBSET Subsystems, add : SUBSET Subsystems]]
    /\ periodicUp \in [Gateways -> BOOLEAN]
    /\ pc \in [Workers -> {"idle", "enter", "lock", "sleep", "verify", "spdk",
                           "commit", "setver", "local", "unlock", "eagain",
                           "reload"}]
    /\ op \in [Workers -> Ops]
    /\ tries \in [Workers -> Nat]
    /\ rounds \in [Workers -> Nat]
    /\ rpcs \in Nat
    /\ crashes \in Nat

Init ==
    /\ omap = Empty
    /\ omapVersion = FirstVersion
    /\ excl = Free
    /\ shared = {}
    /\ hist = [v \in {FirstVersion} |-> Empty]
    /\ local = [g \in Gateways |-> Empty]
    /\ version = [g \in Gateways |-> FirstVersion]
    /\ spdk = [g \in Gateways |-> Empty]
    /\ rpcLock = [g \in Gateways |-> Free]
    /\ readMark = [g \in Gateways |-> FALSE]
    /\ upc = [g \in Gateways |-> "idle"]
    /\ uby = [g \in Gateways |-> Periodic]
    /\ snap = [g \in Gateways |-> NoSnap]
    /\ todo = [g \in Gateways |-> NoTodo]
    /\ periodicUp = [g \in Gateways |-> TRUE]
    /\ pc = [w \in Workers |-> "idle"]
    /\ op = [w \in Workers |-> NoOp]
    /\ tries = [w \in Workers |-> 0]
    /\ rounds = [w \in Workers |-> 0]
    /\ rpcs = 0
    /\ crashes = 0

(***************************************************************************)
(* The end of a gateway process and the start of its successor: SPDK and   *)
(* all the memory of the process are new, the OMAP is not.                 *)
(***************************************************************************)
Fresh(g) ==
    /\ local' = [local EXCEPT ![g] = Empty]
    /\ version' = [version EXCEPT ![g] = FirstVersion]
    /\ spdk' = [spdk EXCEPT ![g] = Empty]
    /\ rpcLock' = [rpcLock EXCEPT ![g] = Free]
    /\ readMark' = [readMark EXCEPT ![g] = FALSE]
    /\ upc' = [upc EXCEPT ![g] = "idle"]
    /\ uby' = [uby EXCEPT ![g] = Periodic]
    /\ snap' = [snap EXCEPT ![g] = NoSnap]
    /\ todo' = [todo EXCEPT ![g] = NoTodo]
    /\ periodicUp' = [periodicUp EXCEPT ![g] = TRUE]
    /\ pc' = [w \in Workers |-> IF w \in Mine(g) THEN "idle" ELSE pc[w]]
    /\ op' = [w \in Workers |-> IF w \in Mine(g) THEN NoOp ELSE op[w]]
    /\ tries' = [w \in Workers |-> IF w \in Mine(g) THEN 0 ELSE tries[w]]
    /\ rounds' = [w \in Workers |-> IF w \in Mine(g) THEN 0 ELSE rounds[w]]
    /\ UNCHANGED <<omap, omapVersion, hist, rpcs>>

\* abort_gateway_if_needed: an orderly exit, unlock_all_omap drops the
\* locks whose cookies the process still lists
Abort(g) ==
    /\ Fresh(g)
    /\ excl' = IF excl \in Mine(g) THEN Free ELSE excl
    /\ shared' = shared \ {g}
    /\ UNCHANGED crashes

\* the process dies and its locks stay until they expire
Crash(g) ==
    /\ crashes < MaxCrashes
    /\ crashes' = crashes + 1
    /\ Fresh(g)
    /\ excl' = IF excl \in Mine(g) THEN Dead ELSE excl
    /\ shared' = IF g \in shared THEN (shared \ {g}) \cup {Dead} ELSE shared

(***************************************************************************)
(* A worker thread running create_subsystem or delete_subsystem.           *)
(***************************************************************************)
Goto(w, label) == pc' = [pc EXCEPT ![w] = label]

Return(w) ==
    /\ Goto(w, "idle")
    /\ op' = [op EXCEPT ![w] = NoOp]
    /\ tries' = [tries EXCEPT ![w] = 0]
    /\ rounds' = [rounds EXCEPT ![w] = 0]

Request(w) ==
    /\ pc[w] = "idle"
    /\ rpcs < MaxRpcs
    /\ \E kind \in {"create", "delete"}, s \in Subsystems :
          op' = [op EXCEPT ![w] = [kind |-> kind, nqn |-> s,
                                   id |-> rpcs + 1, ver |-> 0]]
    /\ rpcs' = rpcs + 1
    /\ Goto(w, "enter")
    /\ UNCHANGED <<radosVars, gwVars, updVars, tries, rounds, crashes>>

\* SPDK is configured with the same max_subsystems as the gateway
SpdkFull(g) == Cardinality(Present(spdk[g])) >= MaxSubsystems

\* the check create_subsystem_safe makes before it takes the OMAP lock
Refused(w) == op[w].kind = "create" /\ SpdkFull(Owner[w])

Enter(w) ==
    /\ pc[w] = "enter"
    /\ rounds[w] <= Reloads
    /\ rpcLock[Owner[w]] = Free
    /\ \/ /\ Refused(w)
          /\ Return(w)
          /\ UNCHANGED rpcLock
       \/ /\ ~Refused(w)
          /\ rpcLock' = [rpcLock EXCEPT ![Owner[w]] = w]
          /\ Goto(w, "lock")
          /\ tries' = [tries EXCEPT ![w] = 0]
          /\ UNCHANGED <<op, rounds>>
    /\ UNCHANGED <<radosVars, local, version, spdk, readMark, updVars, rpcs, crashes>>

LockIsFree == excl = Free /\ shared = {}

\* rados.ObjectBusy: sleep with rpc_lock released.  An attempt made while
\* an update is active is not counted.
LockBusy(w) ==
    /\ pc[w] = "lock"
    /\ ~LockIsFree
    /\ tries' = [tries EXCEPT ![w] = IF upc[Owner[w]] = "idle" THEN @ + 1 ELSE @]
    /\ rpcLock' = [rpcLock EXCEPT ![Owner[w]] = Free]
    /\ Goto(w, "sleep")
    /\ UNCHANGED <<radosVars, local, version, spdk, readMark, updVars,
                   op, rounds, rpcs, crashes>>

Wake(w) ==
    /\ pc[w] = "sleep"
    /\ tries[w] <= LockRetries
    /\ rpcLock[Owner[w]] = Free
    /\ rpcLock' = [rpcLock EXCEPT ![Owner[w]] = w]
    /\ Goto(w, "lock")
    /\ UNCHANGED <<radosVars, local, version, spdk, readMark, updVars,
                   op, tries, rounds, rpcs, crashes>>

LockOmap(w) ==
    /\ pc[w] = "lock"
    /\ LockIsFree
    /\ ~readMark[Owner[w]]
    /\ excl' = w
    /\ Goto(w, "verify")
    /\ UNCHANGED <<omap, omapVersion, shared, hist, gwVars, updVars,
                   op, tries, rounds, rpcs, crashes>>

\* get_omap_version() against get_local_version()
NeverBehind(g) == FALSE \* a mutation
Behind(g) == omapVersion > version[g]

\* verify_versions: a local version behind the OMAP raises EAGAIN
Verify(w) ==
    /\ pc[w] = "verify"
    /\ \/ /\ ~Behind(Owner[w])
          /\ Goto(w, "spdk")
          /\ UNCHANGED <<excl, rpcLock>>
       \/ /\ Behind(Owner[w])
          /\ excl = w
          /\ excl' = Free
          /\ rpcLock' = [rpcLock EXCEPT ![Owner[w]] = Free]
          /\ Goto(w, "eagain")
    /\ UNCHANGED <<omap, omapVersion, shared, hist, local, version, spdk,
                   readMark, updVars, op, tries, rounds, rpcs, crashes>>

\* nvmf_create_subsystem / nvmf_delete_subsystem.  A delete that SPDK
\* rejects is still removed from the state.
Spdk(w) ==
    LET g == Owner[w]
        s == op[w].nqn
    IN  /\ pc[w] = "spdk"
        /\ \/ /\ op[w].kind = "create"
              /\ spdk[g][s] # 0 \/ SpdkFull(g)
              /\ Goto(w, "unlock")
              /\ UNCHANGED spdk
           \/ /\ op[w].kind = "create"
              /\ spdk[g][s] = 0 /\ ~SpdkFull(g)
              /\ spdk' = [spdk EXCEPT ![g][s] = op[w].id]
              /\ Goto(w, "commit")
           \/ /\ op[w].kind = "delete"
              /\ spdk' = [spdk EXCEPT ![g][s] = 0]
              /\ Goto(w, "commit")
        /\ UNCHANGED <<radosVars, local, version, rpcLock, readMark, updVars,
                       op, tries, rounds, rpcs, crashes>>

\* what the key of the request's subsystem becomes
NewValue(w) == IF op[w].kind = "create" THEN op[w].id ELSE 0

\* omap_cmp of the version key in the write operation
AnyVersion(g) == TRUE \* a mutation
SameVersion(g) == omapVersion = version[g]
\* version_update
SameVersionAgain(g) == version[g] \* a mutation
NextVersion(g) == version[g] + 1

\* OmapGatewayState._add_key/_remove_key: one write operation that compares
\* the version, changes the key and increments the version.  When the
\* comparison fails the RPC returns an error, with SPDK already changed.
Commit(w) ==
    /\ pc[w] = "commit"
    /\ \/ /\ SameVersion(Owner[w])
          /\ omap' = [omap EXCEPT ![op[w].nqn] = NewValue(w)]
          /\ omapVersion' = NextVersion(Owner[w])
          /\ hist' = [v \in 1..omapVersion' |->
                          IF v \in DOMAIN hist THEN hist[v] ELSE omap']
          /\ op' = [op EXCEPT ![w].ver = omapVersion']
          /\ Goto(w, "setver")
       \/ /\ ~SameVersion(Owner[w])
          /\ Goto(w, "unlock")
          /\ UNCHANGED <<omap, omapVersion, hist, op>>
    /\ UNCHANGED <<excl, shared, gwVars, updVars, tries, rounds, rpcs, crashes>>

\* self.version = version_update
SetVersion(w) ==
    /\ pc[w] = "setver"
    /\ version' = [version EXCEPT ![Owner[w]] = op[w].ver]
    /\ Goto(w, "local")
    /\ UNCHANGED <<radosVars, local, spdk, rpcLock, readMark, updVars,
                   op, tries, rounds, rpcs, crashes>>

\* LocalGatewayState._add_key/_remove_key
WriteLocal(w) ==
    /\ pc[w] = "local"
    /\ local' = [local EXCEPT ![Owner[w]][op[w].nqn] = NewValue(w)]
    /\ Goto(w, "unlock")
    /\ UNCHANGED <<radosVars, version, spdk, rpcLock, readMark, updVars,
                   op, tries, rounds, rpcs, crashes>>

Unlock(w) ==
    /\ pc[w] = "unlock"
    /\ excl = w
    /\ excl' = Free
    /\ rpcLock' = [rpcLock EXCEPT ![Owner[w]] = Free]
    /\ Return(w)
    /\ UNCHANGED <<omap, omapVersion, shared, hist, local, version, spdk,
                   readMark, updVars, rpcs, crashes>>

\* execute_omap_locking_function after EAGAIN: run an update, or wait for the
\* active one and, after ten refusals, retry anyway
Reload(w) ==
    LET g == Owner[w]
    IN  /\ pc[w] = "eagain"
        /\ Reloads > 0
        /\ \/ /\ upc[g] = "idle"
              /\ upc' = [upc EXCEPT ![g] = "lock"]
              /\ uby' = [uby EXCEPT ![g] = w]
              /\ Goto(w, "reload")
              /\ UNCHANGED rounds
           \/ /\ upc[g] # "idle"
              /\ rounds' = [rounds EXCEPT ![w] = @ + 1]
              /\ Goto(w, "enter")
              /\ UNCHANGED <<upc, uby>>
        /\ UNCHANGED <<radosVars, gwVars, snap, todo, periodicUp, op, tries, rpcs, crashes>>

(***************************************************************************)
(* The errors a worker does not handle: execute_grpc_function aborts the   *)
(* gateway.                                                                *)
(***************************************************************************)
\* no lock after omap_file_lock_retries, or no current state after
\* omap_file_update_reloads
TriesExhausted(w) ==
    /\ \/ pc[w] = "sleep" /\ tries[w] > LockRetries /\ rpcLock[Owner[w]] = Free
       \/ pc[w] = "enter" /\ rounds[w] > Reloads
       \/ pc[w] = "eagain" /\ Reloads = 0
    /\ Abort(Owner[w])

\* rados.ObjectNotFound on unlock: the lock expired under the operation
LockWasLost(w) ==
    /\ \/ pc[w] = "unlock"
       \/ pc[w] = "verify" /\ Behind(Owner[w])
    /\ excl # w
    /\ Abort(Owner[w])

\* "Got exclusive lock with shared locks": the assertion fails before the
\* new cookie is listed, so the lock is left behind
StaleReadMark(w) ==
    /\ pc[w] = "lock"
    /\ LockIsFree
    /\ readMark[Owner[w]]
    /\ Fresh(Owner[w])
    /\ excl' = Dead
    /\ UNCHANGED <<shared, crashes>>

(***************************************************************************)
(* GatewayStateHandler.update()                                            *)
(***************************************************************************)
UpdGoto(g, label) == upc' = [upc EXCEPT ![g] = label]

\* update() returns; a worker that called it goes on to its next attempt
UpdReturn(g) ==
    /\ UpdGoto(g, "idle")
    /\ uby' = [uby EXCEPT ![g] = Periodic]
    /\ snap' = [snap EXCEPT ![g] = NoSnap]
    /\ todo' = [todo EXCEPT ![g] = NoTodo]
    /\ pc' = [w \in Workers |-> IF w = uby[g] THEN "enter" ELSE pc[w]]
    /\ rounds' = [w \in Workers |-> IF w = uby[g] THEN rounds[w] + 1 ELSE rounds[w]]

\* _update_caller: the timer or a notification
PeriodicUpdate(g) ==
    /\ periodicUp[g]
    /\ upc[g] = "idle"
    /\ UpdGoto(g, "lock")
    /\ UNCHANGED <<radosVars, gwVars, uby, snap, todo, periodicUp, workerVars>>

ReadLockIsFree == excl = Free

\* OmapReadGuard.__enter__.  update_is_active_lock is held, so no attempt
\* counts and the reader tries until it has the lock.
UpdLock(g) ==
    /\ LockOnRead
    /\ upc[g] = "lock"
    /\ ReadLockIsFree
    /\ shared' = shared \cup {g}
    /\ readMark' = [readMark EXCEPT ![g] = TRUE]
    /\ UpdGoto(g, "read")
    /\ UNCHANGED <<omap, omapVersion, excl, hist, local, version, spdk, rpcLock,
                   uby, snap, todo, periodicUp, workerVars>>

\* read_omap_values and OmapReadGuard.__exit__
UpdRead(g) ==
    /\ \/ /\ upc[g] = "read"
          /\ g \in shared
       \/ /\ upc[g] = "lock"
          /\ ~LockOnRead
    /\ snap' = [snap EXCEPT ![g] = [ver |-> omapVersion, st |-> omap]]
    /\ shared' = shared \ {g}
    /\ readMark' = [readMark EXCEPT ![g] = FALSE]
    /\ UpdGoto(g, "compare")
    /\ UNCHANGED <<omap, omapVersion, excl, hist, local, version, spdk, rpcLock,
                   uby, todo, periodicUp, workerVars>>

\* ObjectNotFound on the read unlock: update() raises.  The periodic thread
\* dies of it, a worker aborts the gateway.
UpdReadLost(g) ==
    /\ upc[g] = "read"
    /\ g \notin shared
    /\ \/ /\ uby[g] = Periodic
          /\ UpdGoto(g, "idle")
          /\ periodicUp' = [periodicUp EXCEPT ![g] = FALSE]
          /\ UNCHANGED <<radosVars, gwVars, uby, snap, todo, workerVars>>
       \/ /\ uby[g] \in Workers
          /\ Abort(g)

\* The differences between the OMAP read and the local state.  The groups of
\* removed and added keys are overwritten, not extended, by the group of the
\* changed ones (dict.update on the prefix), and all keys here have the
\* subsystem prefix.
Changed(old, new) == {s \in Present(old) \cap Present(new) : old[s] # new[s]}
GroupedUpdate(group, changed) == IF changed = {} THEN group ELSE changed
DifferencesOfKeys(old, new) == \* a mutation
    [del |-> Present(old) \ Present(new), add |-> Present(new) \ Present(old)]
Differences(old, new) ==
    [del |-> GroupedUpdate(Present(old) \ Present(new), Changed(old, new)),
     add |-> GroupedUpdate(Present(new) \ Present(old), Changed(old, new))]

\* local_version < omap_version
StaleByTwo(g) == version[g] + 1 < snap[g].ver \* a mutation
Stale(g) == version[g] < snap[g].ver

UpdCompare(g) ==
    /\ upc[g] = "compare"
    /\ \/ /\ Stale(g)
          /\ todo' = [todo EXCEPT ![g] = Differences(local[g], snap[g].st)]
          /\ UpdGoto(g, "apply")
          /\ UNCHANGED <<uby, snap, pc, rounds>>
       \/ /\ ~Stale(g)
          /\ UpdReturn(g)
    /\ UNCHANGED <<radosVars, gwVars, periodicUp, op, tries, rpcs, crashes>>

\* gateway_rpc_caller: delete_subsystem(context=None), under rpc_lock and
\* without the OMAP lock
UpdDelete(g) ==
    /\ upc[g] = "apply"
    /\ rpcLock[g] = Free
    /\ \E s \in todo[g].del :
          /\ spdk' = [spdk EXCEPT ![g][s] = 0]
          /\ todo' = [todo EXCEPT ![g].del = @ \ {s}]
    /\ UNCHANGED <<radosVars, local, version, rpcLock, readMark,
                   upc, uby, snap, periodicUp, workerVars>>

\* create_subsystem(context=None); its errors are ignored by update()
UpdCreate(g) ==
    /\ upc[g] = "apply"
    /\ rpcLock[g] = Free
    /\ todo[g].del = {}
    /\ \E s \in todo[g].add :
          /\ spdk' = IF spdk[g][s] # 0 \/ SpdkFull(g)
                     THEN spdk
                     ELSE [spdk EXCEPT ![g][s] = snap[g].st[s]]
          /\ todo' = [todo EXCEPT ![g].add = @ \ {s}]
    /\ UNCHANGED <<radosVars, local, version, rpcLock, readMark,
                   upc, uby, snap, periodicUp, workerVars>>

\* self.local.reset(omap_state_dict)
UpdReset(g) ==
    /\ upc[g] = "apply"
    /\ todo[g] = NoTodo
    /\ local' = [local EXCEPT ![g] = snap[g].st]
    /\ UpdGoto(g, "setver")
    /\ UNCHANGED <<radosVars, version, spdk, rpcLock, readMark,
                   uby, snap, todo, periodicUp, workerVars>>

\* self.omap.set_local_version(omap_version)
UpdSetVersion(g) ==
    /\ upc[g] = "setver"
    /\ version' = [version EXCEPT ![g] = snap[g].ver]
    /\ UpdReturn(g)
    /\ UNCHANGED <<radosVars, local, spdk, rpcLock, readMark, periodicUp,
                   op, tries, rpcs, crashes>>

(***************************************************************************)
(* RADOS drops a lock when its duration is over.                           *)
(***************************************************************************)
ExpireDead ==
    /\ \/ /\ excl = Dead
          /\ excl' = Free
          /\ UNCHANGED shared
       \/ /\ Dead \in shared
          /\ shared' = shared \ {Dead}
          /\ UNCHANGED excl
    /\ UNCHANGED <<omap, omapVersion, hist, gwVars, updVars, workerVars>>

\* the holder still works under the lock it has lost
ExpireLive ==
    /\ LockMayExpire
    /\ \/ /\ excl \in Workers
          /\ excl' = Free
          /\ UNCHANGED shared
       \/ /\ UNCHANGED excl
          /\ \E g \in shared \ {Dead} : shared' = shared \ {g}
    /\ UNCHANGED <<omap, omapVersion, hist, gwVars, updVars, workerVars>>

WorkerStep(w) ==
    \/ Enter(w) \/ LockBusy(w) \/ Wake(w) \/ LockOmap(w) \/ Verify(w)
    \/ Spdk(w) \/ Commit(w) \/ SetVersion(w) \/ WriteLocal(w) \/ Unlock(w)
    \/ Reload(w) \/ TriesExhausted(w) \/ LockWasLost(w) \/ StaleReadMark(w)

UpdateStep(g) ==
    \/ PeriodicUpdate(g) \/ UpdLock(g) \/ UpdRead(g) \/ UpdReadLost(g)
    \/ UpdCompare(g) \/ UpdDelete(g) \/ UpdCreate(g) \/ UpdReset(g)
    \/ UpdSetVersion(g)

Expire == ExpireDead \/ ExpireLive

Next ==
    \/ \E w \in Workers : Request(w) \/ WorkerStep(w)
    \/ \E g \in Gateways : UpdateStep(g) \/ Crash(g)
    \/ Expire

Spec == Init /\ [][Next]_vars

(***************************************************************************)
(* Properties                                                              *)
(***************************************************************************)
\* the worker of g that is between its OMAP write and the local writes
Writing(g) == {w \in Mine(g) : pc[w] \in {"setver", "local"}}
\* the update of g has replaced the local state and not yet the version
Replacing(g) == upc[g] = "setver"
\* nothing of g is under way between its SPDK target and its local state
Settled(g) ==
    /\ upc[g] \notin {"apply", "setver"}
    /\ \A w \in Mine(g) : pc[w] \notin {"commit", "setver", "local", "unlock"}

\* The local state of a gateway is the OMAP as it was at the gateway's local
\* version: reading under the shared lock and comparing versions on write is
\* enough for no gateway to work from a mixture of two versions (update(),
\* _add_key, lock_omap).
LocalIsOfItsVersion ==
    \A g \in Gateways :
        Writing(g) = {} /\ ~Replacing(g) =>
            version[g] \in 1..omapVersion /\ local[g] = hist[version[g]]

\* The SPDK target of a gateway holds exactly the subsystems of its local
\* state whenever neither an RPC nor an update is between the two (update(),
\* create_subsystem_safe, delete_subsystem_safe).
SpdkFollowsLocal == \A g \in Gateways : Settled(g) => spdk[g] = local[g]

\* A gateway never goes on without the thread that polls for updates: an
\* unlock error stops the whole gateway (OmapLock, omap_file_ignore_unlock_errors).
PollingNeverStops == \A g \in Gateways : periodicUp[g]

\* A write to the OMAP replaces exactly the content the writer has in its
\* local state, so a change of another gateway is never overwritten unseen
\* (omap_cmp on the version, verify_versions).
NoLostUpdate ==
    [][\A w \in Workers : pc[w] = "commit" /\ pc'[w] = "setver" =>
          omap = local[Owner[w]] /\ omapVersion' = omapVersion + 1]_vars

\* The local state a request was checked against is still the local state
\* when the request is written, although update() runs in another thread and
\* takes neither the exclusive lock nor, without a difference, rpc_lock.
CheckedStateHolds ==
    [][\A w \in Workers :
          pc[w] \in {"spdk", "commit"} /\ pc'[w] \in {"commit", "setver"} =>
              local'[Owner[w]] = local[Owner[w]]]_vars

\* A running gateway never goes back to an older version (the shared lock of
\* update() keeps a writer of the same gateway out while it reads).
VersionNeverBack ==
    [][\A g \in Gateways :
          version'[g] < version[g] =>
              version'[g] = 1 /\ spdk'[g] = Empty /\ upc'[g] = "idle"
              /\ \A w \in Mine(g) : pc'[w] = "idle"]_vars

\* A request that returns after its OMAP write is, at that moment, the latest
\* word on its subsystem in the OMAP, in the local state and in SPDK
\* (OmapWriteGuard.__exit__ unlocks after all three).
ReturnedRequestIsInEffect ==
    [][\A w \in Workers :
          pc[w] = "unlock" /\ op[w].ver # 0 /\ pc'[w] = "idle" /\ excl = w =>
              LET g == Owner[w]
                  s == op[w].nqn
              IN  omap[s] = NewValue(w) /\ local[g][s] = omap[s]
                  /\ spdk[g][s] = omap[s]]_vars

(***************************************************************************)
(* The OMAP, its version key and update() implement GroupState.  A write   *)
(* takes effect with the OMAP operation, also for the writer, whose        *)
(* version and local state follow in the next two steps.                   *)
(***************************************************************************)
Seen == [g \in Gateways |->
    IF Writing(g) # {} THEN op[CHOOSE w \in Writing(g) : TRUE].ver
    ELSE IF Replacing(g) THEN snap[g].ver ELSE version[g]]

Copy == [g \in Gateways |->
    IF Writing(g) = {} THEN local[g]
    ELSE LET w == CHOOSE v \in Writing(g) : TRUE
         IN  [local[g] EXCEPT ![op[w].nqn] = NewValue(w)]]

Group == INSTANCE GroupState WITH
    latest <- omapVersion, history <- hist, seen <- Seen, copy <- Copy

\* The gateways of a group share one linear history of the OMAP: every step
\* of the threads is a publication of one change by a gateway that has seen
\* all others, one gateway catching up, a restart, or nothing at all.
ImplementsGroupState == Group!StateSpec

(***************************************************************************)
(* Every thread goes on.  An RPC of update() waits on rpc_lock, which its   *)
(* holders give up for whole seconds in lock_omap, so it gets the lock if  *)
(* the lock is free again and again.  The lock of a dead process expires.  *)
(***************************************************************************)
Fairness ==
    /\ \A w \in Workers : WF_vars(WorkerStep(w))
    /\ \A g \in Gateways :
          WF_vars(UpdateStep(g)) /\ SF_vars(UpdDelete(g) \/ UpdCreate(g))
    /\ WF_vars(ExpireDead)

FairSpec == Spec /\ Fairness

Current(g) == version[g] = omapVersion /\ local[g] = omap /\ spdk[g] = omap

\* When requests and crashes have ceased every gateway, restarted ones
\* included, ends up with the OMAP's version and content and with the OMAP's
\* subsystems in SPDK (_update_caller, update()).
EveryGatewayCatchesUp == <>[](\A g \in Gateways : Current(g))

=============================================================================

-------------------------- MODULE OmapGroupProofs --------------------------
(***************************************************************************)
(* Proofs about OmapGroup for every set of gateways, worker threads and    *)
(* subsystems, and every number of requests and crashes.                   *)
(***************************************************************************)
EXTENDS OmapGroupInv, FiniteSetTheorems, TLAPS

(***************************************************************************)
(* Type correctness                                                        *)
(***************************************************************************)
LEMMA NoOpType == NoOp \in Ops
  BY BoundAssumption DEF NoOp, Ops

LEMMA EmptyType == Empty \in Content
  BY DEF Empty, Content

LEMMA NoSnapType == NoSnap \in [ver : Nat, st : Content]
  BY EmptyType DEF NoSnap

LEMMA NoTodoType ==
    NoTodo \in [del : SUBSET Subsystems, add : SUBSET Subsystems]
  BY DEF NoTodo

\* Writing one key of one gateway's copy leaves every copy a content.
LEMMA OneKeyType ==
    ASSUME NEW f \in [Gateways -> Content], NEW g \in Gateways,
           NEW s \in Subsystems, NEW n \in Nat
    PROVE  [f EXCEPT ![g][s] = n] \in [Gateways -> Content]
  BY DEF Content

LEMMA OpType ==
    ASSUME TypeOK, NEW w \in Workers
    PROVE  /\ op[w].nqn \in Subsystems
           /\ op[w].id \in Nat
           /\ op[w].ver \in Nat
           /\ NewValue(w) \in Nat
  BY DEF TypeOK, Ops, NewValue

\* A process that starts has the right types, whatever the old one was at.
LEMMA FreshType ==
    ASSUME TypeOK, NEW g \in Gateways, Fresh(g),
           excl' \in Workers \cup {Free, Dead}, shared' \subseteq Gateways \cup {Dead},
           crashes' \in Nat
    PROVE  TypeOK'
  BY NoOpType, EmptyType, NoSnapType, NoTodoType DEF TypeOK, Fresh, FirstVersion

LEMMA AbortType ==
    ASSUME TypeOK, NEW g \in Gateways, Abort(g)
    PROVE  TypeOK'
  <1>1. excl' \in Workers \cup {Free, Dead} /\ shared' \subseteq Gateways \cup {Dead}
    BY DEF TypeOK, Abort
  <1>2. Fresh(g) /\ crashes' \in Nat
    BY DEF TypeOK, Abort
  <1> QED
    BY <1>1, <1>2, FreshType

LEMMA WorkerStepType ==
    ASSUME TypeOK, NEW w \in Workers, WorkerStep(w)
    PROVE  TypeOK'
  <1> DEFINE g == Owner[w]
  <1> g \in Gateways
    BY OwnerAssumption
  <1>1. CASE Enter(w)
    <2>1. CASE Return(w) /\ UNCHANGED rpcLock
      BY <1>1, <2>1, NoOpType DEF TypeOK, Enter, Return, Goto, radosVars, updVars
    <2>2. CASE /\ rpcLock' = [rpcLock EXCEPT ![g] = w]
               /\ Goto(w, "lock")
               /\ tries' = [tries EXCEPT ![w] = 0]
               /\ UNCHANGED <<op, rounds>>
      BY <1>1, <2>2 DEF TypeOK, Enter, Goto, radosVars, updVars
    <2> QED
      BY <1>1, <2>1, <2>2 DEF Enter
  <1>2. CASE LockBusy(w)
    BY <1>2 DEF TypeOK, LockBusy, Goto, radosVars, updVars
  <1>3. CASE Wake(w)
    BY <1>3 DEF TypeOK, Wake, Goto, radosVars, updVars
  <1>4. CASE LockOmap(w)
    BY <1>4 DEF TypeOK, LockOmap, Goto, gwVars, updVars
  <1>5. CASE Verify(w)
    BY <1>5 DEF TypeOK, Verify, Goto, updVars
  <1>6. CASE Spdk(w)
    <2>1. spdk \in [Gateways -> Content] /\ 0 \in Nat
      BY DEF TypeOK
    <2>3. \/ spdk' = spdk
          \/ spdk' = [spdk EXCEPT ![g][op[w].nqn] = op[w].id]
          \/ spdk' = [spdk EXCEPT ![g][op[w].nqn] = 0]
      BY <1>6 DEF Spdk
    <2>4. spdk' \in [Gateways -> Content]
      BY <2>1, <2>3, OpType, OneKeyType
    <2>2. pc' = [pc EXCEPT ![w] = "unlock"] \/ pc' = [pc EXCEPT ![w] = "commit"]
      BY <1>6 DEF Spdk, Goto
    <2> QED
      BY <1>6, <2>2, <2>4 DEF TypeOK, Spdk, radosVars, updVars
  <1>7. CASE Commit(w)
    <2>1. CASE SameVersion(g) /\ pc' = [pc EXCEPT ![w] = "setver"]
      <3>1. omapVersion' = omapVersion + 1
        BY <1>7, <2>1 DEF TypeOK, Commit, SameVersion, NextVersion
      <3>2. omap' = [omap EXCEPT ![op[w].nqn] = NewValue(w)]
        BY <1>7, <2>1 DEF Commit
      <3>3. omap' \in Content
        BY <3>2, OpType DEF TypeOK, Content
      <3>4. hist' = [v \in 1..omapVersion' |->
                        IF v \in DOMAIN hist THEN hist[v] ELSE omap']
        BY <1>7, <2>1 DEF Commit
      <3>5. hist' \in [1..omapVersion' -> Content]
        BY <3>3, <3>4 DEF TypeOK
      <3>6. op' = [op EXCEPT ![w].ver = omapVersion']
        BY <1>7, <2>1 DEF Commit
      <3>7. op' \in [Workers -> Ops]
        <4>1. omapVersion' \in Nat /\ op \in [Workers -> Ops]
          BY <3>1 DEF TypeOK
        <4>2. [op[w] EXCEPT !.ver = omapVersion'] \in Ops
          BY <4>1 DEF Ops
        <4> QED
          BY <3>6, <4>1, <4>2
      <3>8. omapVersion' \in Nat \ {0}
        BY <3>1 DEF TypeOK
      <3>9. UNCHANGED <<excl, shared, gwVars, updVars, tries, rounds, rpcs, crashes>>
        BY <1>7 DEF Commit
      <3> QED
        BY <2>1, <3>3, <3>5, <3>7, <3>8, <3>9 DEF TypeOK, gwVars, updVars
    <2>2. CASE ~SameVersion(g) /\ pc' = [pc EXCEPT ![w] = "unlock"]
      BY <1>7, <2>2 DEF TypeOK, Commit, gwVars, updVars
    <2> QED
      BY <1>7, <2>1, <2>2 DEF Commit, Goto
  <1>8. CASE SetVersion(w)
    BY <1>8, OpType DEF TypeOK, SetVersion, Goto, radosVars, updVars
  <1>9. CASE WriteLocal(w)
    <2>1. local' \in [Gateways -> Content]
      BY <1>9, OpType, OneKeyType DEF TypeOK, WriteLocal
    <2> QED
      BY <1>9, <2>1 DEF TypeOK, WriteLocal, Goto, radosVars, updVars
  <1>10. CASE Unlock(w)
    BY <1>10, NoOpType DEF TypeOK, Unlock, Return, Goto, updVars
  <1>11. CASE Reload(w)
    <2>1. CASE /\ upc' = [upc EXCEPT ![g] = "lock"]
               /\ uby' = [uby EXCEPT ![g] = w]
               /\ Goto(w, "reload")
               /\ UNCHANGED rounds
      BY <1>11, <2>1 DEF TypeOK, Reload, Goto, radosVars, gwVars
    <2>2. CASE /\ rounds' = [rounds EXCEPT ![w] = @ + 1]
               /\ Goto(w, "enter")
               /\ UNCHANGED <<upc, uby>>
      BY SMTT(30), <1>11, <2>2 DEF TypeOK, Reload, Goto, radosVars, gwVars
    <2> QED
      BY <1>11, <2>1, <2>2 DEF Reload
  <1>12. CASE TriesExhausted(w)
    BY <1>12, AbortType DEF TriesExhausted
  <1>13. CASE LockWasLost(w)
    BY <1>13, AbortType DEF LockWasLost
  <1>14. CASE StaleReadMark(w)
    BY <1>14, FreshType DEF StaleReadMark, TypeOK
  <1> QED
    BY <1>1, <1>2, <1>3, <1>4, <1>5, <1>6, <1>7, <1>8, <1>9, <1>10, <1>11,
       <1>12, <1>13, <1>14 DEF WorkerStep

LEMMA UpdReturnType ==
    ASSUME TypeOK, NEW g \in Gateways, UpdReturn(g)
    PROVE  /\ upc' \in [Gateways -> {"idle", "lock", "read", "compare",
                                     "apply", "setver"}]
           /\ uby' \in [Gateways -> Workers \cup {Periodic}]
           /\ snap' \in [Gateways -> [ver : Nat, st : Content]]
           /\ todo' \in [Gateways -> [del : SUBSET Subsystems,
                                      add : SUBSET Subsystems]]
           /\ pc' \in [Workers -> {"idle", "enter", "lock", "sleep", "verify",
                                   "spdk", "commit", "setver", "local",
                                   "unlock", "eagain", "reload"}]
           /\ rounds' \in [Workers -> Nat]
  BY NoSnapType, NoTodoType DEF TypeOK, UpdReturn, UpdGoto

LEMMA DifferencesType ==
    ASSUME NEW old \in Content, NEW new \in Content
    PROVE  Differences(old, new) \in
               [del : SUBSET Subsystems, add : SUBSET Subsystems]
  BY DEF Differences, GroupedUpdate, Changed, Present

LEMMA UpdateStepType ==
    ASSUME TypeOK, NEW g \in Gateways, UpdateStep(g)
    PROVE  TypeOK'
  <1>1. CASE PeriodicUpdate(g)
    BY <1>1 DEF TypeOK, PeriodicUpdate, UpdGoto, radosVars, gwVars, workerVars
  <1>2. CASE UpdLock(g)
    BY <1>2 DEF TypeOK, UpdLock, UpdGoto, workerVars
  <1>3. CASE UpdRead(g)
    <2>1. [ver |-> omapVersion, st |-> omap] \in [ver : Nat, st : Content]
      BY DEF TypeOK
    <2> QED
      BY <1>3, <2>1 DEF TypeOK, UpdRead, UpdGoto, workerVars
  <1>4. CASE UpdReadLost(g)
    <2>1. CASE Abort(g)
      BY <2>1, AbortType
    <2>2. CASE ~Abort(g)
      BY ZenonT(60), <1>4, <2>2
      DEF TypeOK, UpdReadLost, UpdGoto, radosVars, gwVars, workerVars
    <2> QED
      BY <2>1, <2>2
  <1>5. CASE UpdCompare(g)
    <2>1. CASE UpdReturn(g)
      BY <1>5, <2>1, UpdReturnType DEF TypeOK, UpdCompare, UpdReturn, radosVars, gwVars
    <2>2. CASE /\ todo' = [todo EXCEPT ![g] = Differences(local[g], snap[g].st)]
               /\ UpdGoto(g, "apply")
               /\ UNCHANGED <<uby, snap, pc, rounds>>
      <3>1. Differences(local[g], snap[g].st) \in
                [del : SUBSET Subsystems, add : SUBSET Subsystems]
        BY DifferencesType DEF TypeOK
      <3> QED
        BY <1>5, <2>2, <3>1 DEF TypeOK, UpdCompare, UpdGoto, radosVars, gwVars
    <2> QED
      BY <1>5, <2>1, <2>2 DEF UpdCompare
  <1>6. CASE UpdDelete(g)
    <2>1. PICK s \in todo[g].del :
              /\ spdk' = [spdk EXCEPT ![g][s] = 0]
              /\ todo' = [todo EXCEPT ![g].del = @ \ {s}]
      BY <1>6 DEF UpdDelete
    <2>2. s \in Subsystems /\ spdk' \in [Gateways -> Content]
      BY <2>1, OneKeyType DEF TypeOK
    <2>3. todo' \in [Gateways -> [del : SUBSET Subsystems, add : SUBSET Subsystems]]
      BY ZenonT(60), <2>1 DEF TypeOK
    <2> QED
      BY <1>6, <2>2, <2>3 DEF TypeOK, UpdDelete, radosVars, workerVars
  <1>7. CASE UpdCreate(g)
    <2>1. PICK s \in todo[g].add :
              /\ spdk' = IF spdk[g][s] # 0 \/ SpdkFull(g) THEN spdk
                         ELSE [spdk EXCEPT ![g][s] = snap[g].st[s]]
              /\ todo' = [todo EXCEPT ![g].add = @ \ {s}]
      BY <1>7 DEF UpdCreate
    <2>2. s \in Subsystems /\ snap[g].st[s] \in Nat
      BY <2>1 DEF TypeOK, Content
    <2>3. spdk' \in [Gateways -> Content]
      BY <2>1, <2>2, OneKeyType DEF TypeOK
    <2>4. todo' \in [Gateways -> [del : SUBSET Subsystems, add : SUBSET Subsystems]]
      BY ZenonT(60), <2>1 DEF TypeOK
    <2> QED
      BY <1>7, <2>3, <2>4 DEF TypeOK, UpdCreate, radosVars, workerVars
  <1>8. CASE UpdReset(g)
    BY <1>8 DEF TypeOK, UpdReset, UpdGoto, radosVars, workerVars
  <1>9. CASE UpdSetVersion(g)
    <2>1. version' \in [Gateways -> Nat]
      BY <1>9 DEF TypeOK, UpdSetVersion
    <2> QED
      BY <1>9, <2>1, UpdReturnType DEF TypeOK, UpdSetVersion, radosVars
  <1> QED
    BY <1>1, <1>2, <1>3, <1>4, <1>5, <1>6, <1>7, <1>8, <1>9 DEF UpdateStep

\* The model's variables keep their types: every thread stays in the control
\* flow of execute_grpc_function, lock_omap and update().
THEOREM TypeCorrect == Spec => []TypeOK
  <1>1. Init => TypeOK
    BY NoOpType, EmptyType, NoSnapType, NoTodoType DEF Init, TypeOK, FirstVersion
  <1>2. TypeOK /\ [Next]_vars => TypeOK'
    <2> SUFFICES ASSUME TypeOK, [Next]_vars PROVE TypeOK'
      OBVIOUS
    <2>1. ASSUME NEW w \in Workers, Request(w) PROVE TypeOK'
      <3>1. PICK kind \in {"create", "delete"}, s \in Subsystems :
                op' = [op EXCEPT ![w] = [kind |-> kind, nqn |-> s,
                                         id |-> rpcs + 1, ver |-> 0]]
        BY <2>1 DEF Request
      <3>2. op' \in [Workers -> Ops]
        BY <3>1 DEF TypeOK, Ops
      <3> QED
        BY <2>1, <3>2 DEF TypeOK, Request, Goto, radosVars, gwVars, updVars
    <2>2. ASSUME NEW w \in Workers, WorkerStep(w) PROVE TypeOK'
      BY <2>2, WorkerStepType
    <2>3. ASSUME NEW g \in Gateways, UpdateStep(g) PROVE TypeOK'
      BY <2>3, UpdateStepType
    <2>4. ASSUME NEW g \in Gateways, Crash(g) PROVE TypeOK'
      <3>1. /\ excl' \in Workers \cup {Free, Dead}
            /\ shared' \subseteq Gateways \cup {Dead}
            /\ crashes' \in Nat
        BY <2>4 DEF TypeOK, Crash
      <3> QED
        BY <2>4, <3>1, FreshType DEF Crash
    <2>5. CASE Expire
      BY <2>5 DEF TypeOK, Expire, ExpireDead, ExpireLive, gwVars, updVars, workerVars
    <2>6. CASE UNCHANGED vars
      BY <2>6 DEF TypeOK, vars, radosVars, gwVars, updVars, workerVars
    <2> QED
      BY <2>1, <2>2, <2>3, <2>4, <2>5, <2>6 DEF Next
  <1> QED
    BY <1>1, <1>2, PTL DEF Spec

(***************************************************************************)
(* The inductive invariant GroupInv, one lemma per action.                 *)
(***************************************************************************)
\* rpc_lock is taken, nothing of the state changes
LEMMA EnterKeeps ==
    ASSUME GroupInv, TypeOK', LockOnRead, ~LockMayExpire,
           NEW w \in Workers, Enter(w)
    PROVE  GroupInv'
  <1> Owner[w] \in Gateways
    BY OwnerAssumption
  <1>1. LockInv'
    BY DEF GroupInv, LockInv, Enter, Return, Goto, radosVars, updVars,
       TypeOK, UnderLock
  <1>2. HistoryInv'
    BY DEF GroupInv, HistoryInv, Enter, radosVars
  <1>3. WorkerInv'
    <2>1. \A v \in Workers : pc[v] \in UnderLock \/ pc'[v] \in UnderLock =>
              pc'[v] = pc[v] /\ op'[v] = op[v]
      BY SMTT(30) DEF GroupInv, TypeOK, Enter, Return, Goto, UnderLock
    <2>2. UNCHANGED <<omap, omapVersion, local, version, upc, snap>>
      BY DEF Enter, radosVars, updVars
    <2> QED
      BY <2>1, <2>2 DEF GroupInv, WorkerInv, NewValue, UnderLock
  <1>4. UpdateInv'
    BY DEF GroupInv, UpdateInv, Enter, Return, Goto, radosVars, updVars,
       TypeOK, Mine
  <1>5. LocalInv'
    BY DEF GroupInv, LocalInv, Enter, Return, Goto, radosVars, updVars,
       TypeOK, Mine
  <1>6. CallerInv'
    BY OwnerAssumption, HolderAssumption DEF GroupInv, CallerInv, Enter,
       Return, Goto, radosVars, updVars, TypeOK
  <1> QED
    BY <1>1, <1>2, <1>3, <1>4, <1>5, <1>6 DEF GroupInv

\* the exclusive lock is held by another, the worker sleeps
LEMMA LockBusyKeeps ==
    ASSUME GroupInv, TypeOK', LockOnRead, ~LockMayExpire,
           NEW w \in Workers, LockBusy(w)
    PROVE  GroupInv'
  <1> Owner[w] \in Gateways
    BY OwnerAssumption
  <1>1. LockInv'
    BY DEF GroupInv, LockInv, LockBusy, Goto, radosVars, updVars, TypeOK,
       UnderLock
  <1>2. HistoryInv'
    BY DEF GroupInv, HistoryInv, LockBusy, radosVars
  <1>3. WorkerInv'
    BY DEF GroupInv, WorkerInv, LockBusy, Goto, radosVars, updVars, TypeOK,
       NewValue
  <1>4. UpdateInv'
    BY DEF GroupInv, UpdateInv, LockBusy, Goto, radosVars, updVars
  <1>5. LocalInv'
    BY DEF GroupInv, LocalInv, LockBusy, Goto, radosVars, updVars
  <1>6. CallerInv'
    BY DEF GroupInv, CallerInv, LockBusy, Goto, updVars
  <1> QED
    BY <1>1, <1>2, <1>3, <1>4, <1>5, <1>6 DEF GroupInv

\* the worker has slept and has rpc_lock again
LEMMA WakeKeeps ==
    ASSUME GroupInv, TypeOK', LockOnRead, ~LockMayExpire,
           NEW w \in Workers, Wake(w)
    PROVE  GroupInv'
  <1> Owner[w] \in Gateways
    BY OwnerAssumption
  <1>1. LockInv'
    BY DEF GroupInv, LockInv, Wake, Goto, radosVars, updVars, TypeOK,
       UnderLock
  <1>2. HistoryInv'
    BY DEF GroupInv, HistoryInv, Wake, radosVars
  <1>3. WorkerInv'
    BY DEF GroupInv, WorkerInv, Wake, Goto, radosVars, updVars, TypeOK,
       NewValue
  <1>4. UpdateInv'
    BY DEF GroupInv, UpdateInv, Wake, Goto, radosVars, updVars
  <1>5. LocalInv'
    BY DEF GroupInv, LocalInv, Wake, Goto, radosVars, updVars
  <1>6. CallerInv'
    BY DEF GroupInv, CallerInv, Wake, Goto, updVars
  <1> QED
    BY <1>1, <1>2, <1>3, <1>4, <1>5, <1>6 DEF GroupInv

\* the exclusive lock is granted
LEMMA LockOmapKeeps ==
    ASSUME GroupInv, TypeOK', LockOnRead, ~LockMayExpire,
           NEW w \in Workers, LockOmap(w)
    PROVE  GroupInv'
  <1> Owner[w] \in Gateways
    BY OwnerAssumption
  <1>1. LockInv'
    BY OwnerAssumption, HolderAssumption DEF GroupInv, LockInv, LockOmap,
       Goto, gwVars, updVars, LockIsFree, TypeOK, UnderLock
  <1>2. HistoryInv'
    BY DEF GroupInv, HistoryInv, LockOmap, gwVars, LockIsFree
  <1>3. WorkerInv'
    BY DEF GroupInv, WorkerInv, LockOmap, Goto, gwVars, updVars,
       LockIsFree, TypeOK, NewValue
  <1>4. UpdateInv'
    BY DEF GroupInv, UpdateInv, LockOmap, Goto, gwVars, updVars, LockIsFree
  <1>5. LocalInv'
    BY DEF GroupInv, LocalInv, LockOmap, Goto, gwVars, updVars, LockIsFree
  <1>6. CallerInv'
    BY DEF GroupInv, CallerInv, LockOmap, Goto, updVars, LockIsFree
  <1> QED
    BY <1>1, <1>2, <1>3, <1>4, <1>5, <1>6 DEF GroupInv

\* only a current local version goes on under the lock
LEMMA VerifyKeeps ==
    ASSUME GroupInv, TypeOK', LockOnRead, ~LockMayExpire,
           NEW w \in Workers, Verify(w)
    PROVE  GroupInv'
  <1> Owner[w] \in Gateways
    BY OwnerAssumption
  <1>1. LockInv'
    BY DEF GroupInv, LockInv, Verify, Goto, updVars, Behind, TypeOK,
       UnderLock
  <1>2. HistoryInv'
    BY DEF GroupInv, HistoryInv, Verify, Behind
  <1>3. WorkerInv'
    BY SMTT(30) DEF GroupInv, WorkerInv, Verify, Goto, updVars, Behind, TypeOK,
       LockInv, UnderLock, UpdateInv, NewValue, Mine, HistoryInv
  <1>4. UpdateInv'
    BY DEF GroupInv, UpdateInv, Verify, Goto, updVars, Behind, TypeOK, Mine
  <1>5. LocalInv'
    BY DEF GroupInv, LocalInv, Verify, Goto, updVars, Behind, TypeOK, Mine
  <1>6. CallerInv'
    BY OwnerAssumption, HolderAssumption DEF GroupInv, CallerInv, Verify,
       Goto, updVars, Behind, TypeOK
  <1> QED
    BY <1>1, <1>2, <1>3, <1>4, <1>5, <1>6 DEF GroupInv

\* only SPDK changes
LEMMA SpdkKeeps ==
    ASSUME GroupInv, TypeOK', LockOnRead, ~LockMayExpire,
           NEW w \in Workers, Spdk(w)
    PROVE  GroupInv'
  <1> Owner[w] \in Gateways
    BY OwnerAssumption
  <1>1. LockInv'
    BY DEF GroupInv, LockInv, Spdk, Goto, radosVars, updVars, TypeOK,
       UnderLock
  <1>2. HistoryInv'
    BY DEF GroupInv, HistoryInv, Spdk, radosVars
  <1>3. WorkerInv'
    BY DEF GroupInv, WorkerInv, Spdk, Goto, radosVars, updVars, TypeOK,
       NewValue
  <1>4. UpdateInv'
    BY DEF GroupInv, UpdateInv, Spdk, Goto, radosVars, updVars, TypeOK,
       Mine
  <1>5. LocalInv'
    BY DEF GroupInv, LocalInv, Spdk, Goto, radosVars, updVars, TypeOK, Mine
  <1>6. CallerInv'
    BY SMTT(30) DEF GroupInv, CallerInv, Spdk, Goto, updVars, TypeOK
  <1> QED
    BY <1>1, <1>2, <1>3, <1>4, <1>5, <1>6 DEF GroupInv

\* the OMAP gets a new version
LEMMA CommitKeeps ==
    ASSUME GroupInv, TypeOK', LockOnRead, ~LockMayExpire,
           NEW w \in Workers, Commit(w)
    PROVE  GroupInv'
  <1> Owner[w] \in Gateways
    BY OwnerAssumption
  <1>1. \A v \in Workers \ {w} : pc[v] \notin UnderLock
    BY DEF GroupInv, LockInv, Commit, UnderLock
  <1>2. CASE ~SameVersion(Owner[w])
    <2>1. UNCHANGED <<omap, omapVersion, excl, shared, hist, gwVars, updVars, op>>
      BY <1>2 DEF Commit
    <2>2. pc' = [pc EXCEPT ![w] = "unlock"] /\ pc[w] = "commit"
      BY <1>2 DEF Commit, Goto
    <2>3. LockInv'
      BY <2>1, <2>2 DEF GroupInv, TypeOK, LockInv, UnderLock, updVars
    <2>4. HistoryInv'
      BY <2>1 DEF GroupInv, HistoryInv, gwVars
    <2>5. WorkerInv'
      BY <2>1, <2>2 DEF GroupInv, TypeOK, WorkerInv, NewValue, gwVars, updVars
    <2>6. UpdateInv'
      BY SMTT(30), <2>1, <2>2 DEF GroupInv, TypeOK, UpdateInv, Mine, gwVars, updVars
    <2>7. LocalInv'
      BY <2>1, <2>2 DEF GroupInv, TypeOK, LocalInv, Mine, gwVars, updVars
    <2>8. CallerInv'
      BY SMTT(30), <2>1, <2>2 DEF GroupInv, TypeOK, CallerInv, updVars
    <2> QED
      BY <2>3, <2>4, <2>5, <2>6, <2>7, <2>8 DEF GroupInv
  <1>3. CASE SameVersion(Owner[w])
    <2>1. /\ omapVersion' = omapVersion + 1
          /\ version[Owner[w]] = omapVersion
          /\ omap' = [omap EXCEPT ![op[w].nqn] = NewValue(w)]
          /\ op' = [op EXCEPT ![w].ver = omapVersion']
          /\ pc[w] = "commit"
          /\ pc' = [pc EXCEPT ![w] = "setver"]
          /\ UNCHANGED <<excl, shared, gwVars, updVars>>
      BY <1>3 DEF Commit, SameVersion, NextVersion, Goto
    <2>2. /\ hist' = [v \in 1..omapVersion' |->
                         IF v \in DOMAIN hist THEN hist[v] ELSE omap']
          /\ omapVersion \in Nat \ {0}
          /\ DOMAIN hist = 1..omapVersion
      BY <1>3 DEF Commit, GroupInv, TypeOK
    <2>3. /\ \A v \in 1..omapVersion : hist'[v] = hist[v]
          /\ hist'[omapVersion'] = omap'
      BY <2>1, <2>2
    <2>4. LockInv'
      BY <2>1 DEF GroupInv, TypeOK, LockInv, UnderLock, updVars
    <2>5. HistoryInv'
      BY SMTT(30), <2>1, <2>2, <2>3 DEF GroupInv, TypeOK, HistoryInv, gwVars, FirstVersion
    <2>6. local[Owner[w]] = omap
      <3>1. upc[Owner[w]] # "setver"
        BY SMTT(30), <2>1 DEF GroupInv, TypeOK, UpdateInv
      <3>2. \A v \in Mine(Owner[w]) : pc[v] # "local"
        BY <1>1, <2>1 DEF Mine, UnderLock
      <3> QED
        BY <2>1, <3>1, <3>2 DEF GroupInv, LocalInv, HistoryInv
    <2>7. WorkerInv'
      <3> SUFFICES ASSUME NEW v \in Workers, pc'[v] \in UnderLock
                   PROVE  WorkerInv!(v)'
        BY DEF WorkerInv, UnderLock
      <3>1. v = w
        BY <1>1, <2>1 DEF GroupInv, TypeOK
      <3>2. pc'[w] = "setver" /\ op'[w].ver = omapVersion'
        BY <2>1 DEF GroupInv, TypeOK, Ops
      <3>3. NewValue(w)' = NewValue(w) /\ op'[w].nqn = op[w].nqn
        BY <2>1 DEF GroupInv, TypeOK, Ops, NewValue
      <3>4. upc[Owner[w]] = "compare" => snap[Owner[w]].ver <= version[Owner[w]]
        BY SMTT(30), <2>1, <2>2 DEF GroupInv, TypeOK, UpdateInv
      <3> QED
        BY <2>1, <2>2, <2>6, <3>1, <3>2, <3>3, <3>4 DEF gwVars, updVars
    <2>8. UpdateInv'
      <3>1. \A g \in Gateways : upc[g] \in {"apply", "setver"} => g # Owner[w]
        BY SMTT(30), <2>1 DEF GroupInv, TypeOK, UpdateInv
      <3>2. \A v \in Workers : pc'[v] = "setver" => v = w
        BY <1>1, <2>1 DEF GroupInv, TypeOK, UnderLock
      <3> QED
        BY SMTT(30), <2>1, <2>2, <2>3, <3>1, <3>2
        DEF GroupInv, TypeOK, UpdateInv, Mine, gwVars, updVars
    <2>9. LocalInv'
      <3>1. \A v \in Workers : pc[v] = "local" <=> pc'[v] = "local"
        BY <2>1 DEF GroupInv, TypeOK
      <3>2. \A g \in Gateways : hist'[version[g]] = hist[version[g]]
        BY <2>3 DEF GroupInv, HistoryInv
      <3> QED
        BY <2>1, <3>1, <3>2 DEF GroupInv, LocalInv, Mine, gwVars, updVars
    <2>10. CallerInv'
      BY ZenonT(60), <2>1 DEF GroupInv, TypeOK, CallerInv, updVars
    <2> QED
      BY <2>4, <2>5, <2>7, <2>8, <2>9, <2>10 DEF GroupInv
  <1> QED
    BY <1>2, <1>3


\* the local version follows
LEMMA SetVersionKeeps ==
    ASSUME GroupInv, TypeOK', LockOnRead, ~LockMayExpire,
           NEW w \in Workers, SetVersion(w)
    PROVE  GroupInv'
  <1> Owner[w] \in Gateways
    BY OwnerAssumption
  <1>1. LockInv'
    BY DEF GroupInv, LockInv, SetVersion, Goto, radosVars, updVars, TypeOK,
       UnderLock
  <1>2. HistoryInv'
    <2>1. op[w].ver = omapVersion
      BY DEF GroupInv, WorkerInv, SetVersion
    <2> QED
      BY <2>1 DEF GroupInv, TypeOK, HistoryInv, SetVersion, radosVars
  <1>3. WorkerInv'
    BY DEF GroupInv, WorkerInv, SetVersion, Goto, radosVars, updVars,
       TypeOK, LockInv, UnderLock, UpdateInv, NewValue, Mine, HistoryInv
  <1>4. UpdateInv'
    BY DEF GroupInv, UpdateInv, SetVersion, Goto, radosVars, updVars,
       TypeOK, Mine
  <1>5. LocalInv'
    BY DEF GroupInv, LocalInv, SetVersion, Goto, radosVars, updVars,
       TypeOK, Mine
  <1>6. CallerInv'
    BY DEF GroupInv, CallerInv, SetVersion, Goto, updVars
  <1> QED
    BY <1>1, <1>2, <1>3, <1>4, <1>5, <1>6 DEF GroupInv

\* the local state follows
LEMMA WriteLocalKeeps ==
    ASSUME GroupInv, TypeOK', LockOnRead, ~LockMayExpire,
           NEW w \in Workers, WriteLocal(w)
    PROVE  GroupInv'
  <1> Owner[w] \in Gateways
    BY OwnerAssumption
  <1>1. LockInv'
    BY DEF GroupInv, LockInv, WriteLocal, Goto, radosVars, updVars, TypeOK,
       UnderLock
  <1>2. HistoryInv'
    BY DEF GroupInv, HistoryInv, WriteLocal, radosVars
  <1>3. WorkerInv'
    BY DEF GroupInv, WorkerInv, WriteLocal, Goto, radosVars, updVars,
       TypeOK, LockInv, UnderLock, UpdateInv, NewValue, Mine, HistoryInv
  <1>4. UpdateInv'
    BY DEF GroupInv, UpdateInv, WriteLocal, Goto, radosVars, updVars,
       TypeOK, WorkerInv, LockInv, UnderLock, Mine, HistoryInv
  <1>5. LocalInv'
    <2>1. local' = [local EXCEPT ![Owner[w]] =
                        [local[Owner[w]] EXCEPT ![op[w].nqn] = NewValue(w)]]
      BY DEF WriteLocal
    <2>2. local' = [local EXCEPT ![Owner[w]] = hist[version[Owner[w]]]]
      BY <2>1 DEF GroupInv, WorkerInv, HistoryInv, WriteLocal
    <2>3. pc' = [pc EXCEPT ![w] = "unlock"]
      BY DEF WriteLocal, Goto
    <2>4. UNCHANGED <<hist, version, upc>>
      BY DEF WriteLocal, radosVars, updVars
    <2> QED
      BY <2>2, <2>3, <2>4 DEF GroupInv, TypeOK, LocalInv, Mine
  <1>6. CallerInv'
    BY DEF GroupInv, CallerInv, WriteLocal, Goto, updVars
  <1> QED
    BY <1>1, <1>2, <1>3, <1>4, <1>5, <1>6 DEF GroupInv

\* the lock is given back
LEMMA UnlockKeeps ==
    ASSUME GroupInv, TypeOK', LockOnRead, ~LockMayExpire,
           NEW w \in Workers, Unlock(w)
    PROVE  GroupInv'
  <1> Owner[w] \in Gateways
    BY OwnerAssumption
  <1>1. LockInv'
    BY DEF GroupInv, LockInv, Unlock, Return, Goto, updVars, TypeOK,
       UnderLock
  <1>2. HistoryInv'
    BY DEF GroupInv, HistoryInv, Unlock
  <1>3. WorkerInv'
    BY DEF GroupInv, WorkerInv, Unlock, Return, Goto, updVars, TypeOK,
       NewValue
  <1>4. UpdateInv'
    BY DEF GroupInv, UpdateInv, Unlock, Return, Goto, updVars
  <1>5. LocalInv'
    BY DEF GroupInv, LocalInv, Unlock, Return, Goto, updVars
  <1>6. CallerInv'
    BY DEF GroupInv, CallerInv, Unlock, Return, Goto, updVars
  <1> QED
    BY <1>1, <1>2, <1>3, <1>4, <1>5, <1>6 DEF GroupInv

\* the worker waits for an update
LEMMA ReloadKeeps ==
    ASSUME GroupInv, TypeOK', LockOnRead, ~LockMayExpire,
           NEW w \in Workers, Reload(w)
    PROVE  GroupInv'
  <1> Owner[w] \in Gateways
    BY OwnerAssumption
  <1>1. LockInv'
    BY SMTT(30) DEF GroupInv, LockInv, Reload, Goto, radosVars, TypeOK, UnderLock
  <1>2. HistoryInv'
    BY DEF GroupInv, HistoryInv, Reload, radosVars, gwVars
  <1>3. WorkerInv'
    BY OwnerAssumption, HolderAssumption DEF GroupInv, WorkerInv, Reload,
       Goto, radosVars, gwVars, TypeOK, LockInv, UnderLock, UpdateInv,
       NewValue, Mine, HistoryInv
  <1>4. UpdateInv'
    BY SMTT(30) DEF GroupInv, UpdateInv, Reload, Goto, radosVars, gwVars, TypeOK,
       Mine
  <1>5. LocalInv'
    BY DEF GroupInv, LocalInv, Reload, Goto, radosVars, gwVars, TypeOK,
       Mine
  <1>6. CallerInv'
    <2>1. \A g \in Gateways : uby[g] # w
      BY HolderAssumption DEF GroupInv, CallerInv, Reload
    <2>2. \A v \in Workers : v # w => pc'[v] = pc[v]
      BY DEF GroupInv, TypeOK, Reload, Goto
    <2>3. CASE UNCHANGED uby
      BY <2>1, <2>2, <2>3 DEF GroupInv, CallerInv
    <2>4. CASE uby' = [uby EXCEPT ![Owner[w]] = w] /\ Goto(w, "reload")
      <3>1. pc'[w] = "reload" /\ uby'[Owner[w]] = w
        BY <2>4 DEF GroupInv, TypeOK, Goto
      <3>2. \A g \in Gateways : g # Owner[w] => uby'[g] = uby[g]
        BY <2>4 DEF GroupInv, TypeOK
      <3> QED
        BY <2>1, <2>2, <3>1, <3>2 DEF GroupInv, CallerInv
    <2> QED
      BY <2>3, <2>4 DEF Reload
  <1> QED
    BY <1>1, <1>2, <1>3, <1>4, <1>5, <1>6 DEF GroupInv

\* an update begins
LEMMA PeriodicUpdateKeeps ==
    ASSUME GroupInv, TypeOK', LockOnRead, ~LockMayExpire,
           NEW g \in Gateways, PeriodicUpdate(g)
    PROVE  GroupInv'
  <1>1. LockInv'
    BY DEF GroupInv, LockInv, PeriodicUpdate, UpdGoto, radosVars,
       workerVars
  <1>2. HistoryInv'
    BY DEF GroupInv, HistoryInv, PeriodicUpdate, radosVars, gwVars
  <1>3. WorkerInv'
    BY DEF GroupInv, WorkerInv, PeriodicUpdate, UpdGoto, radosVars, gwVars,
       workerVars, TypeOK, NewValue
  <1>4. UpdateInv'
    BY DEF GroupInv, UpdateInv, PeriodicUpdate, UpdGoto, radosVars, gwVars,
       workerVars
  <1>5. LocalInv'
    BY DEF GroupInv, LocalInv, PeriodicUpdate, UpdGoto, radosVars, gwVars,
       workerVars
  <1>6. CallerInv'
    BY DEF GroupInv, CallerInv, PeriodicUpdate, UpdGoto, workerVars
  <1> QED
    BY <1>1, <1>2, <1>3, <1>4, <1>5, <1>6 DEF GroupInv

\* the shared lock is granted
LEMMA UpdLockKeeps ==
    ASSUME GroupInv, TypeOK', LockOnRead, ~LockMayExpire,
           NEW g \in Gateways, UpdLock(g)
    PROVE  GroupInv'
  <1>1. LockInv'
    BY DEF GroupInv, LockInv, UpdLock, UpdGoto, workerVars, ReadLockIsFree
  <1>2. HistoryInv'
    BY DEF GroupInv, HistoryInv, UpdLock, ReadLockIsFree
  <1>3. WorkerInv'
    BY DEF GroupInv, WorkerInv, UpdLock, UpdGoto, workerVars,
       ReadLockIsFree, TypeOK, NewValue
  <1>4. UpdateInv'
    BY DEF GroupInv, UpdateInv, UpdLock, UpdGoto, workerVars,
       ReadLockIsFree
  <1>5. LocalInv'
    BY DEF GroupInv, LocalInv, UpdLock, UpdGoto, workerVars, ReadLockIsFree
  <1>6. CallerInv'
    BY DEF GroupInv, CallerInv, UpdLock, UpdGoto, workerVars,
       ReadLockIsFree
  <1> QED
    BY <1>1, <1>2, <1>3, <1>4, <1>5, <1>6 DEF GroupInv

\* the OMAP is read with no writer at work
LEMMA UpdReadKeeps ==
    ASSUME GroupInv, TypeOK', LockOnRead, ~LockMayExpire,
           NEW g \in Gateways, UpdRead(g)
    PROVE  GroupInv'
  <1>1. LockInv'
    BY DEF GroupInv, LockInv, UpdRead, UpdGoto, workerVars, TypeOK
  <1>2. HistoryInv'
    BY DEF GroupInv, HistoryInv, UpdRead
  <1>3. WorkerInv'
    BY OwnerAssumption, HolderAssumption DEF GroupInv, WorkerInv, UpdRead,
       UpdGoto, workerVars, TypeOK, LockInv, UnderLock, UpdateInv,
       NewValue, Mine, HistoryInv
  <1>4. UpdateInv'
    BY DEF GroupInv, UpdateInv, UpdRead, UpdGoto, workerVars, TypeOK,
       WorkerInv, LockInv, UnderLock, Mine, HistoryInv
  <1>5. LocalInv'
    BY DEF GroupInv, LocalInv, UpdRead, UpdGoto, workerVars
  <1>6. CallerInv'
    BY DEF GroupInv, CallerInv, UpdRead, UpdGoto, workerVars
  <1> QED
    BY <1>1, <1>2, <1>3, <1>4, <1>5, <1>6 DEF GroupInv

\* Only the worker that waits for the update leaves its place when it ends.
LEMMA UpdReturnMoves ==
    ASSUME GroupInv, NEW g \in Gateways, UpdReturn(g)
    PROVE  \A w \in Workers :
               \/ pc'[w] = pc[w] /\ uby[g] # w
               \/ pc[w] = "reload" /\ pc'[w] = "enter"
  BY DEF GroupInv, CallerInv, UpdReturn

\* a stale local state is to be replaced
LEMMA UpdCompareKeeps ==
    ASSUME GroupInv, TypeOK', LockOnRead, ~LockMayExpire,
           NEW g \in Gateways, UpdCompare(g)
    PROVE  GroupInv'
  <1>1. UNCHANGED <<omap, omapVersion, excl, shared, hist, local, version, op>>
    BY DEF UpdCompare, radosVars, gwVars
  <1>2. CASE Stale(g) /\ UpdGoto(g, "apply") /\ UNCHANGED <<uby, snap, pc>>
    <2>1. \A w \in Mine(g) : pc[w] # "setver"
      BY <1>2 DEF GroupInv, TypeOK, WorkerInv, UpdCompare, Mine, Stale
    <2>2. upc' = [upc EXCEPT ![g] = "apply"] /\ upc[g] = "compare"
      BY <1>2 DEF UpdGoto, UpdCompare
    <2>3. LockInv' /\ HistoryInv' /\ CallerInv'
      BY <1>1, <1>2, <2>2
      DEF GroupInv, TypeOK, LockInv, UnderLock, HistoryInv, CallerInv
    <2>4. WorkerInv'
      BY <1>1, <1>2, <2>2 DEF GroupInv, TypeOK, WorkerInv, NewValue
    <2>5. UpdateInv'
      BY <1>1, <1>2, <2>1, <2>2 DEF GroupInv, TypeOK, UpdateInv, Stale, Mine
    <2>6. LocalInv'
      BY <1>1, <1>2, <2>2 DEF GroupInv, TypeOK, LocalInv, Mine
    <2> QED
      BY <2>3, <2>4, <2>5, <2>6 DEF GroupInv
  <1>3. CASE UpdReturn(g)
    <2>1. \A w \in Workers :
              \/ pc'[w] = pc[w] /\ uby[g] # w
              \/ pc[w] = "reload" /\ pc'[w] = "enter"
      BY <1>3, UpdReturnMoves
    <2>2. /\ upc' = [upc EXCEPT ![g] = "idle"]
          /\ uby' = [uby EXCEPT ![g] = Periodic]
          /\ snap' = [snap EXCEPT ![g] = NoSnap]
          /\ upc[g] = "compare"
      BY <1>3 DEF UpdReturn, UpdGoto, UpdCompare
    <2>3. LockInv' /\ HistoryInv'
      BY <1>1, <2>1, <2>2 DEF GroupInv, TypeOK, LockInv, UnderLock, HistoryInv
    <2>4. CallerInv'
      <3> SUFFICES ASSUME NEW h \in Gateways, uby'[h] \in Workers
                   PROVE  Owner[uby'[h]] = h /\ pc'[uby'[h]] = "reload"
        BY DEF CallerInv
      <3>1. h # g /\ uby'[h] = uby[h]
        BY <2>2, HolderAssumption DEF GroupInv, TypeOK
      <3>2. Owner[uby[h]] = h /\ pc[uby[h]] = "reload"
        BY <3>1 DEF GroupInv, CallerInv
      <3>3. uby[h] # uby[g]
        BY <3>1, <3>2 DEF GroupInv, CallerInv
      <3>4. pc' = [w \in Workers |-> IF w = uby[g] THEN "enter" ELSE pc[w]]
        BY <1>3 DEF UpdReturn
      <3> QED
        BY <3>1, <3>2, <3>3, <3>4
    <2>5. WorkerInv'
      BY SMTT(30), <1>1, <2>1, <2>2 DEF GroupInv, TypeOK, WorkerInv, NewValue
    <2>6. UpdateInv'
      BY <1>1, <2>1, <2>2 DEF GroupInv, TypeOK, UpdateInv, Mine
    <2>7. LocalInv'
      BY <1>1, <2>1, <2>2 DEF GroupInv, TypeOK, LocalInv, Mine
    <2> QED
      BY <2>3, <2>4, <2>5, <2>6, <2>7 DEF GroupInv
  <1> QED
    BY <1>2, <1>3 DEF UpdCompare


\* only SPDK changes
LEMMA UpdDeleteKeeps ==
    ASSUME GroupInv, TypeOK', LockOnRead, ~LockMayExpire,
           NEW g \in Gateways, UpdDelete(g)
    PROVE  GroupInv'
  <1>1. LockInv'
    BY DEF GroupInv, LockInv, UpdDelete, radosVars, workerVars
  <1>2. HistoryInv'
    BY DEF GroupInv, HistoryInv, UpdDelete, radosVars
  <1>3. WorkerInv'
    BY DEF GroupInv, WorkerInv, UpdDelete, radosVars, workerVars, TypeOK,
       NewValue
  <1>4. UpdateInv'
    BY DEF GroupInv, UpdateInv, UpdDelete, radosVars, workerVars
  <1>5. LocalInv'
    BY DEF GroupInv, LocalInv, UpdDelete, radosVars, workerVars
  <1>6. CallerInv'
    BY DEF GroupInv, CallerInv, UpdDelete, workerVars
  <1> QED
    BY <1>1, <1>2, <1>3, <1>4, <1>5, <1>6 DEF GroupInv

\* only SPDK changes
LEMMA UpdCreateKeeps ==
    ASSUME GroupInv, TypeOK', LockOnRead, ~LockMayExpire,
           NEW g \in Gateways, UpdCreate(g)
    PROVE  GroupInv'
  <1>1. LockInv'
    BY DEF GroupInv, LockInv, UpdCreate, radosVars, workerVars
  <1>2. HistoryInv'
    BY DEF GroupInv, HistoryInv, UpdCreate, radosVars
  <1>3. WorkerInv'
    BY DEF GroupInv, WorkerInv, UpdCreate, radosVars, workerVars, TypeOK,
       NewValue
  <1>4. UpdateInv'
    BY DEF GroupInv, UpdateInv, UpdCreate, radosVars, workerVars
  <1>5. LocalInv'
    BY DEF GroupInv, LocalInv, UpdCreate, radosVars, workerVars
  <1>6. CallerInv'
    BY DEF GroupInv, CallerInv, UpdCreate, workerVars
  <1> QED
    BY <1>1, <1>2, <1>3, <1>4, <1>5, <1>6 DEF GroupInv

\* the local state is the one read
LEMMA UpdResetKeeps ==
    ASSUME GroupInv, TypeOK', LockOnRead, ~LockMayExpire,
           NEW g \in Gateways, UpdReset(g)
    PROVE  GroupInv'
  <1>1. LockInv'
    BY DEF GroupInv, LockInv, UpdReset, UpdGoto, radosVars, workerVars
  <1>2. HistoryInv'
    BY DEF GroupInv, HistoryInv, UpdReset, radosVars
  <1>3. WorkerInv'
    BY DEF GroupInv, WorkerInv, UpdReset, UpdGoto, radosVars, workerVars,
       TypeOK, LockInv, UnderLock, UpdateInv, NewValue, Mine, HistoryInv
  <1>4. UpdateInv'
    BY DEF GroupInv, UpdateInv, UpdReset, UpdGoto, radosVars, workerVars,
       TypeOK
  <1>5. LocalInv'
    BY DEF GroupInv, LocalInv, UpdReset, UpdGoto, radosVars, workerVars,
       TypeOK
  <1>6. CallerInv'
    BY DEF GroupInv, CallerInv, UpdReset, UpdGoto, workerVars
  <1> QED
    BY <1>1, <1>2, <1>3, <1>4, <1>5, <1>6 DEF GroupInv

\* the local version is the one read
LEMMA UpdSetVersionKeeps ==
    ASSUME GroupInv, TypeOK', LockOnRead, ~LockMayExpire,
           NEW g \in Gateways, UpdSetVersion(g)
    PROVE  GroupInv'
  <1>1. LockInv'
    BY DEF GroupInv, LockInv, UpdSetVersion, UpdReturn, UpdGoto, radosVars,
       TypeOK, UnderLock
  <1>2. HistoryInv'
    BY OwnerAssumption, HolderAssumption DEF GroupInv, HistoryInv,
       UpdSetVersion, UpdReturn, UpdGoto, radosVars, TypeOK, FirstVersion,
       UpdateInv
  <1>3. WorkerInv'
    BY DEF GroupInv, WorkerInv, UpdSetVersion, UpdReturn, UpdGoto,
       radosVars, TypeOK, LockInv, UnderLock, UpdateInv, NewValue, Mine,
       HistoryInv
  <1>4. UpdateInv'
    BY DEF GroupInv, UpdateInv, UpdSetVersion, UpdReturn, UpdGoto,
       radosVars, TypeOK, Mine
  <1>5. LocalInv'
    BY DEF GroupInv, LocalInv, UpdSetVersion, UpdReturn, UpdGoto,
       radosVars, TypeOK, Mine, WorkerInv, HistoryInv, UpdateInv,
       CallerInv, LockInv, UnderLock
  <1>6. CallerInv'
    BY OwnerAssumption, HolderAssumption DEF GroupInv, CallerInv,
       UpdSetVersion, UpdReturn, UpdGoto, radosVars, TypeOK
  <1> QED
    BY <1>1, <1>2, <1>3, <1>4, <1>5, <1>6 DEF GroupInv

\* A process that starts is at the first version, whatever the others do.
LEMMA FreshKeeps ==
    ASSUME GroupInv, TypeOK', LockInv', NEW g \in Gateways, Fresh(g)
    PROVE  GroupInv'
  <1>1. \A w \in Workers : \/ w \in Mine(g) /\ pc'[w] = "idle"
                           \/ w \notin Mine(g) /\ pc'[w] = pc[w] /\ op'[w] = op[w]
    BY DEF Fresh
  <1>2. /\ upc' = [upc EXCEPT ![g] = "idle"]
        /\ uby' = [uby EXCEPT ![g] = Periodic]
        /\ snap' = [snap EXCEPT ![g] = NoSnap]
        /\ local' = [local EXCEPT ![g] = Empty]
        /\ version' = [version EXCEPT ![g] = FirstVersion]
        /\ UNCHANGED <<omap, omapVersion, hist>>
    BY DEF Fresh
  <1>3. HistoryInv'
    BY <1>2 DEF GroupInv, TypeOK, HistoryInv, FirstVersion
  <1>4. WorkerInv'
    BY ZenonT(60), <1>1, <1>2, OwnerAssumption DEF GroupInv, TypeOK, WorkerInv, NewValue, Mine
  <1>5. UpdateInv'
    BY <1>1, <1>2 DEF GroupInv, TypeOK, UpdateInv, Mine
  <1>6. LocalInv'
    <2>1. local'[g] = hist'[version'[g]]
      BY <1>2 DEF GroupInv, TypeOK, HistoryInv
    <2>2. ASSUME NEW h \in Gateways \ {g}, upc'[h] # "setver",
                 \A w \in Mine(h) : pc'[w] # "local"
          PROVE  local'[h] = hist'[version'[h]]
      <3>1. \A w \in Mine(h) : pc'[w] = pc[w]
        BY <1>1 DEF Mine
      <3> QED
        BY <1>2, <2>2, <3>1 DEF GroupInv, TypeOK, LocalInv, Mine
    <2> QED
      BY <2>1, <2>2 DEF LocalInv, Mine
  <1>7. CallerInv'
    <2> SUFFICES ASSUME NEW h \in Gateways, uby'[h] \in Workers
                 PROVE  Owner[uby'[h]] = h /\ pc'[uby'[h]] = "reload"
      BY DEF CallerInv
    <2>1. h # g /\ uby'[h] = uby[h]
      BY <1>2, HolderAssumption DEF GroupInv, TypeOK
    <2>2. Owner[uby[h]] = h /\ pc[uby[h]] = "reload"
      BY <2>1 DEF GroupInv, CallerInv
    <2> QED
      BY <1>1, <2>1, <2>2 DEF Mine
  <1> QED
    BY <1>3, <1>4, <1>5, <1>6, <1>7 DEF GroupInv

\* An orderly exit gives its locks back.
LEMMA AbortKeeps ==
    ASSUME GroupInv, TypeOK', NEW g \in Gateways, Abort(g)
    PROVE  GroupInv'
  <1>1. LockInv'
    BY DEF GroupInv, TypeOK, LockInv, UnderLock, Abort, Fresh, Mine
  <1> QED
    BY <1>1, FreshKeeps DEF Abort

\* The locks of a process that dies stay locked, by nobody.
LEMMA CrashKeeps ==
    ASSUME GroupInv, TypeOK', NEW g \in Gateways, Crash(g)
    PROVE  GroupInv'
  <1>1. LockInv'
    BY HolderAssumption DEF GroupInv, TypeOK, LockInv, UnderLock, Crash, Fresh, Mine
  <1> QED
    BY <1>1, FreshKeeps DEF Crash

LEMMA WorkerStepKeeps ==
    ASSUME GroupInv, TypeOK', LockOnRead, ~LockMayExpire,
           NEW w \in Workers, WorkerStep(w)
    PROVE  GroupInv'
  <1> Owner[w] \in Gateways
    BY OwnerAssumption
  <1>1. CASE TriesExhausted(w)
    BY <1>1, AbortKeeps DEF TriesExhausted
  <1>2. CASE LockWasLost(w)
    BY <1>2, AbortKeeps DEF LockWasLost
  <1>3. CASE StaleReadMark(w)
    <2>1. LockInv'
      BY <1>3, HolderAssumption
      DEF GroupInv, TypeOK, LockInv, UnderLock, StaleReadMark, LockIsFree, Fresh, Mine
    <2> QED
      BY <1>3, <2>1, FreshKeeps DEF StaleReadMark
  <1> QED
    BY <1>1, <1>2, <1>3, EnterKeeps, LockBusyKeeps, WakeKeeps, LockOmapKeeps,
       VerifyKeeps, SpdkKeeps, CommitKeeps, SetVersionKeeps, WriteLocalKeeps,
       UnlockKeeps, ReloadKeeps
    DEF WorkerStep

LEMMA UpdateStepKeeps ==
    ASSUME GroupInv, TypeOK', LockOnRead, ~LockMayExpire,
           NEW g \in Gateways, UpdateStep(g)
    PROVE  GroupInv'
  <1>1. CASE UpdReadLost(g)
    \* without an expiry the reader still has its lock
    BY <1>1 DEF GroupInv, LockInv, UpdReadLost
  <1> QED
    BY <1>1, PeriodicUpdateKeeps, UpdLockKeeps, UpdReadKeeps, UpdCompareKeeps,
       UpdDeleteKeeps, UpdCreateKeeps, UpdResetKeeps, UpdSetVersionKeeps
    DEF UpdateStep

LEMMA RequestKeeps ==
    ASSUME GroupInv, TypeOK', NEW w \in Workers, Request(w)
    PROVE  GroupInv'
  <1>1. UNCHANGED <<radosVars, gwVars, updVars>>
    BY DEF Request
  <1>2. /\ pc' = [pc EXCEPT ![w] = "enter"] /\ pc[w] = "idle"
        /\ \A v \in Workers \ {w} : op'[v] = op[v]
    BY DEF GroupInv, TypeOK, Request, Goto
  <1>3. LockInv' /\ HistoryInv' /\ CallerInv'
    BY <1>1, <1>2 DEF GroupInv, TypeOK, LockInv, UnderLock, HistoryInv,
       CallerInv, radosVars, gwVars, updVars
  <1>4. WorkerInv'
    BY ZenonT(60), <1>1, <1>2
    DEF GroupInv, TypeOK, WorkerInv, NewValue, radosVars, gwVars, updVars
  <1>5. UpdateInv' /\ LocalInv'
    BY <1>1, <1>2
    DEF GroupInv, TypeOK, UpdateInv, LocalInv, Mine, radosVars, gwVars, updVars
  <1> QED
    BY <1>3, <1>4, <1>5 DEF GroupInv

\* With the lock kept while it is needed, only a dead process loses one.
LEMMA ExpireKeeps ==
    ASSUME GroupInv, TypeOK', ~LockMayExpire, Expire
    PROVE  GroupInv'
  <1>1. UNCHANGED <<omap, omapVersion, hist, gwVars, updVars, workerVars>>
    BY DEF Expire, ExpireDead, ExpireLive
  <1>2. LockInv'
    BY <1>1, HolderAssumption
    DEF GroupInv, TypeOK, LockInv, UnderLock, Expire, ExpireDead, ExpireLive,
        updVars, workerVars
  <1> QED
    BY <1>1, <1>2 DEF GroupInv, HistoryInv, WorkerInv, NewValue, UpdateInv,
       LocalInv, CallerInv, Mine, gwVars, updVars, workerVars

LEMMA StutterKeeps ==
    ASSUME GroupInv, TypeOK', UNCHANGED vars
    PROVE  GroupInv'
  BY DEF GroupInv, LockInv, UnderLock, HistoryInv, WorkerInv, NewValue, UpdateInv,
     LocalInv, CallerInv, Mine, vars, radosVars, gwVars, updVars, workerVars

LEMMA InitEstablishes == Init => GroupInv
  <1> SUFFICES ASSUME Init PROVE GroupInv
    OBVIOUS
  <1>1. TypeOK
    BY NoOpType, EmptyType, NoSnapType, NoTodoType DEF Init, TypeOK, FirstVersion
  <1>2. LockInv /\ HistoryInv /\ LocalInv
    BY DEF Init, LockInv, UnderLock, HistoryInv, LocalInv, FirstVersion
  <1>3. WorkerInv /\ UpdateInv /\ CallerInv
    BY HolderAssumption, OwnerAssumption DEF Init, WorkerInv, UpdateInv, CallerInv
  <1> QED
    BY <1>1, <1>2, <1>3 DEF GroupInv

LEMMA NextKeeps ==
    ASSUME GroupInv, TypeOK', LockOnRead, ~LockMayExpire, [Next]_vars
    PROVE  GroupInv'
  BY RequestKeeps, WorkerStepKeeps, UpdateStepKeeps, CrashKeeps, ExpireKeeps,
     StutterKeeps DEF Next

\* With the shared lock taken on read and no operation outliving its lock,
\* GroupInv holds of every group: lock_omap, update() and _add_key keep the
\* threads of all the gateways apart where they must be.
THEOREM GroupInvariant ==
    ASSUME LockOnRead, ~LockMayExpire
    PROVE  Spec => []GroupInv
  <1>1. Init => GroupInv
    BY InitEstablishes
  <1>2. TypeOK' /\ GroupInv /\ [Next]_vars => GroupInv'
    BY NextKeeps
  <1> QED
    BY <1>1, <1>2, TypeCorrect, PTL DEF Spec

\* A gateway's local state is the OMAP as it was at the local version.
THEOREM LocalStateIsOfItsVersion ==
    ASSUME LockOnRead, ~LockMayExpire
    PROVE  Spec => []LocalIsOfItsVersion
  <1>1. GroupInv => LocalIsOfItsVersion
    BY DEF GroupInv, LocalInv, HistoryInv, LocalIsOfItsVersion, Writing, Replacing, Mine
  <1> QED
    BY <1>1, GroupInvariant, PTL

\* A thread that moves leaves the other threads where they are, unless it ends
\* their process or the update they wait for.
LEMMA OthersStay ==
    ASSUME TypeOK, NEW w \in Workers,
           \/ \E v \in Workers \ {w} : Request(v) \/ WorkerStep(v)
           \/ \E g \in Gateways : UpdateStep(g) \/ Crash(g)
           \/ Expire
           \/ UNCHANGED vars
    PROVE  pc'[w] \in {pc[w], "idle", "enter"}
  <1>1. ASSUME NEW g \in Gateways, Fresh(g) PROVE pc'[w] \in {pc[w], "idle"}
    BY <1>1 DEF Fresh
  <1>2. ASSUME NEW v \in Workers \ {w}, NEW label, Goto(v, label)
        PROVE  pc'[w] = pc[w]
    BY <1>2 DEF TypeOK, Goto
  <1>3. ASSUME NEW g \in Gateways, UpdReturn(g) PROVE pc'[w] \in {pc[w], "enter"}
    BY <1>3 DEF UpdReturn
  <1>4. ASSUME NEW v \in Workers \ {w}, Request(v) \/ WorkerStep(v)
        PROVE  pc'[w] \in {pc[w], "idle"}
    <2> Owner[v] \in Gateways
      BY OwnerAssumption
    <2>1. CASE TriesExhausted(v) \/ LockWasLost(v) \/ StaleReadMark(v)
      BY <1>1, <2>1 DEF TriesExhausted, LockWasLost, StaleReadMark, Abort
    <2>2. CASE ~(TriesExhausted(v) \/ LockWasLost(v) \/ StaleReadMark(v))
      <3>1. \E label \in {"idle", "enter", "lock", "sleep", "verify", "spdk",
                "commit", "setver", "local", "unlock", "eagain", "reload"} :
                    Goto(v, label)
        BY <1>4, <2>2 DEF WorkerStep, Request, Enter, Return, LockBusy, Wake,
           LockOmap, Verify, Spdk, Commit, SetVersion, WriteLocal, Unlock, Reload
      <3> QED
        BY <3>1, <1>2
    <2> QED
      BY <2>1, <2>2
  <1>5. ASSUME NEW g \in Gateways, UpdateStep(g) \/ Crash(g)
        PROVE  pc'[w] \in {pc[w], "idle", "enter"}
    BY <1>1, <1>3, <1>5
    DEF UpdateStep, PeriodicUpdate, UpdLock, UpdRead, UpdReadLost, UpdCompare,
        UpdDelete, UpdCreate, UpdReset, UpdSetVersion, Crash, Abort, workerVars
  <1>6. ASSUME Expire \/ UNCHANGED vars PROVE pc'[w] = pc[w]
    BY <1>6 DEF Expire, ExpireDead, ExpireLive, vars, workerVars
  <1> QED
    BY <1>4, <1>5, <1>6

\* Only the write operation of a request takes it from "commit" to "setver".
LEMMA OnlyCommitWrites ==
    ASSUME TypeOK, [Next]_vars, NEW w \in Workers,
           pc[w] = "commit", pc'[w] = "setver"
    PROVE  Commit(w)
  <1>1. Request(w) \/ WorkerStep(w)
    BY OthersStay DEF Next
  <1>2. ~Fresh(Owner[w])
    BY DEF Fresh, Mine
  <1> QED
    BY <1>1, <1>2 DEF Request, WorkerStep, Enter, LockBusy, Wake, LockOmap, Verify,
       Spdk, SetVersion, WriteLocal, Unlock, Reload, TriesExhausted, LockWasLost,
       StaleReadMark, Abort

\* Every write to the OMAP replaces exactly what the writer has seen.
THEOREM NoUpdateIsLost ==
    ASSUME LockOnRead, ~LockMayExpire
    PROVE  Spec => NoLostUpdate
  <1> DEFINE Replaces(w) ==
        pc[w] = "commit" /\ pc'[w] = "setver" =>
            omap = local[Owner[w]] /\ omapVersion' = omapVersion + 1
  <1>1. GroupInv /\ [Next]_vars => \A w \in Workers : Replaces(w)
    <2> SUFFICES ASSUME GroupInv, [Next]_vars, NEW w \in Workers,
                        pc[w] = "commit", pc'[w] = "setver"
                 PROVE  omap = local[Owner[w]] /\ omapVersion' = omapVersion + 1
      OBVIOUS
    <2> Owner[w] \in Gateways
      BY OwnerAssumption
    <2>1. Commit(w) /\ SameVersion(Owner[w])
      <3>1. Commit(w)
        BY OnlyCommitWrites DEF GroupInv
      <3> QED
        BY <3>1 DEF GroupInv, TypeOK, Commit, Goto
    <2>2. omapVersion' = omapVersion + 1
      BY <2>1 DEF Commit, SameVersion, NextVersion
    <2>3. upc[Owner[w]] # "setver"
      BY <2>1 DEF GroupInv, TypeOK, UpdateInv, SameVersion
    <2>4. \A v \in Mine(Owner[w]) : pc[v] # "local"
      BY DEF GroupInv, LockInv, UnderLock, Mine
    <2> QED
      BY <2>1, <2>2, <2>3, <2>4 DEF GroupInv, LocalInv, HistoryInv, SameVersion
  <1> QED
    BY <1>1, GroupInvariant, PTL DEF Spec, NoLostUpdate

\* Only the process of a gateway changes its local state and its version.
LEMMA WhoChangesLocal ==
    ASSUME TypeOK, [Next]_vars, NEW g \in Gateways,
           local'[g] # local[g] \/ version'[g] # version[g]
    PROVE  \/ \E v \in Mine(g) : SetVersion(v) \/ WriteLocal(v)
           \/ UpdReset(g) \/ UpdSetVersion(g) \/ Fresh(g)
  <1>1. local \in [Gateways -> Content] /\ version \in [Gateways -> Nat]
    BY DEF TypeOK
  <1>2. ASSUME NEW h \in Gateways, Fresh(h) PROVE h = g
    BY <1>1, <1>2 DEF Fresh
  <1>3. ASSUME NEW v \in Workers, Request(v) \/ WorkerStep(v)
        PROVE  (v \in Mine(g) /\ (SetVersion(v) \/ WriteLocal(v))) \/ Fresh(g)
    <2> Owner[v] \in Gateways
      BY OwnerAssumption
    <2>1. CASE TriesExhausted(v) \/ LockWasLost(v) \/ StaleReadMark(v)
      BY <1>2, <2>1 DEF TriesExhausted, LockWasLost, StaleReadMark, Abort
    <2>2. CASE SetVersion(v)
      BY <1>1, <2>2 DEF SetVersion, Mine
    <2>3. CASE WriteLocal(v)
      BY <1>1, <2>3 DEF WriteLocal, Mine
    <2> QED
      BY <1>3, <2>1, <2>2, <2>3
      DEF WorkerStep, Request, Enter, LockBusy, Wake, LockOmap, Verify, Spdk, Commit,
          Unlock, Reload, gwVars
  <1>4. ASSUME NEW h \in Gateways, UpdateStep(h) \/ Crash(h)
        PROVE  UpdReset(g) \/ UpdSetVersion(g) \/ Fresh(g)
    <2>1. CASE UpdReset(h)
      BY <1>1, <2>1 DEF UpdReset
    <2>2. CASE UpdSetVersion(h)
      BY <1>1, <2>2 DEF UpdSetVersion
    <2> QED
      BY <1>2, <1>4, <2>1, <2>2
      DEF UpdateStep, PeriodicUpdate, UpdLock, UpdRead, UpdReadLost, UpdCompare,
          UpdDelete, UpdCreate, Crash, Abort, gwVars
  <1>5. ~(Expire \/ UNCHANGED vars)
    BY DEF Expire, ExpireDead, ExpireLive, vars, gwVars
  <1> QED
    BY <1>3, <1>4, <1>5 DEF Next

\* What create_subsystem_safe and delete_subsystem_safe have checked after
\* verify_versions still holds when they write it.
THEOREM CheckedStateStaysTrue ==
    ASSUME LockOnRead, ~LockMayExpire
    PROVE  Spec => CheckedStateHolds
  <1> DEFINE Holds(w) ==
        pc[w] \in {"spdk", "commit"} /\ pc'[w] \in {"commit", "setver"} =>
            local'[Owner[w]] = local[Owner[w]]
  <1>1. GroupInv /\ [Next]_vars => \A w \in Workers : Holds(w)
    <2> SUFFICES ASSUME GroupInv, [Next]_vars, NEW w \in Workers,
                        pc[w] \in {"spdk", "commit"}, pc'[w] \in {"commit", "setver"},
                        NEW g \in Gateways, g = Owner[w], local'[g] # local[g]
                 PROVE  FALSE
      BY OwnerAssumption
    <2>1. version[g] = omapVersion /\ excl = w /\ w \in Mine(g)
      BY DEF GroupInv, WorkerInv, LockInv, UnderLock, Mine
    <2>2. ~Fresh(g)
      BY <2>1 DEF Fresh
    <2>3. ~UpdReset(g) /\ ~UpdSetVersion(g)
      BY <2>1 DEF UpdReset, UpdSetVersion, GroupInv, TypeOK, UpdateInv
    <2>4. \A v \in Mine(g) : ~WriteLocal(v) /\ ~SetVersion(v)
      BY <2>1 DEF WriteLocal, SetVersion, GroupInv, LockInv, UnderLock, Mine
    <2> QED
      BY <2>2, <2>3, <2>4, WhoChangesLocal DEF GroupInv
  <1> QED
    BY <1>1, GroupInvariant, PTL DEF Spec, CheckedStateHolds

\* Neither a write of its own nor an update takes a running gateway back to an
\* older version.
THEOREM VersionsNeverGoBack ==
    ASSUME LockOnRead, ~LockMayExpire
    PROVE  Spec => VersionNeverBack
  <1> DEFINE Restarted(g) ==
        version'[g] = 1 /\ spdk'[g] = Empty /\ upc'[g] = "idle"
        /\ \A w \in Mine(g) : pc'[w] = "idle"
  <1>1. GroupInv /\ [Next]_vars =>
            \A g \in Gateways : version'[g] < version[g] => Restarted(g)
    <2> SUFFICES ASSUME GroupInv, [Next]_vars, NEW g \in Gateways,
                        version'[g] < version[g]
                 PROVE  Restarted(g)
      OBVIOUS
    <2>1. /\ version \in [Gateways -> Nat] /\ omapVersion \in Nat
          /\ version[g] \in 1..omapVersion /\ upc \in [Gateways -> {"idle", "lock",
                "read", "compare", "apply", "setver"}]
          /\ spdk \in [Gateways -> Content]
      BY DEF GroupInv, TypeOK, HistoryInv
    <2>2. \A v \in Mine(g) : ~SetVersion(v)
      BY <2>1 DEF SetVersion, GroupInv, WorkerInv, Mine
    <2>3. ~UpdSetVersion(g)
      <3>1. ASSUME UpdSetVersion(g) PROVE version'[g] = snap[g].ver /\ version[g] < snap[g].ver
        BY <2>1, <3>1 DEF UpdSetVersion, GroupInv, UpdateInv
      <3>2. snap[g].ver \in Nat
        BY DEF GroupInv, TypeOK
      <3> QED
        BY <2>1, <3>1, <3>2
    <2>4. \A v \in Mine(g) : ~WriteLocal(v)
      BY <2>1 DEF WriteLocal
    <2>5. ~UpdReset(g)
      BY <2>1 DEF UpdReset
    <2>6. Fresh(g)
      <3>1. version'[g] # version[g]
        BY <2>1
      <3> QED
        BY <2>2, <2>3, <2>4, <2>5, <3>1, WhoChangesLocal DEF GroupInv
    <2> QED
      BY <2>1, <2>6 DEF Fresh, FirstVersion, Mine
  <1> QED
    BY <1>1, GroupInvariant, PTL DEF Spec, VersionNeverBack

(***************************************************************************)
(* What a request has done stays done until it returns.                    *)
(***************************************************************************)
\* A step of one worker keeps what RequestInv says of each: two workers of one
\* gateway never hold rpc_lock together, two of the group never the OMAP lock.
LEMMA WorkerKeepsRequests ==
    ASSUME GroupInv, RequestInv, GroupInv', ~LockMayExpire,
           NEW w \in Workers, WorkerStep(w), ~Fresh(Owner[w]),
           NEW v \in Workers
    PROVE  RequestHolds(v)'
  <1> Owner[w] \in Gateways /\ Owner[v] \in Gateways
    BY OwnerAssumption
  <1>a. /\ TypeOK /\ LockInv /\ TypeOK'
        /\ RequestHolds(v) /\ RequestHolds(w)
    BY DEF GroupInv, RequestInv, RequestHolds
  <1>t. Workers # {} /\ Free \notin Workers /\ NoOp.ver = 0
    BY HolderAssumption DEF NoOp
  <1>o. ASSUME v # w, pc[v] \in UnderRpcLock, pc[w] \in UnderRpcLock
        PROVE  Owner[v] # Owner[w]
    BY <1>a, <1>o DEF RequestHolds
  <1>p. ASSUME NEW label, Goto(w, label)
        PROVE  pc'[w] = label /\ (v # w => pc'[v] = pc[v])
    BY <1>a, <1>p DEF Goto, TypeOK
  <1>1. CASE Enter(w)
    <2>1. CASE Return(w) /\ UNCHANGED rpcLock
      BY SMTT(30), <1>1, <2>1, <1>a, <1>t, <1>p DEF TypeOK, RequestHolds, InSpdk, UnderRpcLock,
         UnderLock, Enter, Return, radosVars, NewValue
    <2>2. CASE rpcLock' = [rpcLock EXCEPT ![Owner[w]] = w] /\ Goto(w, "lock") /\ UNCHANGED op
      <3>1. pc[w] = "enter" /\ UNCHANGED <<radosVars, local, version, spdk>>
        BY <1>1 DEF Enter
      <3>2. pc[v] \in UnderRpcLock => Owner[v] # Owner[w]
        BY <1>1, <1>a, <1>t DEF Enter, RequestHolds
      <3>3. /\ rpcLock'[Owner[w]] = w
            /\ Owner[v] # Owner[w] => rpcLock'[Owner[v]] = rpcLock[Owner[v]]
        BY <2>2, <1>a DEF TypeOK
      <3> QED
        BY <2>2, <3>1, <3>2, <3>3, <1>a, <1>p DEF RequestHolds, InSpdk, UnderRpcLock,
           UnderLock, radosVars, NewValue
    <2> QED
      BY <1>1, <2>1, <2>2 DEF Enter
  <1>2. CASE LockBusy(w)
    <2>1. /\ rpcLock' = [rpcLock EXCEPT ![Owner[w]] = Free] /\ Goto(w, "sleep")
          /\ UNCHANGED <<radosVars, local, version, spdk, op>>
      BY <1>2 DEF LockBusy
    <2> QED
      BY <1>2, <2>1, <1>a, <1>o, <1>p DEF LockBusy, TypeOK, RequestHolds, InSpdk, UnderRpcLock,
         UnderLock, radosVars, NewValue
  <1>3. CASE Wake(w)
    BY SMTT(30), <1>3, <1>a, <1>t DEF TypeOK, RequestHolds, InSpdk, UnderRpcLock, UnderLock, Wake,
       Goto, radosVars, updVars, NewValue
  <1>4. CASE LockOmap(w)
    BY <1>4, <1>a, <1>t DEF TypeOK, RequestHolds, InSpdk, UnderRpcLock, UnderLock, LockOmap,
       Goto, gwVars, updVars, NewValue
  <1>5. CASE Verify(w)
    BY <1>5, <1>a, <1>t DEF TypeOK, RequestHolds, InSpdk, UnderRpcLock, UnderLock, Verify,
       Goto, updVars, NewValue
  <1>6. CASE Spdk(w)
    <2>0. /\ UNCHANGED <<radosVars, local, version, rpcLock, op>>
          /\ op[w].nqn \in Subsystems /\ spdk[Owner[w]] \in Content /\ pc[w] = "spdk"
      BY <1>6, <1>a, OpType DEF Spdk, TypeOK
    <2>1. CASE Goto(w, "unlock") /\ UNCHANGED spdk
      BY <2>0, <2>1, <1>a, <1>p DEF RequestHolds, InSpdk, UnderRpcLock, UnderLock,
         radosVars, NewValue
    <2>2. CASE Goto(w, "commit") /\ spdk' = [spdk EXCEPT ![Owner[w]][op[w].nqn] = NewValue(w)]
      <3>1. spdk'[Owner[w]][op[w].nqn] = NewValue(w)
        <4>1. spdk \in [Gateways -> [Subsystems -> Nat]]
          BY <1>a DEF TypeOK, Content
        <4> QED
          BY <2>0, <2>2, <4>1
      <3>2. Owner[v] # Owner[w] => spdk'[Owner[v]] = spdk[Owner[v]]
        BY <2>0, <2>2, <1>a DEF TypeOK
      <3> QED
        BY <2>0, <2>2, <3>1, <3>2, <1>a, <1>o, <1>p DEF RequestHolds, InSpdk, UnderRpcLock,
           UnderLock, radosVars, NewValue
    <2> QED
      BY <1>6, <2>1, <2>2 DEF Spdk, NewValue
  <1>7. CASE Commit(w)
    <2>1. UNCHANGED <<local, version, spdk, rpcLock>> /\ pc[w] = "commit"
      BY <1>7 DEF Commit, gwVars
    <2>2. v # w => pc[v] \notin UnderLock
      BY <1>a, <2>1 DEF LockInv, UnderLock
    <2>3. CASE ~SameVersion(Owner[w])
      BY <1>7, <1>a, <1>p, <2>1, <2>3 DEF Commit, RequestHolds, InSpdk, UnderRpcLock, UnderLock,
         NewValue
    <2>4. CASE SameVersion(Owner[w])
      <3>1. /\ op' = [op EXCEPT ![w].ver = omapVersion'] /\ Goto(w, "setver")
        BY <1>7, <2>4 DEF Commit
      <3>2. /\ op'[w].ver = omapVersion' /\ NewValue(w)' = NewValue(w)
            /\ op'[w].nqn = op[w].nqn /\ (v # w => op'[v] = op[v])
        BY <3>1, <1>a DEF TypeOK, Ops, NewValue
      <3> QED
        BY <1>a, <1>p, <2>1, <2>2, <3>1, <3>2 DEF RequestHolds, InSpdk, UnderRpcLock, UnderLock,
           NewValue
    <2> QED
      BY <2>3, <2>4
  <1>8. CASE SetVersion(w)
    BY <1>8, <1>a, <1>t DEF TypeOK, LockInv, RequestHolds, InSpdk, UnderRpcLock, UnderLock, SetVersion,
       Goto, radosVars, updVars, NewValue
  <1>9. CASE WriteLocal(w)
    <2>1. /\ UNCHANGED <<radosVars, version, spdk, rpcLock, op>> /\ pc[w] = "local"
          /\ Goto(w, "unlock")
          /\ local' = [local EXCEPT ![Owner[w]][op[w].nqn] = NewValue(w)]
      BY <1>9 DEF WriteLocal
    <2>2. /\ op[w].nqn \in Subsystems /\ NewValue(w) \in Nat /\ local[Owner[w]] \in Content
      BY <1>a, OpType DEF TypeOK
    <2>3. /\ version[Owner[w]] = omapVersion
          /\ [local[Owner[w]] EXCEPT ![op[w].nqn] = NewValue(w)] = omap
      BY <2>1 DEF GroupInv, WorkerInv
    <2>4. omap[op[w].nqn] = NewValue(w) /\ local'[Owner[w]] = omap
      BY <1>a, <2>1, <2>2, <2>3 DEF TypeOK, Content
    <2>5. v # w => pc[v] \notin UnderLock
      BY <1>a, <2>1 DEF LockInv, UnderLock
    <2> QED
      BY <1>a, <1>p, <2>1, <2>3, <2>4, <2>5 DEF RequestHolds, InSpdk, UnderRpcLock, UnderLock,
         radosVars, NewValue
  <1>10. CASE Unlock(w)
    BY <1>10, <1>a, <1>t DEF TypeOK, RequestHolds, InSpdk, UnderRpcLock, UnderLock, Unlock,
       Return, Goto, updVars, NewValue
  <1>11. CASE Reload(w)
    BY SMTT(30), <1>11, <1>a, <1>t DEF TypeOK, RequestHolds, InSpdk, UnderRpcLock, UnderLock, Reload,
       Goto, radosVars, gwVars, NewValue
  <1> QED
    BY <1>1, <1>2, <1>3, <1>4, <1>5, <1>6, <1>7, <1>8, <1>9, <1>10, <1>11
    DEF WorkerStep, TriesExhausted, LockWasLost, StaleReadMark, Abort

\* The RPCs of an update wait for rpc_lock, and the local state is replaced
\* only by a newer version, which there is none of after a write.
LEMMA UpdateKeepsRequests ==
    ASSUME GroupInv, RequestInv, GroupInv', ~LockMayExpire,
           NEW g \in Gateways, UpdateStep(g), ~Fresh(g),
           NEW v \in Workers
    PROVE  RequestHolds(v)'
  <1> Owner[v] \in Gateways
    BY OwnerAssumption
  <1>a. /\ TypeOK /\ LockInv /\ TypeOK'
        /\ RequestHolds(v)
    BY DEF GroupInv, RequestInv, RequestHolds
  <1>t. Free \notin Workers
    BY HolderAssumption
  <1>1. CASE PeriodicUpdate(g)
    BY <1>1, <1>a DEF RequestHolds, InSpdk, PeriodicUpdate, radosVars, gwVars, workerVars, NewValue
  <1>2. CASE UpdLock(g)
    BY <1>2, <1>a DEF RequestHolds, InSpdk, UpdLock, workerVars, NewValue
  <1>3. CASE UpdRead(g)
    BY <1>3, <1>a DEF RequestHolds, InSpdk, UpdRead, workerVars, NewValue
  <1>4. CASE UpdReadLost(g)
    BY <1>4, <1>a DEF LockInv, UpdReadLost
  <1>5. CASE UpdCompare(g)
    <2>1. UNCHANGED <<radosVars, gwVars, op>>
      BY <1>5 DEF UpdCompare
    <2>2. pc'[v] = pc[v] \/ (pc[v] = "reload" /\ pc'[v] = "enter")
      BY <1>5, UpdReturnMoves DEF UpdCompare
    <2> QED
      BY <1>a, <2>1, <2>2 DEF RequestHolds, InSpdk, UnderRpcLock, UnderLock, radosVars, gwVars, NewValue
  <1>6. CASE UpdDelete(g)
    BY <1>6, <1>a, <1>t DEF TypeOK, RequestHolds, InSpdk, UnderRpcLock, UnderLock, UpdDelete,
       radosVars, workerVars, NewValue
  <1>7. CASE UpdCreate(g)
    BY <1>7, <1>a, <1>t DEF TypeOK, RequestHolds, InSpdk, UnderRpcLock, UnderLock, UpdCreate,
       radosVars, workerVars, NewValue
  <1>8. CASE UpdReset(g)
    <2>1. version[g] < omapVersion
      BY <1>8 DEF UpdReset, GroupInv, UpdateInv, TypeOK
    <2> QED
      BY <1>8, <1>a, <2>1 DEF TypeOK, RequestHolds, InSpdk, UnderRpcLock, UnderLock, UpdReset,
       radosVars, workerVars, NewValue
  <1>9. CASE UpdSetVersion(g)
    <2>1. version[g] < omapVersion
      BY <1>9 DEF UpdSetVersion, GroupInv, UpdateInv, TypeOK
    <2>2. pc'[v] = pc[v] \/ (pc[v] = "reload" /\ pc'[v] = "enter")
      BY <1>9, UpdReturnMoves DEF UpdSetVersion
    <2>3. UNCHANGED <<radosVars, local, spdk, rpcLock, op>> /\ version' = [version EXCEPT ![g] = snap[g].ver]
      BY <1>9 DEF UpdSetVersion
    <2> QED
      BY SMTT(30), <1>a, <2>1, <2>2, <2>3 DEF TypeOK, RequestHolds, InSpdk, UnderRpcLock, UnderLock,
       radosVars, NewValue
  <1> QED
    BY <1>1, <1>2, <1>3, <1>4, <1>5, <1>6, <1>7, <1>8, <1>9 DEF UpdateStep

\* The end of a process ends its requests and touches no other gateway's.
LEMMA FreshKeepsRequests ==
    ASSUME TypeOK, TypeOK', RequestInv, NEW g \in Gateways, Fresh(g), NEW v \in Workers
    PROVE  RequestHolds(v)'
  <1>1. CASE v \in Mine(g)
    BY <1>1 DEF Fresh, RequestHolds, UnderRpcLock, UnderLock, NoOp
  <1>2. CASE v \notin Mine(g)
    <2>1. Owner[v] # g /\ Owner[v] \in Gateways
      BY <1>2, OwnerAssumption DEF Mine
    <2>2. /\ pc'[v] = pc[v] /\ op'[v] = op[v]
          /\ UNCHANGED <<omap, omapVersion, rpcLock[Owner[v]], version[Owner[v]], local[Owner[v]], spdk[Owner[v]]>>
      BY <1>2, <2>1 DEF Fresh, TypeOK
    <2> QED
      BY <2>2 DEF RequestInv, RequestHolds, InSpdk, NewValue
  <1> QED
    BY <1>1, <1>2

\* RequestInv is inductive beside GroupInv.
LEMMA NextKeepsRequests ==
    ASSUME GroupInv, RequestInv, GroupInv', ~LockMayExpire, [Next]_vars
    PROVE  RequestInv'
  <1> SUFFICES ASSUME NEW v \in Workers PROVE RequestHolds(v)'
    BY DEF RequestInv
  <1>0. TypeOK /\ TypeOK' /\ RequestHolds(v)
    BY DEF GroupInv, RequestInv, RequestHolds
  <1>1. ASSUME NEW g \in Gateways, Fresh(g) PROVE RequestHolds(v)'
    BY <1>0, <1>1, FreshKeepsRequests
  <1>2. ASSUME NEW w \in Workers, WorkerStep(w) PROVE RequestHolds(v)'
    BY <1>1, <1>2, WorkerKeepsRequests, OwnerAssumption
  <1>3. ASSUME NEW w \in Workers, Request(w) PROVE RequestHolds(v)'
    <2>1. /\ UNCHANGED <<radosVars, gwVars>> /\ pc' = [pc EXCEPT ![w] = "enter"]
          /\ op'[w].ver = 0 /\ (v # w => op'[v] = op[v])
      BY <1>0, <1>3 DEF Request, Goto, TypeOK
    <2> QED
      BY <1>0, <2>1 DEF TypeOK, RequestHolds, InSpdk, UnderRpcLock, UnderLock, NewValue,
         radosVars, gwVars
  <1>4. ASSUME NEW g \in Gateways, UpdateStep(g) \/ Crash(g) PROVE RequestHolds(v)'
    BY <1>1, <1>4, UpdateKeepsRequests DEF Crash
  <1>5. CASE Expire \/ UNCHANGED vars
    BY <1>0, <1>5 DEF Expire, ExpireDead, ExpireLive, vars, radosVars, gwVars, workerVars,
       RequestHolds, InSpdk, NewValue
  <1> QED
    BY <1>2, <1>3, <1>4, <1>5 DEF Next

\* Every request in progress finds SPDK, the OMAP and the local state as it left
\* them (create_subsystem_safe, delete_subsystem_safe under OmapWriteGuard).
THEOREM RequestInvariant ==
    ASSUME LockOnRead, ~LockMayExpire
    PROVE  Spec => [](GroupInv /\ RequestInv)
  <1>1. Init => RequestInv
    BY DEF Init, RequestInv, RequestHolds, UnderRpcLock, UnderLock, NoOp
  <1>2. GroupInv /\ GroupInv' /\ RequestInv /\ [Next]_vars => RequestInv'
    BY NextKeepsRequests
  <1> QED
    BY <1>1, <1>2, GroupInvariant, PTL DEF Spec

\* A request that returns after its write is, at that moment, the latest word on
\* its subsystem in the OMAP, in the local state and in SPDK.
THEOREM ReturnedRequestsAreInEffect ==
    ASSUME LockOnRead, ~LockMayExpire
    PROVE  Spec => ReturnedRequestIsInEffect
  <1> DEFINE InEffect(w) ==
        pc[w] = "unlock" /\ op[w].ver # 0 /\ pc'[w] = "idle" /\ excl = w =>
            LET g == Owner[w]
                s == op[w].nqn
            IN  omap[s] = NewValue(w) /\ local[g][s] = omap[s]
                /\ spdk[g][s] = omap[s]
  <1>1. GroupInv /\ RequestInv /\ [Next]_vars => \A w \in Workers : InEffect(w)
    BY DEF RequestInv, RequestHolds, InSpdk
  <1> QED
    BY <1>1, RequestInvariant, PTL DEF Spec, ReturnedRequestIsInEffect

(***************************************************************************)
(* The group implements GroupState.                                        *)
(***************************************************************************)
\* The refinement mapping in terms of the state: the writer's copy is the OMAP,
\* every other gateway's is the version it is at.
LEMMA SeenIsInHistory == GroupInv /\ RequestInv => SeenInv
  <1> SUFFICES ASSUME GroupInv, RequestInv, NEW g \in Gateways
               PROVE  /\ Seen[g] = SeenVersion(g)
                      /\ Seen[g] \in 1..omapVersion
                      /\ Copy[g] = hist[Seen[g]]
    BY DEF SeenInv
  <1>0. /\ omapVersion \in Nat \ {0} /\ hist[omapVersion] = omap
        /\ version[g] \in 1..omapVersion
    BY DEF GroupInv, TypeOK, HistoryInv
  <1>1. CASE Writing(g) # {}
    <2> DEFINE w == CHOOSE v \in Writing(g) : TRUE
    <2>1. w \in Writing(g)
      BY <1>1
    <2>2. w \in Workers /\ Owner[w] = g /\ pc[w] \in {"setver", "local"}
      BY <2>1 DEF Writing, Mine
    <2>3. op[w].ver = omapVersion /\ [local[g] EXCEPT ![op[w].nqn] = NewValue(w)] = omap
      BY <2>2 DEF GroupInv, WorkerInv, RequestInv, RequestHolds
    <2>4. Seen[g] = op[w].ver /\ Copy[g] = [local[g] EXCEPT ![op[w].nqn] = NewValue(w)]
      BY <1>1 DEF Seen, Copy
    <2> QED
      BY <1>0, <1>1, <2>3, <2>4 DEF SeenVersion
  <1>2. CASE Writing(g) = {}
    <2>1. /\ Seen[g] = IF Replacing(g) THEN snap[g].ver ELSE version[g]
          /\ Copy[g] = local[g]
      BY <1>2 DEF Seen, Copy
    <2>2. \A w \in Mine(g) : pc[w] # "local"
      BY <1>2 DEF Writing
    <2>3. CASE Replacing(g)
      BY <1>2, <2>1, <2>3 DEF GroupInv, UpdateInv, Replacing, SeenVersion
    <2>4. CASE ~Replacing(g)
      BY <1>0, <1>2, <2>1, <2>2, <2>4 DEF GroupInv, LocalInv, Replacing, SeenVersion
    <2> QED
      BY <2>3, <2>4
  <1> QED
    BY <1>1, <1>2

\* ... and so it is after a step.
LEMMA SeenStaysInHistory == GroupInv' /\ RequestInv' => SeenInv'
  BY SeenIsInHistory, PTL

\* While update() is about to replace the local state no request is writing.
LEMMA ReplacingIsAlone ==
    ASSUME GroupInv, NEW g \in Gateways, upc[g] \in {"apply", "setver"}
    PROVE  /\ Writing(g) = {}
           /\ snap[g].ver \in (version[g] + 1)..omapVersion
  <1>1. /\ version[g] < snap[g].ver /\ snap[g].ver \in 1..omapVersion
        /\ \A w \in Mine(g) : pc[w] # "setver"
    BY DEF GroupInv, UpdateInv
  <1>2. version[g] \in Nat /\ omapVersion \in Nat
    BY DEF GroupInv, TypeOK
  <1>3. \A w \in Mine(g) : pc[w] # "local"
    BY <1>1, <1>2 DEF GroupInv, WorkerInv, Mine
  <1> QED
    BY <1>1, <1>2, <1>3 DEF Writing


\* A step that leaves the OMAP alone and every gateway where it is in the
\* history is none of GroupState.
LEMMA SameSeenStutters ==
    ASSUME GroupInv, RequestInv, GroupInv', RequestInv', UNCHANGED <<omapVersion, hist>>,
           \A g \in Gateways : SeenVersion(g)' = SeenVersion(g)
    PROVE  UNCHANGED Group!stateVars
  <1>1. \A g \in Gateways : Seen'[g] = Seen[g] /\ Copy'[g] = Copy[g]
    <2> TAKE g \in Gateways
    <2>1. Seen[g] = SeenVersion(g) /\ Copy[g] = hist[Seen[g]]
      BY SeenIsInHistory DEF SeenInv
    <2>2. Seen'[g] = SeenVersion(g)' /\ Copy'[g] = hist'[Seen'[g]]
      BY SeenStaysInHistory DEF SeenInv
    <2> QED
      BY <2>1, <2>2
  <1>2. Seen' = Seen /\ Copy' = Copy
    BY <1>1 DEF Seen, Copy
  <1> QED
    BY <1>2 DEF Group!stateVars

\* A step that moves one gateway along an unchanged history.
LEMMA OneMovesInHistory ==
    ASSUME GroupInv, RequestInv, GroupInv', RequestInv', UNCHANGED <<omapVersion, hist>>,
           NEW g \in Gateways,
           \A h \in Gateways \ {g} : SeenVersion(h)' = SeenVersion(h)
    PROVE  /\ Seen' = [Seen EXCEPT ![g] = SeenVersion(g)']
           /\ Copy' = [Copy EXCEPT ![g] = hist[SeenVersion(g)']]
  <1>1. \A h \in Gateways : Seen[h] = SeenVersion(h) /\ Copy[h] = hist[SeenVersion(h)]
    BY SeenIsInHistory DEF SeenInv
  <1>2. \A h \in Gateways : Seen'[h] = SeenVersion(h)' /\ Copy'[h] = hist'[SeenVersion(h)']
    BY SeenStaysInHistory DEF SeenInv
  <1>3. /\ Seen = [h \in Gateways |-> Seen[h]] /\ Copy = [h \in Gateways |-> Copy[h]]
        /\ Seen' = [h \in Gateways |-> Seen'[h]] /\ Copy' = [h \in Gateways |-> Copy'[h]]
    BY DEF Seen, Copy
  <1> QED
    BY <1>1, <1>2, <1>3

\* The successor of a process starts from the first version.
LEMMA FreshIsARestart ==
    ASSUME GroupInv, RequestInv, GroupInv', RequestInv',
           NEW g \in Gateways, Fresh(g)
    PROVE  Group!Restart(g)
  <1>1. UNCHANGED <<omapVersion, hist>>
    BY DEF Fresh
  <1>2. \A h \in Gateways \ {g} : SeenVersion(h)' = SeenVersion(h)
    <2> TAKE h \in Gateways \ {g}
    <2>1. /\ upc'[h] = upc[h] /\ snap'[h] = snap[h] /\ version'[h] = version[h]
      BY DEF GroupInv, TypeOK, Fresh
    <2>2. \A w \in Mine(h) : pc'[w] = pc[w]
      BY DEF Fresh, Mine
    <2> QED
      BY <1>1, <2>1, <2>2 DEF SeenVersion, Writing, Replacing, Mine
  <1>3. SeenVersion(g)' = 1
    <2>1. upc'[g] = "idle" /\ version'[g] = 1
      BY DEF GroupInv, TypeOK, Fresh, FirstVersion
    <2>2. Writing(g)' = {}
      BY DEF Fresh, Writing, Mine
    <2> QED
      BY <2>1, <2>2 DEF SeenVersion, Replacing
  <1> QED
    BY <1>1, <1>2, <1>3, OneMovesInHistory DEF Group!Restart

\* update() replacing the local state takes its gateway to a newer version.
LEMMA ResetCatchesUp ==
    ASSUME GroupInv, RequestInv, GroupInv', RequestInv',
           NEW g \in Gateways, UpdReset(g)
    PROVE  Group!CatchUp(g)
  <1>1. UNCHANGED <<omapVersion, hist, version, snap, pc>> /\ upc[g] = "apply"
        /\ upc' = [upc EXCEPT ![g] = "setver"]
    BY DEF UpdReset, UpdGoto, radosVars, workerVars
  <1>2. \A h \in Gateways \ {g} : SeenVersion(h)' = SeenVersion(h)
    BY <1>1 DEF GroupInv, TypeOK, SeenVersion, Writing, Replacing, Mine
  <1>3. Writing(g) = {} /\ snap[g].ver \in (version[g] + 1)..omapVersion
    BY <1>1, ReplacingIsAlone
  <1>4. SeenVersion(g)' = snap[g].ver /\ SeenVersion(g) = version[g]
    BY SMTT(30), <1>1, <1>3 DEF GroupInv, TypeOK, SeenVersion, Writing, Replacing, Mine
  <1>5. Seen[g] = version[g] /\ Seen \in [Gateways -> 1..omapVersion]
    BY <1>4, SeenIsInHistory DEF SeenInv, Seen
  <1>6. /\ Seen' = [Seen EXCEPT ![g] = snap[g].ver]
        /\ Copy' = [Copy EXCEPT ![g] = hist[snap[g].ver]]
    BY <1>1, <1>2, <1>4, OneMovesInHistory
  <1>7. Seen'[g] = snap[g].ver
    BY <1>5, <1>6
  <1> QED
    BY <1>1, <1>3, <1>5, <1>6, <1>7 DEF Group!CatchUp

\* The OMAP write of a request is the publication of one change, by a gateway
\* that has seen the newest version.
LEMMA CommitPublishes ==
    ASSUME GroupInv, RequestInv, GroupInv', RequestInv',
           NEW w \in Workers, Commit(w)
    PROVE  Group!Publish(Owner[w])
  <1> DEFINE g == Owner[w]
  <1> g \in Gateways /\ w \in Mine(g)
    BY OwnerAssumption DEF Mine
  <1>1. pc[w] = "commit" /\ version[g] = omapVersion
    BY DEF Commit, GroupInv, WorkerInv
  <1>2. /\ omap' = [omap EXCEPT ![op[w].nqn] = NewValue(w)]
        /\ omapVersion' = omapVersion + 1
        /\ hist' = [v \in 1..omapVersion' |-> IF v \in DOMAIN hist THEN hist[v] ELSE omap']
        /\ pc' = [pc EXCEPT ![w] = "setver"]
        /\ UNCHANGED <<version, upc, snap>>
    BY <1>1 DEF Commit, SameVersion, NextVersion, Goto, gwVars, updVars
  <1>3. /\ omapVersion \in Nat \ {0} /\ hist \in [1..omapVersion -> Content]
        /\ hist' \in [1..omapVersion' -> Content] /\ omap \in Content
        /\ pc \in [Workers -> {"idle", "enter", "lock", "sleep", "verify", "spdk",
                           "commit", "setver", "local", "unlock", "eagain",
                           "reload"}]
    BY DEF GroupInv, TypeOK
  <1>4. \A v \in 1..omapVersion : hist'[v] = hist[v]
    BY <1>2, <1>3
  <1>5. hist[omapVersion] = omap /\ hist'[omapVersion'] = omap'
    BY DEF GroupInv, HistoryInv
  <1>6. \A v \in Workers : pc[v] \notin {"setver", "local"}
    BY <1>1 DEF GroupInv, LockInv, UnderLock
  <1>7. \A h \in Gateways : Writing(h) = {}
    BY <1>6 DEF Writing, Mine
  <1>8. SeenVersion(g) = omapVersion
    <2>1. upc[g] # "setver"
      BY <1>1, <1>3, ReplacingIsAlone
    <2> QED
      BY <1>1, <1>7, <2>1 DEF SeenVersion, Replacing
  <1>9. SeenVersion(g)' = omapVersion'
    BY <1>2, <1>3 DEF SeenVersion, Writing, Mine
  <1>10. \A h \in Gateways \ {g} : SeenVersion(h)' = SeenVersion(h)
    <2> TAKE h \in Gateways \ {g}
    <2>1. Writing(h)' = {}
      BY <1>2, <1>3, <1>6 DEF Writing, Mine
    <2> QED
      BY <1>2, <1>7, <2>1 DEF SeenVersion, Replacing
  <1>11. \A h \in Gateways : /\ Seen[h] = SeenVersion(h) /\ Seen[h] \in 1..omapVersion
                             /\ Copy[h] = hist[Seen[h]]
    BY SeenIsInHistory DEF SeenInv
  <1>12. \A h \in Gateways : Seen'[h] = SeenVersion(h)' /\ Copy'[h] = hist'[Seen'[h]]
    BY SeenStaysInHistory DEF SeenInv
  <1>13. /\ Seen = [h \in Gateways |-> Seen[h]] /\ Copy = [h \in Gateways |-> Copy[h]]
         /\ Seen' = [h \in Gateways |-> Seen'[h]] /\ Copy' = [h \in Gateways |-> Copy'[h]]
    BY DEF Seen, Copy
  <1>14. Seen' = [Seen EXCEPT ![g] = omapVersion']
    BY <1>9, <1>10, <1>11, <1>12, <1>13
  <1>15. Copy' = [Copy EXCEPT ![g] = hist'[omapVersion']]
    BY <1>4, <1>9, <1>10, <1>11, <1>12, <1>13
  <1>16. op[w].nqn \in Subsystems
    BY OpType DEF GroupInv
  <1>17. \E s \in Subsystems : \A t \in Subsystems \ {s} :
            hist'[omapVersion'][t] = hist[omapVersion][t]
    <2>1. \A t \in Subsystems \ {op[w].nqn} : omap'[t] = omap[t]
      BY <1>2, <1>3 DEF Content
    <2> QED
      BY <1>5, <1>16, <2>1
  <1>18. Seen[g] = omapVersion /\ Copy[g] = hist[omapVersion]
    BY <1>8, <1>11
  <1> QED
    BY <1>2, <1>3, <1>4, <1>14, <1>15, <1>17, <1>18 DEF Group!Publish, Group!Content, Content


\* Of a worker's steps the OMAP write is a publication, the end of its process
\* a restart, and all others leave every gateway where it is.
LEMMA WorkerStepMaps ==
    ASSUME GroupInv, RequestInv, GroupInv', RequestInv', LockOnRead, ~LockMayExpire,
           NEW w \in Workers, WorkerStep(w)
    PROVE  Group!StateNext \/ UNCHANGED Group!stateVars
  <1> Owner[w] \in Gateways /\ w \in Mine(Owner[w])
    BY OwnerAssumption DEF Mine
  <1>t. /\ pc \in [Workers -> {"idle", "enter", "lock", "sleep", "verify", "spdk",
                           "commit", "setver", "local", "unlock", "eagain",
                           "reload"}]
        /\ upc \in [Gateways -> {"idle", "lock", "read", "compare", "apply", "setver"}]
        /\ version \in [Gateways -> Nat] /\ op \in [Workers -> Ops]
    BY DEF GroupInv, TypeOK
  <1>1. CASE TriesExhausted(w) \/ LockWasLost(w) \/ StaleReadMark(w)
    <2>1. Fresh(Owner[w])
      BY <1>1 DEF TriesExhausted, LockWasLost, StaleReadMark, Abort
    <2> QED
      BY <2>1, FreshIsARestart DEF Group!StateNext
  <1>2. CASE Commit(w)
    BY <1>2, CommitPublishes DEF Group!StateNext
  <1>3. CASE SetVersion(w)
    <2>1. /\ UNCHANGED <<omapVersion, hist, upc, snap>> /\ pc[w] = "setver"
          /\ pc' = [pc EXCEPT ![w] = "local"]
          /\ version' = [version EXCEPT ![Owner[w]] = op[w].ver]
      BY <1>3 DEF SetVersion, Goto, radosVars, updVars
    <2>2. \A g \in Gateways : Writing(g)' = Writing(g)
      BY <1>t, <2>1 DEF Writing, Mine
    <2>3. w \in Writing(Owner[w])
      BY <2>1 DEF Writing
    <2>4. \A g \in Gateways : SeenVersion(g)' = SeenVersion(g)
      BY <1>t, <2>1, <2>2, <2>3 DEF SeenVersion, Replacing
    <2> QED
      BY <2>1, <2>4, SameSeenStutters
  <1>4. CASE WriteLocal(w)
    <2>1. /\ UNCHANGED <<omapVersion, hist, upc, snap, version>> /\ pc[w] = "local"
          /\ pc' = [pc EXCEPT ![w] = "unlock"]
      BY <1>4 DEF WriteLocal, Goto, radosVars, updVars
    <2>2. \A v \in Workers \ {w} : pc[v] \notin {"setver", "local"}
      BY <2>1 DEF GroupInv, LockInv, UnderLock
    <2>3. version[Owner[w]] = omapVersion
      BY <2>1 DEF GroupInv, WorkerInv
    <2>4. w \in Writing(Owner[w])
      BY <2>1 DEF Writing
    <2>5. upc[Owner[w]] # "setver"
      BY <2>4, ReplacingIsAlone
    <2>6. \A g \in Gateways : /\ Writing(g)' = {}
                              /\ g # Owner[w] => Writing(g) = {}
      BY <1>t, <2>1, <2>2 DEF Writing, Mine
    <2>7. \A g \in Gateways : SeenVersion(g)' = SeenVersion(g)
      BY <2>1, <2>3, <2>4, <2>5, <2>6 DEF SeenVersion, Replacing
    <2> QED
      BY <2>1, <2>7, SameSeenStutters
  <1>5. ASSUME UNCHANGED <<omapVersion, hist, version, snap>>,
               NEW label \in {"idle", "enter", "lock", "sleep", "verify", "spdk",
                              "commit", "unlock", "eagain", "reload"},
               Goto(w, label), pc[w] \notin {"setver", "local"},
               \A g \in Gateways : (upc'[g] = "setver") = (upc[g] = "setver")
        PROVE  UNCHANGED Group!stateVars
    <2>1. \A g \in Gateways : Writing(g)' = Writing(g)
      BY <1>5, <1>t DEF Goto, Writing, Mine
    <2>2. \A g \in Gateways : SeenVersion(g)' = SeenVersion(g)
      BY <1>5, <2>1 DEF SeenVersion, Replacing
    <2> QED
      BY <1>5, <2>2, SameSeenStutters
  <1>6. CASE Reload(w)
    <2>1. \A g \in Gateways : (upc'[g] = "setver") = (upc[g] = "setver")
      BY <1>6, <1>t DEF Reload
    <2> QED
      BY <1>6, <1>5, <2>1 DEF Reload, radosVars, gwVars
  <1>7. CASE Enter(w) \/ LockBusy(w) \/ Wake(w) \/ LockOmap(w) \/ Verify(w) \/ Spdk(w)
             \/ Unlock(w)
    <2>1. UNCHANGED <<omapVersion, hist, version, snap, upc>> /\ pc[w] \notin {"setver", "local"}
      BY <1>7 DEF Enter, LockBusy, Wake, LockOmap, Verify, Spdk, Unlock, radosVars, gwVars,
         updVars
    <2>2. \E label \in {"idle", "enter", "lock", "sleep", "verify", "spdk",
                        "commit", "unlock", "eagain", "reload"} : Goto(w, label)
      BY <1>7 DEF Enter, Return, LockBusy, Wake, LockOmap, Verify, Spdk, Unlock
    <2> QED
      BY <1>5, <2>1, <2>2
  <1> QED
    BY <1>1, <1>2, <1>3, <1>4, <1>6, <1>7 DEF WorkerStep

\* Of the steps of update() only the reset of the local state moves a gateway.
LEMMA UpdateStepMaps ==
    ASSUME GroupInv, RequestInv, GroupInv', RequestInv', LockOnRead, ~LockMayExpire,
           NEW g \in Gateways, UpdateStep(g)
    PROVE  Group!StateNext \/ UNCHANGED Group!stateVars
  <1>t. /\ upc \in [Gateways -> {"idle", "lock", "read", "compare", "apply", "setver"}]
        /\ version \in [Gateways -> Nat]
        /\ snap \in [Gateways -> [ver : Nat, st : Content]]
    BY DEF GroupInv, TypeOK
  <1>1. CASE UpdReset(g)
    BY <1>1, ResetCatchesUp DEF Group!StateNext
  <1>2. CASE UpdReadLost(g)
    BY <1>2 DEF GroupInv, LockInv, UpdReadLost
  <1>3. ASSUME UNCHANGED <<omapVersion, hist>>,
               \A w \in Workers : pc'[w] = pc[w] \/ (pc[w] = "reload" /\ pc'[w] = "enter"),
               \A h \in Gateways \ {g} :
                  UNCHANGED <<upc[h], version[h], snap[h]>>,
               (IF upc'[g] = "setver" THEN snap'[g].ver ELSE version'[g])
                  = (IF upc[g] = "setver" THEN snap[g].ver ELSE version[g])
        PROVE  UNCHANGED Group!stateVars
    <2>1. \A h \in Gateways : Writing(h)' = Writing(h)
      BY <1>3 DEF Writing, Mine
    <2>2. \A h \in Gateways : SeenVersion(h)' = SeenVersion(h)
      BY <1>3, <2>1 DEF SeenVersion, Replacing
    <2> QED
      BY <1>3, <2>2, SameSeenStutters
  <1>4. CASE UpdSetVersion(g)
    <2>1. /\ UNCHANGED <<omapVersion, hist>> /\ upc[g] = "setver"
          /\ version' = [version EXCEPT ![g] = snap[g].ver]
          /\ upc' = [upc EXCEPT ![g] = "idle"]
          /\ snap' = [snap EXCEPT ![g] = NoSnap]
      BY <1>4 DEF UpdSetVersion, UpdReturn, UpdGoto, radosVars
    <2>2. \A w \in Workers : pc'[w] = pc[w] \/ (pc[w] = "reload" /\ pc'[w] = "enter")
      BY <1>4, UpdReturnMoves DEF UpdSetVersion
    <2> QED
      BY <1>t, <1>3, <2>1, <2>2
  <1>5. CASE UpdCompare(g)
    <2>1. /\ UNCHANGED <<omapVersion, hist, version>> /\ upc[g] = "compare"
          /\ \E label \in {"apply", "idle"} : upc' = [upc EXCEPT ![g] = label]
          /\ snap' = snap \/ snap' = [snap EXCEPT ![g] = NoSnap]
      BY <1>5 DEF UpdCompare, UpdReturn, UpdGoto, radosVars, gwVars
    <2>2. \A w \in Workers : pc'[w] = pc[w] \/ (pc[w] = "reload" /\ pc'[w] = "enter")
      BY <1>5, UpdReturnMoves DEF UpdCompare
    <2> QED
      BY <1>t, <1>3, <2>1, <2>2
  <1>6. CASE PeriodicUpdate(g) \/ UpdLock(g) \/ UpdDelete(g) \/ UpdCreate(g)
    <2>1. /\ UNCHANGED <<omapVersion, hist, version, snap, pc>>
          /\ \/ upc' = upc
             \/ upc[g] # "setver" /\ upc' = [upc EXCEPT ![g] = "lock"]
             \/ upc[g] # "setver" /\ upc' = [upc EXCEPT ![g] = "read"]
      BY <1>6 DEF PeriodicUpdate, UpdLock, UpdDelete, UpdCreate, UpdGoto, radosVars, gwVars,
         workerVars
    <2> QED
      BY <1>t, <1>3, <2>1
  <1>7. CASE UpdRead(g)
    <2>1. /\ UNCHANGED <<omapVersion, hist, version, pc>> /\ upc[g] # "setver"
          /\ upc' = [upc EXCEPT ![g] = "compare"]
          /\ \A h \in Gateways \ {g} : snap'[h] = snap[h]
      BY <1>7, <1>t DEF UpdRead, UpdGoto, workerVars
    <2> QED
      BY <1>t, <1>3, <2>1
  <1> QED
    BY <1>1, <1>2, <1>4, <1>5, <1>6, <1>7 DEF UpdateStep

\* Every step of the threads is a publication, a catching up, a restart or a
\* stutter of GroupState: the gateways share one linear history of the OMAP.
THEOREM GroupStateIsImplemented ==
    ASSUME LockOnRead, ~LockMayExpire
    PROVE  Spec => ImplementsGroupState
  <1>1. Init => Group!StateInit
    <2> SUFFICES ASSUME Init PROVE Group!StateInit
      OBVIOUS
    <2>1. \A g \in Gateways : Writing(g) = {} /\ ~Replacing(g)
      BY DEF Init, Writing, Replacing, Mine
    <2>2. Seen = [g \in Gateways |-> 1] /\ Copy = [g \in Gateways |-> Empty]
      BY <2>1 DEF Seen, Copy, Init, FirstVersion
    <2>3. hist = [v \in 1..1 |-> Empty]
      BY DEF Init, FirstVersion
    <2> QED
      BY <2>2, <2>3 DEF Group!StateInit, Group!Empty, Empty, Init, FirstVersion
  <1>2. /\ GroupInv /\ RequestInv /\ GroupInv' /\ RequestInv' /\ [Next]_vars
        => [Group!StateNext]_(Group!stateVars)
    <2> SUFFICES ASSUME GroupInv, RequestInv, GroupInv', RequestInv', [Next]_vars
                 PROVE  Group!StateNext \/ UNCHANGED Group!stateVars
      OBVIOUS
    <2>1. ASSUME NEW w \in Workers, Request(w) PROVE UNCHANGED Group!stateVars
      <3>1. /\ UNCHANGED <<omapVersion, hist, version, upc, snap>>
            /\ pc' = [pc EXCEPT ![w] = "enter"] /\ pc[w] = "idle"
        BY <2>1 DEF Request, Goto, radosVars, gwVars, updVars
      <3>2. \A g \in Gateways : Writing(g)' = Writing(g)
        BY <3>1 DEF GroupInv, TypeOK, Writing, Mine
      <3>3. \A g \in Gateways : SeenVersion(g)' = SeenVersion(g)
        BY <3>1, <3>2 DEF SeenVersion, Replacing
      <3> QED
        BY <3>1, <3>3, SameSeenStutters
    <2>2. ASSUME Expire \/ UNCHANGED vars PROVE UNCHANGED Group!stateVars
      <3>1. UNCHANGED <<omapVersion, hist, version, upc, snap, pc>>
        BY <2>2 DEF Expire, ExpireDead, ExpireLive, gwVars, updVars, workerVars, vars, radosVars
      <3>2. \A g \in Gateways : SeenVersion(g)' = SeenVersion(g)
        BY <3>1 DEF SeenVersion, Replacing, Writing, Mine
      <3> QED
        BY <3>1, <3>2, SameSeenStutters
    <2>3. ASSUME NEW g \in Gateways, Crash(g) PROVE Group!StateNext
      BY <2>3, FreshIsARestart DEF Crash, Group!StateNext
    <2> QED
      BY <2>1, <2>2, <2>3, WorkerStepMaps, UpdateStepMaps DEF Next
  <1> QED
    BY <1>1, <1>2, RequestInvariant, PTL DEF Spec, ImplementsGroupState, Group!StateSpec

(***************************************************************************)
(* The SPDK target of a gateway, with one subsystem.  With more of them the *)
(* invariant does not hold: update() overwrites the groups of removed and  *)
(* added keys by the one of changed keys (Differences).                    *)
(***************************************************************************)
\* A step that touches nothing of a gateway but takes its requests on.
LEMMA SameSpdk ==
    ASSUME SpdkInv, NEW g \in Gateways,
           UNCHANGED <<spdk[g], local[g], upc[g], todo[g], snap[g]>>,
           \A w \in Mine(g) : pc[w] \in {"commit", "setver", "local"} =>
                              pc'[w] \in {"commit", "setver", "local"}
    PROVE  SpdkHolds(g)'
  BY DEF SpdkInv, SpdkHolds, Mine

\* A new process starts with an empty SPDK target and an empty local state.
LEMMA FreshKeepsSpdk ==
    ASSUME TypeOK, SpdkInv, NEW h \in Gateways, Fresh(h), NEW g \in Gateways
    PROVE  SpdkHolds(g)'
  <1>1. CASE g = h
    BY <1>1 DEF TypeOK, Fresh, SpdkHolds
  <1>2. CASE g # h
    <2>1. UNCHANGED <<spdk[g], local[g], upc[g], todo[g], snap[g]>>
      BY <1>2 DEF TypeOK, Fresh
    <2>2. \A w \in Mine(g) : pc'[w] = pc[w]
      BY <1>2 DEF Fresh, Mine
    <2> QED
      BY <2>1, <2>2, SameSpdk
  <1> QED
    BY <1>1, <1>2

\* A request changes SPDK and then the local state in the same way.
LEMMA WorkerKeepsSpdk ==
    ASSUME GroupInv, RequestInv, SpdkInv, GroupInv',
           \A s, t \in Subsystems : s = t,
           NEW w \in Workers, WorkerStep(w), NEW g \in Gateways
    PROVE  SpdkHolds(g)'
  <1> Owner[w] \in Gateways
    BY OwnerAssumption
  <1>0. TypeOK /\ TypeOK'
    BY DEF GroupInv
  <1>1. CASE TriesExhausted(w) \/ LockWasLost(w) \/ StaleReadMark(w)
    BY <1>0, <1>1, FreshKeepsSpdk DEF TriesExhausted, LockWasLost, StaleReadMark, Abort
  <1>2. ASSUME NEW label, Goto(w, label),
               pc[w] \in {"commit", "setver", "local"} => label \in {"commit", "setver", "local"},
               UNCHANGED <<spdk[g], local[g], todo[g], snap[g], upc[g]>>
        PROVE  SpdkHolds(g)'
    <2>1. \A v \in Mine(g) : pc[v] \in {"commit", "setver", "local"} =>
                             pc'[v] \in {"commit", "setver", "local"}
      BY <1>0, <1>2 DEF TypeOK, Goto, Mine
    <2> QED
      BY <1>2, <2>1, SameSpdk
  <1>3. CASE Enter(w) \/ LockBusy(w) \/ Wake(w) \/ LockOmap(w) \/ Verify(w) \/ Unlock(w)
             \/ SetVersion(w)
    <2>1. /\ UNCHANGED <<spdk, local, todo, snap, upc>>
          /\ pc[w] \in {"commit", "setver", "local"} => Goto(w, "local")
          /\ \E label \in {"idle", "enter", "lock", "sleep", "verify", "spdk", "local", "eagain"} :
                Goto(w, label)
      BY <1>3 DEF Enter, Return, LockBusy, Wake, LockOmap, Verify, Unlock, SetVersion, gwVars,
         updVars
    <2> QED
      BY <1>2, <2>1
  <1>4. CASE Spdk(w)
    <2>1. /\ UNCHANGED <<local, todo, snap, upc>> /\ pc[w] = "spdk"
          /\ \/ Goto(w, "unlock") /\ UNCHANGED spdk
             \/ /\ Goto(w, "commit")
                /\ \A h \in Gateways \ {Owner[w]} : spdk'[h] = spdk[h]
      BY <1>0, <1>4 DEF TypeOK, Spdk, updVars
    <2>2. CASE UNCHANGED spdk[g]
      BY <1>2, <2>1, <2>2
    <2>3. CASE g = Owner[w] /\ pc'[w] = "commit"
      <3>1. upc[g] # "apply"
        BY <2>1, <2>3 DEF GroupInv, TypeOK, WorkerInv, UpdateInv
      <3> QED
        BY <2>1, <2>3, <3>1 DEF SpdkHolds, Mine
    <2> QED
      BY <1>0, <2>1, <2>2, <2>3 DEF TypeOK, Goto
  <1>5. CASE Commit(w)
    <2>1. /\ UNCHANGED <<spdk, local, todo, snap, upc>> /\ pc[w] = "commit"
      BY <1>5 DEF Commit, gwVars, updVars
    <2>2. Goto(w, "setver")
      BY <1>5, <2>1 DEF Commit, SameVersion, GroupInv, WorkerInv
    <2> QED
      BY <1>2, <2>1, <2>2
  <1>6. CASE WriteLocal(w)
    <2>1. /\ UNCHANGED <<spdk, todo, snap, upc, op>> /\ pc[w] = "local" /\ Goto(w, "unlock")
          /\ local' = [local EXCEPT ![Owner[w]][op[w].nqn] = NewValue(w)]
      BY <1>6 DEF WriteLocal, updVars
    <2>2. CASE g = Owner[w]
      <3>1. upc[g] # "apply"
        BY <2>1, <2>2 DEF GroupInv, TypeOK, WorkerInv, UpdateInv
      <3>2. op[w].nqn \in Subsystems /\ spdk[g][op[w].nqn] = NewValue(w)
        BY <1>0, <2>1, <2>2, OpType DEF RequestInv, RequestHolds, InSpdk
      <3>3. local'[g][op[w].nqn] = NewValue(w)
        <4>1. local \in [Gateways -> [Subsystems -> Nat]]
          BY <1>0 DEF TypeOK, Content
        <4> QED
          BY <2>1, <2>2, <3>2, <4>1
      <3>4. spdk[g] \in [Subsystems -> Nat] /\ local'[g] \in [Subsystems -> Nat]
        BY <1>0 DEF TypeOK, Content
      <3>5. \A s \in Subsystems : s = op[w].nqn
        BY <3>2
      <3>6. spdk[g] = local'[g]
        BY <3>2, <3>3, <3>4, <3>5
      <3> QED
        BY <2>1, <3>1, <3>6 DEF SpdkHolds
    <2>3. CASE g # Owner[w]
      <3>1. local'[g] = local[g]
        BY <1>0, <2>1, <2>3 DEF TypeOK
      <3>2. \A v \in Mine(g) : pc'[v] = pc[v]
        BY <1>0, <2>1, <2>3 DEF TypeOK, Goto, Mine
      <3> QED
        BY <2>1, <3>1, <3>2, SameSpdk
    <2> QED
      BY <2>2, <2>3
  <1>7. CASE Reload(w)
    <2>1. /\ UNCHANGED <<spdk, local, todo, snap>> /\ pc[w] = "eagain"
          /\ \E label \in {"reload", "enter"} : Goto(w, label)
          /\ \A h \in Gateways : \/ upc'[h] = upc[h]
                                 \/ upc[h] = "idle" /\ upc'[h] = "lock"
      BY <1>0, <1>7 DEF TypeOK, Reload, gwVars
    <2>2. \A v \in Mine(g) : pc[v] \in {"commit", "setver", "local"} => pc'[v] = pc[v]
      BY <1>0, <2>1 DEF TypeOK, Goto, Mine
    <2> QED
      BY <2>1, <2>2 DEF SpdkInv, SpdkHolds, Mine
  <1> QED
    BY <1>1, <1>3, <1>4, <1>5, <1>6, <1>7 DEF WorkerStep

\* With one subsystem the groups of removed, added and changed keys are complete.
LEMMA OneSubsystemDiffers ==
    ASSUME \A s, t \in Subsystems : s = t,
           NEW old \in Content, NEW new \in Content, NEW s \in Subsystems
    PROVE  LET diff == Differences(old, new)
           IN  /\ old[s] = IF s \in diff.del THEN old[s]
                           ELSE IF s \in diff.add THEN 0 ELSE new[s]
               /\ s \in diff.del \ diff.add => new[s] = 0
  BY DEF Differences, GroupedUpdate, Changed, Present, Content

\* A target that does not have the only subsystem has room for it.
LEMMA RoomForTheOnlyOne ==
    ASSUME \A s, t \in Subsystems : s = t, NEW g \in Gateways,
           NEW s \in Subsystems, spdk[g][s] = 0
    PROVE  ~SpdkFull(g)
  <1>1. Present(spdk[g]) = {}
    BY DEF Present
  <1>2. Cardinality({}) = 0
    BY FS_EmptySet
  <1> QED
    BY <1>1, <1>2, BoundAssumption DEF SpdkFull

\* update() deletes, creates and then replaces the local state.
LEMMA UpdateKeepsSpdk ==
    ASSUME GroupInv, RequestInv, SpdkInv, GroupInv',
           \A s, t \in Subsystems : s = t,
           NEW h \in Gateways, UpdateStep(h), NEW g \in Gateways
    PROVE  SpdkHolds(g)'
  <1>0. TypeOK /\ TypeOK' /\ SpdkHolds(g)
    BY DEF GroupInv, SpdkInv
  <1>1. \A w \in Workers : pc[w] \in {"commit", "setver", "local"} => pc'[w] = pc[w]
    <2>1. CASE UpdReturn(h)
      BY <2>1, UpdReturnMoves
    <2>2. CASE ~UpdReturn(h)
      BY <2>2 DEF UpdateStep, PeriodicUpdate, UpdLock, UpdRead, UpdReadLost, UpdCompare,
         UpdDelete, UpdCreate, UpdReset, UpdSetVersion, GroupInv, LockInv, workerVars
    <2> QED
      BY <2>1, <2>2
  <1>2. CASE g # h
    <2>1. UNCHANGED <<spdk[g], local[g], upc[g], todo[g], snap[g]>>
      <3>1. ~UpdReadLost(h)
        BY DEF UpdReadLost, GroupInv, LockInv
      <3> QED
        <4>1. CASE PeriodicUpdate(h) \/ UpdLock(h) \/ UpdRead(h)
          BY <1>0, <1>2, <4>1 DEF TypeOK, PeriodicUpdate, UpdLock, UpdRead, UpdGoto, gwVars
        <4>2. CASE UpdCompare(h)
          BY <1>0, <1>2, <4>2 DEF TypeOK, UpdCompare, UpdReturn, UpdGoto, gwVars
        <4>3. CASE UpdDelete(h)
          BY <1>0, <1>2, <4>3 DEF TypeOK, UpdDelete
        <4>4. CASE UpdCreate(h)
          BY <1>0, <1>2, <4>4 DEF TypeOK, UpdCreate
        <4>5. CASE UpdReset(h)
          BY <1>0, <1>2, <4>5 DEF TypeOK, UpdReset, UpdGoto
        <4>6. CASE UpdSetVersion(h)
          BY <1>0, <1>2, <4>6 DEF TypeOK, UpdSetVersion, UpdReturn, UpdGoto
        <4> QED
          BY <3>1, <4>1, <4>2, <4>3, <4>4, <4>5, <4>6 DEF UpdateStep
    <2> QED
      BY <1>1, <2>1, SameSpdk DEF Mine
  <1>3. CASE g = h /\ (PeriodicUpdate(g) \/ UpdLock(g) \/ UpdRead(g))
    <2>1. /\ UNCHANGED <<spdk, local>> /\ upc[g] # "apply" /\ upc'[g] # "apply"
      BY <1>0, <1>3 DEF TypeOK, PeriodicUpdate, UpdLock, UpdRead, UpdGoto, gwVars
    <2> QED
      BY <1>0, <1>1, <2>1 DEF SpdkHolds, Mine
  <1>4. CASE g = h /\ UpdReadLost(g)
    BY <1>4 DEF UpdReadLost, GroupInv, LockInv
  <1>5. CASE g = h /\ UpdCompare(g)
    <2>1. /\ UNCHANGED <<spdk, local>> /\ upc[g] = "compare"
      BY <1>5 DEF UpdCompare, gwVars
    <2>2. CASE ~Stale(g)
      <3>1. upc'[g] # "apply"
        BY <1>0, <1>5, <2>2 DEF TypeOK, UpdCompare, UpdReturn, UpdGoto
      <3> QED
        BY <1>0, <1>1, <2>1, <3>1 DEF SpdkHolds, Mine
    <2>3. CASE Stale(g)
      <3>1. /\ todo'[g] = Differences(local[g], snap[g].st) /\ UNCHANGED snap
            /\ upc'[g] = "apply"
        BY <1>0, <1>5, <2>3 DEF TypeOK, UpdCompare, UpdGoto
      <3>2. version[g] < snap[g].ver /\ snap[g].ver \in 1..omapVersion
            /\ version[g] \in Nat /\ omapVersion \in Nat
        BY <2>1, <2>3 DEF Stale, GroupInv, UpdateInv, TypeOK
      <3>3. \A w \in Mine(g) : pc[w] \notin {"commit", "setver", "local"}
        BY <2>1, <3>2 DEF GroupInv, WorkerInv, Mine
      <3>4. spdk[g] = local[g]
        BY <1>0, <2>1, <3>3 DEF SpdkHolds
      <3>5. local[g] \in Content /\ snap[g].st \in Content
        BY <1>0 DEF TypeOK
      <3> QED
        BY <2>1, <3>1, <3>4, <3>5, OneSubsystemDiffers DEF SpdkHolds
    <2> QED
      BY <2>2, <2>3
  <1>6. CASE g = h /\ UpdDelete(g)
    <2>1. PICK s \in todo[g].del : /\ spdk' = [spdk EXCEPT ![g][s] = 0]
                                   /\ todo' = [todo EXCEPT ![g].del = @ \ {s}]
      BY <1>6 DEF UpdDelete
    <2>2. UNCHANGED <<local, upc, snap>> /\ upc[g] = "apply"
      BY <1>6 DEF UpdDelete
    <2>3. s \in Subsystems /\ spdk[g] \in Content /\ snap[g].st \in Content
      BY <1>0, <2>1 DEF TypeOK
    <2>4. spdk'[g][s] = 0 /\ todo'[g].del = todo[g].del \ {s} /\ todo'[g].add = todo[g].add
      BY <1>0, <2>1, <2>3 DEF TypeOK, Content
    <2>5. s \in todo[g].add \/ snap[g].st[s] = 0
      BY <1>0, <2>1, <2>2, <2>3 DEF SpdkHolds
    <2>6. \A t \in Subsystems : t = s
      BY <2>3
    <2> QED
      BY <2>2, <2>4, <2>5, <2>6 DEF SpdkHolds
  <1>7. CASE g = h /\ UpdCreate(g)
    <2>1. PICK s \in todo[g].add :
              /\ spdk' = IF spdk[g][s] # 0 \/ SpdkFull(g) THEN spdk
                         ELSE [spdk EXCEPT ![g][s] = snap[g].st[s]]
              /\ todo' = [todo EXCEPT ![g].add = @ \ {s}]
      BY <1>7 DEF UpdCreate
    <2>2. UNCHANGED <<local, upc, snap>> /\ upc[g] = "apply" /\ todo[g].del = {}
      BY <1>7 DEF UpdCreate
    <2>3. s \in Subsystems /\ spdk[g] \in Content /\ snap[g].st \in Content
      BY <1>0, <2>1 DEF TypeOK
    <2>4. spdk[g][s] = 0
      BY <1>0, <2>1, <2>2, <2>3 DEF SpdkHolds
    <2>5. spdk'[g][s] = snap[g].st[s] /\ todo'[g].del = todo[g].del
          /\ todo'[g].add = todo[g].add \ {s}
      <3>1. spdk' = [spdk EXCEPT ![g][s] = snap[g].st[s]]
        BY <2>1, <2>3, <2>4, RoomForTheOnlyOne
      <3>2. spdk \in [Gateways -> [Subsystems -> Nat]]
        BY <1>0 DEF TypeOK, Content
      <3>3. spdk'[g][s] = snap[g].st[s]
        BY <2>3, <3>1, <3>2
      <3> QED
        BY <1>0, <2>1, <3>3 DEF TypeOK
    <2> QED
      BY <2>2, <2>3, <2>5 DEF SpdkHolds
  <1>8. CASE g = h /\ UpdReset(g)
    <2>1. /\ UNCHANGED <<spdk, snap>> /\ upc[g] = "apply" /\ upc'[g] = "setver"
          /\ todo[g] = NoTodo /\ local'[g] = snap[g].st
      BY <1>0, <1>8 DEF TypeOK, UpdReset, UpdGoto
    <2>2. \A s \in Subsystems : spdk[g][s] = snap[g].st[s]
      BY <1>0, <2>1 DEF SpdkHolds, NoTodo
    <2>3. spdk[g] = snap[g].st
      BY <1>0, <2>2 DEF TypeOK, Content
    <2> QED
      BY <2>1, <2>3 DEF SpdkHolds
  <1>9. CASE g = h /\ UpdSetVersion(g)
    <2>1. UNCHANGED <<spdk, local>> /\ upc[g] = "setver" /\ upc'[g] = "idle"
      BY <1>0, <1>9 DEF TypeOK, UpdSetVersion, UpdReturn, UpdGoto
    <2> QED
      BY <1>0, <1>1, <2>1 DEF SpdkHolds, Mine
  <1> QED
    BY <1>2, <1>3, <1>4, <1>5, <1>6, <1>7, <1>8, <1>9 DEF UpdateStep

\* SpdkInv is inductive beside GroupInv and RequestInv.
LEMMA NextKeepsSpdk ==
    ASSUME GroupInv, RequestInv, SpdkInv, GroupInv', [Next]_vars,
           \A s, t \in Subsystems : s = t
    PROVE  SpdkInv'
  <1> SUFFICES ASSUME NEW g \in Gateways PROVE SpdkHolds(g)'
    BY DEF SpdkInv
  <1>1. ASSUME NEW w \in Workers, Request(w) PROVE SpdkHolds(g)'
    <2>1. /\ UNCHANGED <<spdk, local, upc, todo, snap>> /\ pc[w] = "idle"
          /\ Goto(w, "enter")
      BY <1>1 DEF Request, gwVars, updVars
    <2>2. \A v \in Mine(g) : pc[v] \in {"commit", "setver", "local"} => pc'[v] = pc[v]
      BY <2>1 DEF GroupInv, TypeOK, Goto, Mine
    <2> QED
      BY <2>1, <2>2, SameSpdk
  <1>2. ASSUME NEW h \in Gateways, Crash(h) PROVE SpdkHolds(g)'
    BY <1>2, FreshKeepsSpdk DEF Crash, GroupInv
  <1>3. CASE Expire \/ UNCHANGED vars
    <2>1. UNCHANGED <<spdk, local, upc, todo, snap, pc>>
      BY <1>3 DEF Expire, ExpireDead, ExpireLive, vars, gwVars, updVars, workerVars
    <2> QED
      BY <2>1, SameSpdk
  <1> QED
    BY <1>1, <1>2, <1>3, WorkerKeepsSpdk, UpdateKeepsSpdk DEF Next

\* Whenever neither a request nor an update is between the two, the SPDK target
\* of a gateway holds the subsystem exactly when its local state does.
THEOREM SpdkStaysLocal ==
    ASSUME LockOnRead, ~LockMayExpire, \A s, t \in Subsystems : s = t
    PROVE  Spec => []SpdkFollowsLocal
  <1>1. Init => SpdkInv
    BY DEF Init, SpdkInv, SpdkHolds
  <1>2. GroupInv /\ GroupInv' /\ RequestInv /\ SpdkInv /\ [Next]_vars => SpdkInv'
    BY NextKeepsSpdk
  <1>3. SpdkInv => SpdkFollowsLocal
    BY DEF SpdkInv, SpdkHolds, SpdkFollowsLocal, Settled
  <1> QED
    BY <1>1, <1>2, <1>3, RequestInvariant, PTL DEF Spec

=============================================================================

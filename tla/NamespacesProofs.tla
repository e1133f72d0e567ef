-------------------------- MODULE NamespacesProofs --------------------------
(***************************************************************************)
(* Proofs of the safety properties of Namespaces, for any number of        *)
(* gateways, requests, namespaces, failures and restarts.                  *)
(***************************************************************************)
EXTENDS Namespaces, FiniteSetTheorems, WellFoundedInduction, TLAPS

(***************************************************************************)
(* The inductive invariant                                                 *)
(***************************************************************************)
Injective(t) == \A i, j \in Ids : t[i] # None /\ t[i] = t[j] => i = j

\* A local state of the OMAP's version is the OMAP, an update is under way
\* only to a newer version, and a subsystem that is gone does not come back.
VersionInv ==
    /\ version >= FirstVersion
    /\ \A g \in Gateways :
          /\ local[g].ver <= version
          /\ local[g].ver = version => local[g].sub = exists /\ local[g].ns = omap
          /\ exists => local[g].sub \/ local[g].ns = EmptyTable
    /\ \A g \in Gateways : update[g] # None =>
          /\ local[g].ver < update[g].ver /\ update[g].ver <= version
          /\ update[g].ver = version => update[g].sub = exists /\ update[g].ns = omap
          /\ exists => update[g].sub
          /\ Injective(update[g].ns)
          /\ update[g].dropSub => ~update[g].sub
          /\ update[g].addSub => update[g].sub

\* whether gateway g has the subsystem, by its local state and its update
HasSubsystem(g) ==
    IF update[g] = None THEN local[g].sub
    ELSE update[g].dropSub \/ (update[g].sub /\ ~update[g].addSub)

\* It has, unless SPDK has refused to delete it.
SubsystemInv == \A g \in Gateways : "fault" \notin troubles[g] => (gw[g].sub <=> HasSubsystem(g))

\* SPDK, the list, the bdevs and the load of a gateway fit each other.
Fits(r) ==
    /\ r.list = r.spdk
    /\ Injective(r.spdk)
    /\ r.sub => r.bdevs = UuidsOf(r.spdk) /\ r.load = Cardinality(Used(r.spdk))
    /\ ~r.sub => r.spdk = EmptyTable
Bare(r) == r.bdevs = {} /\ r.load = 0

\* What update() has still to drop and to add leads from t to the state it read.
LeadsThere(p, t) ==
    \A i \in Ids :
        /\ i \in p.add \ p.drop => t[i] = None /\ p.ns[i] # None
        /\ i \in p.drop \ p.add => p.ns[i] = None
        /\ i \in p.drop \cap p.add => p.ns[i] # None
        /\ i \notin p.drop \cup p.add => t[i] = p.ns[i]

\* A gateway without trouble serves its local state, or is on the way.  While
\* the subsystem may still come to it, it holds nothing of an earlier one.
ServesLocal(g) ==
    /\ Fits(gw[g])
    /\ ~gw[g].sub /\ (exists \/ (update[g] # None /\ update[g].addSub)) => Bare(gw[g])
    /\ update[g] = None /\ local[g].sub => gw[g].spdk = local[g].ns
    /\ update[g] # None /\ update[g].sub => LeadsThere(update[g], gw[g].spdk)

ServeInv == \A g \in Gateways : troubles[g] = {} => ServesLocal(g)

NoFaultInv == faults = 0 => \A g \in Gateways : "fault" \notin troubles[g]

\* what update() is to add is in the state it read
PlanInv == \A g \in Gateways : update[g] # None => update[g].add \subseteq Used(update[g].ns)

(***************************************************************************)
(* Tables                                                                  *)
(***************************************************************************)
\* the ID SPDK chooses when it has a choice
LEMMA LeastId ==
    ASSUME NEW S \in SUBSET Ids, S # {}
    PROVE  \E i \in S : \A j \in S : i <= j
<1>1. S \subseteq Nat
    BY IdAssumption
<1>2. PICK i \in S : \A j \in S : <<j, i>> \notin OpToRel(<, Nat)
    BY <1>1, WFMin, NatLessThanWellFounded, Zenon
<1>3. \A j \in S : ~(j < i)
    BY <1>1, <1>2, Zenon DEF OpToRel
<1> QED BY <1>1, <1>3

LEMMA EmptyTableFacts ==
    /\ EmptyTable \in Table
    /\ Used(EmptyTable) = {}
    /\ UuidsOf(EmptyTable) = {}
    /\ Cardinality(Used(EmptyTable)) = 0
    /\ Injective(EmptyTable)
<1>1. Used(EmptyTable) = {}
    BY DEF Used, EmptyTable
<1> QED BY <1>1, FS_EmptySet DEF EmptyTable, Table, UuidsOf, Injective

LEMMA UsedIsFinite ==
    ASSUME NEW t \in Table
    PROVE  IsFiniteSet(Used(t)) /\ Cardinality(Used(t)) \in Nat
<1>1. Used(t) \subseteq Ids
    BY DEF Used
<1> QED BY <1>1, IdAssumption, FS_Subset, FS_CardinalityType

LEMMA SetEntry ==
    ASSUME NEW t \in Table, NEW i \in Ids, NEW u \in Uuids
    PROVE  /\ [t EXCEPT ![i] = u] \in Table
           /\ Used([t EXCEPT ![i] = u]) = Used(t) \cup {i}
           /\ t[i] = None => UuidsOf([t EXCEPT ![i] = u]) = UuidsOf(t) \cup {u}
           /\ Cardinality(Used([t EXCEPT ![i] = u])) <= Cardinality(Used(t)) + 1
           /\ t[i] = None =>
                Cardinality(Used([t EXCEPT ![i] = u])) = Cardinality(Used(t)) + 1
<1> DEFINE s == [t EXCEPT ![i] = u]
<1>1. s \in Table
    BY DEF Table
<1>2. Used(s) = Used(t) \cup {i}
    BY NsNoneAssumption DEF Used, Table
<1>3. t[i] = None => i \notin Used(t) /\ UuidsOf(s) = UuidsOf(t) \cup {u}
    BY NsNoneAssumption DEF Used, UuidsOf, Table
<1>4. IsFiniteSet(Used(t)) /\ Cardinality(Used(t)) \in Nat
    BY UsedIsFinite
<1>5. Cardinality(Used(t) \cup {i}) =
        IF i \in Used(t) THEN Cardinality(Used(t)) ELSE Cardinality(Used(t)) + 1
    BY <1>4, FS_AddElement
<1> HIDE DEF s
<1>6. Cardinality(Used(s)) <= Cardinality(Used(t)) + 1
    BY <1>2, <1>4, <1>5
<1>7. t[i] = None => Cardinality(Used(s)) = Cardinality(Used(t)) + 1
    BY <1>2, <1>3, <1>5
<1>8. /\ s \in Table
      /\ Used(s) = Used(t) \cup {i}
      /\ t[i] = None => UuidsOf(s) = UuidsOf(t) \cup {u}
    BY <1>1, <1>2, <1>3
<1> QED BY <1>6, <1>7, <1>8, Zenon DEF s

LEMMA ClearEntry ==
    ASSUME NEW t \in Table, NEW i \in Ids
    PROVE  /\ [t EXCEPT ![i] = None] \in Table
           /\ Used([t EXCEPT ![i] = None]) = Used(t) \ {i}
           /\ t[i] # None =>
                Cardinality(Used([t EXCEPT ![i] = None])) = Cardinality(Used(t)) - 1
           /\ t[i] # None => Cardinality(Used(t)) >= 1
<1> DEFINE s == [t EXCEPT ![i] = None]
<1>1. s \in Table
    BY DEF Table
<1>2. Used(s) = Used(t) \ {i}
    BY DEF Used, Table
<1>3. IsFiniteSet(Used(t)) /\ Cardinality(Used(t)) \in Nat
    BY UsedIsFinite
<1>4. Cardinality(Used(t) \ {i}) =
        IF i \in Used(t) THEN Cardinality(Used(t)) - 1 ELSE Cardinality(Used(t))
    BY <1>3, FS_RemoveElement
<1>5. IsFiniteSet(Used(s)) /\ Cardinality(Used(s)) \in Nat
    BY <1>1, UsedIsFinite
<1>6. t[i] # None => i \in Used(t)
    BY DEF Used
<1>7. t[i] # None => Cardinality(Used(s)) = Cardinality(Used(t)) - 1
    BY <1>2, <1>4, <1>6
<1>8. t[i] # None => Cardinality(Used(t)) >= 1
    BY <1>3, <1>5, <1>7
<1> QED BY <1>1, <1>2, <1>7, <1>8, Zenon DEF s

(***************************************************************************)
(* What a call makes of a gateway whose counter covers its namespaces      *)
(***************************************************************************)
Covered == {r \in GatewayStates : r.load >= Cardinality(Used(r.spdk))}

LEMMA NewCovered == NewGateway \in Covered /\ [NewGateway EXCEPT !.sub = TRUE] \in Covered
<1>1. /\ NewGateway \in GatewayStates /\ [NewGateway EXCEPT !.sub = TRUE] \in GatewayStates
      /\ NewGateway.spdk = EmptyTable /\ [NewGateway EXCEPT !.sub = TRUE].spdk = EmptyTable
      /\ NewGateway.load = 0 /\ [NewGateway EXCEPT !.sub = TRUE].load = 0
    BY EmptyTableFacts DEF NewGateway, GatewayStates
<1>2. \A r \in GatewayStates : r.spdk = EmptyTable /\ r.load = 0 => r \in Covered
    BY EmptyTableFacts DEF Covered
<1> QED BY <1>1, <1>2

LEMMA ServeCovered ==
    ASSUME NEW r \in Covered, NEW i \in Ids, NEW u \in Uuids
    PROVE  Serve(r, i, u) \in Covered
<1>1. r \in GatewayStates
    BY DEF Covered
<1>2. r.spdk \in Table /\ r.list \in Table /\ r.load \in Nat
    BY <1>1 DEF GatewayStates
<1>3. Serve(r, i, u) \in GatewayStates
  <2>1. [r.spdk EXCEPT ![i] = u] \in Table /\ [r.list EXCEPT ![i] = u] \in Table
      BY <1>2, SetEntry
  <2>2. r.bdevs \cup {u} \in SUBSET Uuids /\ r.load + 1 \in Nat
      BY <1>1 DEF GatewayStates
  <2>3. ASSUME NEW t \in Table, NEW l \in Table, NEW b \in SUBSET Uuids, NEW n \in Nat
        PROVE  [r EXCEPT !.spdk = t, !.list = l, !.bdevs = b, !.load = n] \in GatewayStates
      BY <1>1 DEF GatewayStates
  <2>4. Serve(r, i, u) = [r EXCEPT !.spdk = [r.spdk EXCEPT ![i] = u],
                                   !.list = [r.list EXCEPT ![i] = u],
                                   !.bdevs = r.bdevs \cup {u}, !.load = r.load + 1]
      BY <1>1, Zenon DEF Serve
  <2>5. [r EXCEPT !.spdk = [r.spdk EXCEPT ![i] = u], !.list = [r.list EXCEPT ![i] = u],
                  !.bdevs = r.bdevs \cup {u}, !.load = r.load + 1] \in GatewayStates
      BY <2>1, <2>2, <2>3, Zenon
  <2> QED BY <2>4, <2>5, Zenon
<1>4. Cardinality(Used(r.spdk)) \in Nat
    BY <1>2, UsedIsFinite
<1>5. Serve(r, i, u).load = r.load + 1 /\ Serve(r, i, u).spdk = [r.spdk EXCEPT ![i] = u]
    BY <1>1 DEF Serve, GatewayStates
<1>6. Cardinality(Used([r.spdk EXCEPT ![i] = u])) \in Nat
    BY <1>2, SetEntry, UsedIsFinite
<1> QED BY <1>2, <1>3, <1>4, <1>5, <1>6, SetEntry DEF Covered

LEMMA ForgetCovered ==
    ASSUME NEW r \in Covered, NEW id \in Ids \cup {0}
    PROVE  ForgetList(r, id) \in Covered
<1>1. r \in GatewayStates /\ r.list \in Table
    BY DEF Covered, GatewayStates
<1>2. (IF id = 0 THEN EmptyTable ELSE [r.list EXCEPT ![id] = None]) \in Table
    BY <1>1, EmptyTableFacts, ClearEntry
<1> QED BY <1>1, <1>2 DEF ForgetList, Covered, GatewayStates

LEMMA DropCovered ==
    ASSUME NEW r \in Covered, NEW u
    PROVE  DropBdev(r, u) \in Covered
<1> DEFINE t == [i \in Ids |-> IF r.spdk[i] = u THEN None ELSE r.spdk[i]]
<1>1. r \in GatewayStates /\ r.spdk \in Table /\ r.load \in Nat
    BY DEF Covered, GatewayStates
<1>2. t \in Table
    BY <1>1 DEF Table
<1>3. Used(t) \subseteq Used(r.spdk)
    BY DEF Used
<1>4. /\ Cardinality(Used(t)) <= Cardinality(Used(r.spdk))
      /\ Cardinality(Used(t)) \in Nat /\ Cardinality(Used(r.spdk)) \in Nat
    BY <1>1, <1>2, <1>3, UsedIsFinite, FS_Subset
<1>5. DropBdev(r, u) = [r EXCEPT !.bdevs = r.bdevs \ {u}, !.spdk = t]
    BY <1>1 DEF DropBdev
<1>6. DropBdev(r, u) \in GatewayStates
    BY <1>1, <1>2, <1>5 DEF GatewayStates
<1>7. DropBdev(r, u).load = r.load /\ DropBdev(r, u).spdk = t
    BY <1>1, <1>5 DEF GatewayStates
<1> QED BY <1>1, <1>4, <1>6, <1>7 DEF Covered

LEMMA TakeAwayCovered ==
    ASSUME NEW r \in Covered, NEW i \in Ids, r.spdk[i] # None
    PROVE  TakeAway(r, i) \in Covered
<1>1. r \in GatewayStates /\ r.spdk \in Table /\ r.load \in Nat
    BY DEF Covered, GatewayStates
<1>2. /\ Cardinality(Used(r.spdk)) \in Nat /\ Cardinality(Used(r.spdk)) >= 1
      /\ [r.spdk EXCEPT ![i] = None] \in Table
      /\ Cardinality(Used([r.spdk EXCEPT ![i] = None])) = Cardinality(Used(r.spdk)) - 1
    BY <1>1, UsedIsFinite, ClearEntry
<1>3. r.load >= Cardinality(Used(r.spdk))
    BY DEF Covered
<1>4. TakeAway(r, i) \in GatewayStates
  <2>1. r.load - 1 \in Nat
      BY <1>1, <1>2, <1>3
  <2> QED BY <1>1, <1>2, <2>1 DEF GatewayStates, TakeAway
<1>5. TakeAway(r, i).load = r.load - 1 /\ TakeAway(r, i).spdk = [r.spdk EXCEPT ![i] = None]
    BY <1>1 DEF TakeAway, GatewayStates
<1> QED BY <1>1, <1>2, <1>3, <1>4, <1>5 DEF Covered

LEMMA RemovedCovered ==
    ASSUME NEW r \in Covered, NEW i \in Ids, r.spdk[i] # None, NEW u
    PROVE  Removed(r, i, u) \in Covered
<1>1. TakeAway(r, i) \in Covered
    BY TakeAwayCovered
<1>2. [TakeAway(r, i) EXCEPT !.list[i] = None] \in Covered
  <2>1. TakeAway(r, i) \in GatewayStates /\ TakeAway(r, i).list \in Table
      BY <1>1 DEF Covered, GatewayStates
  <2>2. [TakeAway(r, i).list EXCEPT ![i] = None] \in Table
      BY <2>1, ClearEntry
  <2> QED BY <1>1, <2>1, <2>2 DEF Covered, GatewayStates
<1> QED BY <1>2, DropCovered DEF Removed

LEMMA AfterRemoveErrCovered ==
    ASSUME NEW r \in Covered, NEW i \in Ids
    PROVE  AfterRemoveErr(r, i) \in Covered
BY TakeAwayCovered DEF AfterRemoveErr

LEMMA WithoutCovered ==
    ASSUME NEW r \in Covered
    PROVE  WithoutSubsystem(r) \in Covered
<1>1. r \in GatewayStates /\ r.load \in Nat
    BY DEF Covered, GatewayStates
<1>2. WithoutSubsystem(r) \in GatewayStates
    BY <1>1, EmptyTableFacts DEF WithoutSubsystem, GatewayStates
<1>3. WithoutSubsystem(r).spdk = EmptyTable /\ WithoutSubsystem(r).load = r.load
    BY <1>1 DEF WithoutSubsystem, GatewayStates
<1> QED BY <1>1, <1>2, <1>3, EmptyTableFacts DEF Covered

(***************************************************************************)
(* Types, and the counters that cover what is served                       *)
(***************************************************************************)
\* NsTypeOK with LoadCoversServed in it
TypeInv == NsTypeOK /\ gw \in [Gateways -> Covered] /\ PlanInv

LEMMA TypeInvMeans == TypeInv <=> NsTypeOK /\ LoadCoversServed /\ PlanInv
BY DEF TypeInv, NsTypeOK, LoadCoversServed, Covered

LEMMA InitType == NsInit => TypeInv
<1> SUFFICES ASSUME NsInit PROVE TypeInv
    OBVIOUS
<1>1. /\ local \in [Gateways -> LocalStates]
      /\ gw \in [Gateways -> Covered] /\ gw \in [Gateways -> GatewayStates]
    BY EmptyTableFacts, NewCovered DEF NsInit, LocalStates, FirstVersion, Covered
<1> QED BY <1>1, EmptyTableFacts DEF NsInit, TypeInv, NsTypeOK, FirstVersion, PlanInv

LEMMA AnswerType ==
    ASSUME NsTypeOK, NEW c \in Clients, req[c] # None, Answer(c)
    PROVE  req' \in [Clients -> Requests \cup {None}]
<1> DEFINE next == Request("delsub", req[c].gw, 0, None, req[c].force, req[c].todo \ {req[c].id})
           answered == IF req[c].op = "delsub" /\ req[c].todo # {} THEN next ELSE None
<1>1. req[c] \in Requests
    BY DEF NsTypeOK
<1>2. next \in Requests
    BY <1>1 DEF Request, Requests
<1>3. req' = [req EXCEPT ![c] = answered]
    BY DEF Answer
<1>4. answered \in Requests \cup {None}
    BY <1>2
<1> HIDE DEF answered
<1> QED BY <1>3, <1>4 DEF NsTypeOK

LEMMA WaitType ==
    ASSUME NsTypeOK, NEW c \in Clients, req[c] # None,
           NEW id \in Ids \cup {0}, NEW u \in Uuids \cup {None}, Wait(c, id, u),
           req[c].op = "add" => u \in Uuids,
           req[c].op = "delete" \/ (req[c].op = "delsub" /\ req[c].todo # {}) => id \in Ids
    PROVE  req' \in [Clients -> Requests \cup {None}]
<1>1. req[c] \in Requests
    BY DEF NsTypeOK
<1>2. [req[c] EXCEPT !.id = id, !.uuid = u, !.waiting = TRUE] \in Requests
    BY <1>1 DEF Requests
<1>3. req' = [req EXCEPT ![c] = [req[c] EXCEPT !.id = id, !.uuid = u, !.waiting = TRUE]]
    BY DEF Wait, NsTypeOK
<1> QED BY <1>2, <1>3 DEF NsTypeOK

LEMMA WriteType ==
    ASSUME NsTypeOK, NEW g \in Gateways, NEW sub \in BOOLEAN, NEW ns \in Table, Write(g, sub, ns)
    PROVE  /\ exists' \in BOOLEAN /\ omap' \in Table /\ version' \in Nat
           /\ local' \in [Gateways -> LocalStates]
<1>1. [ver |-> version + 1, sub |-> sub, ns |-> ns] \in LocalStates
    BY DEF NsTypeOK, LocalStates
<1> QED BY <1>1 DEF NsTypeOK, Write

LEMMA FaultType ==
    ASSUME NsTypeOK, NEW c \in Clients, req[c] # None, Fault(c) \/ NoFault(c)
    PROVE  faults' \in Nat /\ troubles' \in [Gateways -> SUBSET {"stale", "hidden", "fault"}]
<1>1. req[c].gw \in Gateways
    BY DEF NsTypeOK, Requests
<1>2. faults' \in Nat
    BY DEF Fault, NoFault, NsTypeOK
<1> QED BY <1>1, <1>2 DEF Fault, NoFault, Trouble, NsTypeOK

\* what an update sets out to do
Gone(g) == Used(local[g].ns) \ Used(omap)
New(g) == Used(omap) \ Used(local[g].ns)
Changed(g) == {i \in Used(local[g].ns) \cap Used(omap) : local[g].ns[i] # omap[i]}

LEMMA StartPlan ==
    ASSUME NsTypeOK, NEW g \in Gateways, StartUpdate(g)
    PROVE  \E plan \in Updates :
              /\ update' = [update EXCEPT ![g] = plan] /\ update'[g] = plan
              /\ plan.add \subseteq Used(plan.ns)
              /\ plan.ver = version /\ plan.sub = exists /\ plan.ns = omap
              /\ plan.dropSub = (local[g].sub /\ ~exists)
              /\ plan.addSub = (~local[g].sub /\ exists)
              /\ plan.drop = Grouped(Gone(g), Changed(g))
              /\ plan.add = Grouped(New(g), Changed(g))
<1> DEFINE plan == [ver |-> version, sub |-> exists, ns |-> omap,
                    dropSub |-> local[g].sub /\ ~exists, addSub |-> ~local[g].sub /\ exists,
                    drop |-> Grouped(Gone(g), Changed(g)), add |-> Grouped(New(g), Changed(g))]
<1>1. Gone(g) \in SUBSET Ids /\ New(g) \in SUBSET Ids /\ Changed(g) \in SUBSET Ids
    BY DEF Used, Gone, New, Changed
<1>2. Grouped(Gone(g), Changed(g)) \in SUBSET Ids /\ Grouped(New(g), Changed(g)) \in SUBSET Ids
    BY <1>1 DEF Grouped
<1>3. plan \in Updates
    BY <1>2 DEF Updates, NsTypeOK, LocalStates
<1>4. update' = [update EXCEPT ![g] = plan]
    BY Zenon DEF StartUpdate, Gone, New, Changed
<1>5. plan.add \subseteq Used(plan.ns)
    BY DEF Grouped, New, Changed
<1>6. update'[g] = plan
    BY <1>4 DEF NsTypeOK
<1> QED BY <1>3, <1>4, <1>5, <1>6

LEMMA UpdateStepType ==
    ASSUME TypeInv, NEW g \in Gateways, UpdateStep(g)
    PROVE  TypeInv'
<1> USE DEF TypeInv
<1>0. /\ local[g] \in LocalStates /\ local[g].ns \in Table
      /\ update[g] # None => update[g] \in Updates /\ update[g].ns \in Table
      /\ gw[g] \in Covered /\ gw[g] \in GatewayStates
      /\ gw[g].list \in Table
    BY DEF NsTypeOK, LocalStates, Updates, GatewayStates
<1>a. ASSUME NEW r \in Covered, gw' = [gw EXCEPT ![g] = r]
      PROVE  gw' \in [Gateways -> Covered] /\ gw' \in [Gateways -> GatewayStates]
    BY <1>a DEF Covered, NsTypeOK
<1>b. ASSUME NEW p \in Updates \cup {None}, update' = [update EXCEPT ![g] = p]
      PROVE  update' \in [Gateways -> Updates \cup {None}]
    BY <1>b DEF NsTypeOK
<1>1. CASE StartUpdate(g)
  <2>1. PICK plan \in Updates :
            update' = [update EXCEPT ![g] = plan] /\ plan.add \subseteq Used(plan.ns)
      BY <1>1, StartPlan
  <2>2. PlanInv'
      BY <2>1 DEF PlanInv, NsTypeOK
  <2>3. update' \in [Gateways -> Updates \cup {None}]
      BY <2>1, <1>b
  <2>4. troubles' \in [Gateways -> SUBSET {"stale", "hidden", "fault"}]
      BY <1>1 DEF StartUpdate, NsTypeOK
  <2> QED BY <1>1, <2>2, <2>3, <2>4 DEF StartUpdate, NsTypeOK, omapVars, budgetVars
<1>2. CASE UpdateDelete(g)
  <2>1. update[g] # None /\ update[g] \in Updates
      BY <1>2, <1>0 DEF UpdateDelete
  <2>2. PICK i \in update[g].drop :
          /\ update' = [update EXCEPT ![g].drop = @ \ {i}]
          /\ gw' = [gw EXCEPT ![g] =
                IF ~gw[g].sub \/ gw[g].list[i] = None THEN gw[g]
                ELSE IF RemoveErrs(gw[g], i) THEN AfterRemoveErr(gw[g], i)
                ELSE Removed(gw[g], i, gw[g].list[i])]
      BY <1>2 DEF UpdateDelete
  <2>3. i \in Ids
      BY <2>1 DEF Updates
  <2>4. [update[g] EXCEPT !.drop = @ \ {i}] \in Updates
      BY <2>1 DEF Updates
  <2>5. update' \in [Gateways -> Updates \cup {None}]
      BY <2>2, <2>4, <1>b DEF NsTypeOK
  <2>6. (IF ~gw[g].sub \/ gw[g].list[i] = None THEN gw[g]
         ELSE IF RemoveErrs(gw[g], i) THEN AfterRemoveErr(gw[g], i)
         ELSE Removed(gw[g], i, gw[g].list[i])) \in Covered
      BY <1>0, <2>3, AfterRemoveErrCovered, RemovedCovered DEF RemoveErrs
  <2>7. gw' \in [Gateways -> Covered] /\ gw' \in [Gateways -> GatewayStates]
      BY <2>2, <2>6, <1>a
  <2>8. PlanInv'
      BY <2>2, <2>1 DEF PlanInv, NsTypeOK, Updates
  <2> QED BY <1>2, <2>5, <2>7, <2>8 DEF UpdateDelete, NsTypeOK, omapVars, budgetVars
<1>3. CASE UpdateDropSubsystem(g)
  <2>1. [update[g] EXCEPT !.dropSub = FALSE] \in Updates
      BY <1>3, <1>0 DEF UpdateDropSubsystem, Updates
  <2>2. update' = [update EXCEPT ![g] = [update[g] EXCEPT !.dropSub = FALSE]]
      BY <1>3 DEF UpdateDropSubsystem, NsTypeOK
  <2>3. gw' \in [Gateways -> Covered] /\ gw' \in [Gateways -> GatewayStates]
      BY <1>3, <1>0, <1>a, WithoutCovered DEF UpdateDropSubsystem
  <2>4. update' \in [Gateways -> Updates \cup {None}]
      BY <2>1, <2>2, <1>b
  <2>5. PlanInv'
      BY <2>2, <1>3, <1>0 DEF PlanInv, NsTypeOK, Updates, UpdateDropSubsystem
  <2> QED BY <1>3, <2>3, <2>4, <2>5 DEF UpdateDropSubsystem, NsTypeOK, omapVars, budgetVars
<1>4. CASE UpdateAddSubsystem(g)
  <2>1. [update[g] EXCEPT !.addSub = FALSE] \in Updates
      BY <1>4, <1>0 DEF UpdateAddSubsystem, Updates
  <2>2. update' = [update EXCEPT ![g] = [update[g] EXCEPT !.addSub = FALSE]]
      BY <1>4 DEF UpdateAddSubsystem, NsTypeOK
  <2>3. [gw[g] EXCEPT !.sub = TRUE] \in Covered
      BY <1>0 DEF Covered, GatewayStates
  <2>4. gw' = [gw EXCEPT ![g] = [gw[g] EXCEPT !.sub = TRUE]]
      BY <1>4 DEF UpdateAddSubsystem, NsTypeOK
  <2>5. gw' \in [Gateways -> Covered] /\ gw' \in [Gateways -> GatewayStates]
      BY <2>3, <2>4, <1>a
  <2>6. update' \in [Gateways -> Updates \cup {None}]
      BY <2>1, <2>2, <1>b
  <2>7. PlanInv'
      BY <2>2, <1>4, <1>0 DEF PlanInv, NsTypeOK, Updates, UpdateAddSubsystem
  <2> QED BY <1>4, <2>5, <2>6, <2>7 DEF UpdateAddSubsystem, NsTypeOK, omapVars, budgetVars
<1>5. CASE UpdateAdd(g)
  <2>1. update[g] # None /\ update[g] \in Updates
      BY <1>5, <1>0 DEF UpdateAdd
  <2>2. PICK i \in update[g].add :
          /\ update' = [update EXCEPT ![g].add = @ \ {i}]
          /\ gw' = [gw EXCEPT ![g] =
                IF AddRefused(gw[g], update[g].ns[i]) THEN gw[g]
                ELSE IF SpdkRefuses(gw[g], i) THEN ForgetList(gw[g], i)
                ELSE Serve(gw[g], i, update[g].ns[i])]
      BY <1>5 DEF UpdateAdd
  <2>3. i \in Ids /\ update[g].ns[i] \in Uuids
      BY <2>1, <1>0 DEF Updates, PlanInv, Used, Table
  <2>4. [update[g] EXCEPT !.add = @ \ {i}] \in Updates
      BY <2>1 DEF Updates
  <2>5. update' \in [Gateways -> Updates \cup {None}]
      BY <2>2, <2>4, <1>b DEF NsTypeOK
  <2>6. (IF AddRefused(gw[g], update[g].ns[i]) THEN gw[g]
         ELSE IF SpdkRefuses(gw[g], i) THEN ForgetList(gw[g], i)
         ELSE Serve(gw[g], i, update[g].ns[i])) \in Covered
      BY <1>0, <2>3, ServeCovered, ForgetCovered
  <2>7. gw' \in [Gateways -> Covered] /\ gw' \in [Gateways -> GatewayStates]
      BY <2>2, <2>6, <1>a
  <2>8. PlanInv'
      BY <2>2, <2>1 DEF PlanInv, NsTypeOK, Updates
  <2> QED BY <1>5, <2>5, <2>7, <2>8 DEF UpdateAdd, NsTypeOK, omapVars, budgetVars
<1>6. CASE UpdateEnd(g)
  <2>1. [ver |-> update[g].ver, sub |-> update[g].sub, ns |-> update[g].ns] \in LocalStates
      BY <1>6, <1>0 DEF UpdateEnd, Updates, LocalStates
  <2>2. local' \in [Gateways -> LocalStates]
      BY <1>6, <2>1 DEF UpdateEnd, NsTypeOK
  <2>3. update' \in [Gateways -> Updates \cup {None}]
      BY <1>6, <1>b DEF UpdateEnd
  <2>4. PlanInv'
      BY <1>6 DEF UpdateEnd, PlanInv, NsTypeOK
  <2> QED BY <1>6, <2>2, <2>3, <2>4 DEF UpdateEnd, NsTypeOK, omapVars, budgetVars
<1> QED BY <1>1, <1>2, <1>3, <1>4, <1>5, <1>6 DEF UpdateStep

LEMMA RequestStepType ==
    ASSUME TypeInv, NEW c \in Clients, Ask(c) \/ Check(c) \/ Retry(c)
    PROVE  TypeInv'
<1> USE DEF TypeInv
<1>0. ASSUME req' \in [Clients -> Requests \cup {None}], requests' \in Nat,
             UNCHANGED <<omapVars, local, gw, update, faults, crashes, troubles>>
      PROVE  TypeInv'
    BY <1>0 DEF NsTypeOK, PlanInv, omapVars
<1>1. CASE Ask(c)
  <2>1. PICK q \in Requests : req' = [req EXCEPT ![c] = q]
    <3>1. PICK g \in Gateways :
            \/ \E i \in Ids \cup {0}, u \in Uuids :
                  req' = [req EXCEPT ![c] = Request("add", g, i, u, FALSE, {})]
            \/ \E i \in Ids : req' = [req EXCEPT ![c] = Request("delete", g, i, None, FALSE, {})]
            \/ \E force \in BOOLEAN :
                  req' = [req EXCEPT ![c] = Request("delsub", g, 0, None, force, Used(local[g].ns))]
        BY <1>1 DEF Ask
    <3>2. Used(local[g].ns) \in SUBSET Ids
        BY DEF Used
    <3>3. ASSUME NEW op \in {"add", "delete", "delsub"}, NEW i \in Ids \cup {0},
                 NEW u \in Uuids \cup {None}, NEW force \in BOOLEAN, NEW todo \in SUBSET Ids,
                 op = "add" => u \in Uuids, op = "delete" => i \in Ids
          PROVE  Request(op, g, i, u, force, todo) \in Requests
      <4> DEFINE q == Request(op, g, i, u, force, todo)
      <4>1. q.op = op /\ q.uuid = u /\ q.id = i /\ q.waiting = FALSE
          BY DEF Request
      <4>2. q \in [op : {"add", "delete", "delsub"}, gw : Gateways, id : Ids \cup {0},
                   uuid : Uuids \cup {None}, force : BOOLEAN, todo : SUBSET Ids, waiting : BOOLEAN]
          BY DEF Request
      <4> HIDE DEF q
      <4>3. q \in Requests
          BY <3>3, <4>1, <4>2 DEF Requests
      <4> QED BY <4>3 DEF q
    <3> QED BY <3>1, <3>2, <3>3
  <2>2. req' \in [Clients -> Requests \cup {None}]
      BY SMTT(30), <2>1 DEF NsTypeOK
  <2> QED BY <1>1, <2>2, <1>0 DEF Ask, NsTypeOK
<1>2. CASE Check(c)
  <2>1. req[c] # None /\ req[c] \in Requests
      BY <1>2 DEF Check, NsTypeOK
  <2>2. /\ req[c].uuid \in Uuids \cup {None} /\ req[c].id \in Ids \cup {0}
        /\ req[c].todo \in SUBSET Ids
        /\ gw[req[c].gw].list \in Table
      BY <2>1 DEF Requests, NsTypeOK, GatewayStates
  <2>3. ASSUME NEW i \in req[c].todo, req' = [req EXCEPT ![c].todo = req[c].todo \ {i}]
        PROVE  req' \in [Clients -> Requests \cup {None}]
    <3>1. [req[c] EXCEPT !.todo = req[c].todo \ {i}] \in Requests
        BY <2>1 DEF Requests
    <3> QED BY <2>3, <3>1 DEF NsTypeOK
  <2>4. \A i \in Ids : gw[req[c].gw].list[i] \in Uuids \cup {None}
      BY SMTT(30), <2>2 DEF Table
  <2>5. req' \in [Clients -> Requests \cup {None}]
    <3> DEFINE r == gw[req[c].gw]
               found(i) == r.sub /\ r.list[i] # None
    <3>1. CASE /\ req[c].op = "add"
               /\ Answer(c) \/ Wait(c, req[c].id, req[c].uuid)
        BY <2>1, <2>2, <3>1, AnswerType, WaitType DEF Requests
    <3>2. CASE /\ req[c].op = "delete"
               /\ Answer(c) \/ (found(req[c].id) /\ Wait(c, req[c].id, r.list[req[c].id]))
      <4>1. req[c].id \in Ids
          BY <2>1, <3>2 DEF Requests
      <4>2. r.list[req[c].id] \in Uuids \cup {None}
          BY <2>4, <4>1
      <4> QED BY <4>2, <2>1, <2>2, <3>2, <4>1, AnswerType, WaitType
    <3>3. CASE /\ req[c].op = "delsub"
               /\ \E i \in req[c].todo : Wait(c, i, r.list[i])
        BY <2>1, <2>2, <2>4, <3>3, WaitType
    <3>4. CASE \E i \in req[c].todo : req' = [req EXCEPT ![c].todo = req[c].todo \ {i}]
        BY <2>3, <3>4
    <3>5. CASE req[c].op = "delsub" /\ req[c].todo = {} /\ Wait(c, 0, None)
        BY <2>1, <3>5, WaitType
    <3> QED BY <1>2, <3>1, <3>2, <3>3, <3>4, <3>5 DEF Check
  <2> QED BY SMTT(30), <1>2, <2>5, <1>0 DEF Check, NsTypeOK, budgetVars
<1>3. CASE Retry(c)
  <2>1. [req[c] EXCEPT !.waiting = FALSE] \in Requests
    <3>1. req[c] # None /\ req[c] \in Requests
        BY <1>3 DEF Retry, NsTypeOK
    <3> QED BY <3>1 DEF Requests
  <2>2. req' \in [Clients -> Requests \cup {None}]
      BY <1>3, <2>1 DEF Retry, NsTypeOK
  <2> QED BY <1>3, <2>2, <1>0 DEF Retry, NsTypeOK, budgetVars
<1> QED BY <1>1, <1>2, <1>3

LEMMA LockedStepType ==
    ASSUME TypeInv, NEW c \in Clients,
           AddNamespace(c) \/ DeleteNamespace(c) \/ DeleteSubsystem(c)
    PROVE  TypeInv'
<1> DEFINE g == req[c].gw
           q == req[c]
           r == gw[g]
<1> USE DEF TypeInv
<1>0. /\ req[c] # None
      /\ q \in Requests /\ g \in Gateways /\ q.id \in Ids \cup {0} /\ q.uuid \in Uuids \cup {None}
      /\ r \in Covered
    BY DEF AddNamespace, DeleteNamespace, DeleteSubsystem, Locked, NsTypeOK, Requests
<1>1. ASSUME NEW s \in Covered, gw' = [gw EXCEPT ![g] = s] \/ UNCHANGED gw
      PROVE  gw' \in [Gateways -> Covered] /\ gw' \in [Gateways -> GatewayStates]
    BY <1>1, <1>0 DEF Covered, NsTypeOK
<1>2. ASSUME gw' \in [Gateways -> Covered], gw' \in [Gateways -> GatewayStates],
             \/ UNCHANGED <<omapVars, local>>
             \/ \E sub \in BOOLEAN, ns \in Table : Write(g, sub, ns),
             Fault(c) \/ NoFault(c), Answer(c), UNCHANGED <<update, requests, crashes>>
      PROVE  TypeInv'
  <2>1. /\ exists' \in BOOLEAN /\ omap' \in Table /\ version' \in Nat
        /\ local' \in [Gateways -> LocalStates]
    <3>1. CASE UNCHANGED <<omapVars, local>>
        BY <3>1 DEF NsTypeOK, omapVars
    <3>2. CASE \E sub \in BOOLEAN, ns \in Table : Write(g, sub, ns)
        BY <3>2, <1>0, WriteType
    <3> QED BY <1>2, <3>1, <3>2
  <2>2. req' \in [Clients -> Requests \cup {None}]
      BY <1>0, <1>2, AnswerType
  <2>3. faults' \in Nat /\ troubles' \in [Gateways -> SUBSET {"stale", "hidden", "fault"}]
      BY <1>0, <1>2, FaultType
  <2> QED BY <1>2, <2>1, <2>2, <2>3 DEF NsTypeOK, PlanInv
<1>3. CASE AddNamespace(c)
  <2>1. q.uuid \in Uuids
      BY <1>0, <1>3 DEF AddNamespace, Requests
  <2>2. \A i \in IdsFor(r, q.id) : i \in Ids
      BY DEF IdsFor, FreeIds
  <2>3. \A i \in Ids : Serve(r, i, q.uuid) \in Covered /\ DropBdev(Serve(r, i, q.uuid), q.uuid) \in Covered
      BY <1>0, <2>1, ServeCovered, DropCovered
  <2>4. ForgetList(r, q.id) \in Covered
      BY <1>0, ForgetCovered
  <2>5. gw' \in [Gateways -> Covered] /\ gw' \in [Gateways -> GatewayStates]
      BY <1>3, <1>1, <1>0, <2>2, <2>3, <2>4 DEF AddNamespace
  <2>6. \/ UNCHANGED <<omapVars, local>>
        \/ \E sub \in BOOLEAN, ns \in Table : Write(g, sub, ns)
    <3>1. \A i \in Ids : [omap EXCEPT ![i] = q.uuid] \in Table
        BY <2>1, SetEntry DEF NsTypeOK
    <3>2. exists \in BOOLEAN
        BY DEF NsTypeOK
    <3> QED BY <1>3, <2>2, <3>1, <3>2 DEF AddNamespace
  <2>7. Fault(c) \/ NoFault(c)
      BY <1>3 DEF AddNamespace
  <2> QED BY <1>3, <2>5, <2>6, <2>7, <1>2 DEF AddNamespace
<1>4. CASE DeleteNamespace(c)
  <2>1. q.id \in Ids
      BY <1>4, <1>0 DEF DeleteNamespace, Locked, Deleting, Requests
  <2>2. AfterRemoveErr(r, q.id) \in Covered
      BY <1>0, <2>1, AfterRemoveErrCovered
  <2>3. ~RemoveErrs(r, q.id) => Removed(r, q.id, q.uuid) \in Covered
      BY <1>0, <2>1, RemovedCovered DEF RemoveErrs
  <2>4. gw' \in [Gateways -> Covered] /\ gw' \in [Gateways -> GatewayStates]
      BY <1>4, <1>1, <2>2, <2>3 DEF DeleteNamespace
  <2>5. \/ UNCHANGED <<omapVars, local>>
        \/ \E sub \in BOOLEAN, ns \in Table : Write(g, sub, ns)
    <3>1. [omap EXCEPT ![q.id] = None] \in Table /\ exists \in BOOLEAN
        BY <2>1, ClearEntry DEF NsTypeOK
    <3> QED BY <1>4, <3>1 DEF DeleteNamespace
  <2>6. Fault(c) \/ NoFault(c)
      BY <1>4 DEF DeleteNamespace
  <2> QED BY <1>4, <2>4, <2>5, <2>6, <1>2 DEF DeleteNamespace
<1>5. CASE DeleteSubsystem(c)
  <2>1. WithoutSubsystem(r) \in Covered
      BY <1>0, WithoutCovered
  <2>2. gw' \in [Gateways -> Covered] /\ gw' \in [Gateways -> GatewayStates]
      BY <1>5, <2>1, <1>1 DEF DeleteSubsystem
  <2>3. \E sub \in BOOLEAN, ns \in Table : Write(g, sub, ns)
      BY <1>5, EmptyTableFacts DEF DeleteSubsystem
  <2> QED BY <1>5, <2>2, <2>3, <1>2 DEF DeleteSubsystem
<1> QED BY <1>3, <1>4, <1>5

LEMMA CrashType ==
    ASSUME TypeInv, NEW g \in Gateways, Crash(g)
    PROVE  TypeInv'
<1> USE DEF TypeInv
<1>1. [ver |-> NewVersion, sub |-> FALSE, ns |-> EmptyTable] \in LocalStates
    BY EmptyTableFacts DEF LocalStates, NewVersion
<1>2. local' \in [Gateways -> LocalStates]
    BY <1>1 DEF Crash, NsTypeOK
<1>3. gw' \in [Gateways -> Covered] /\ gw' \in [Gateways -> GatewayStates]
    BY NewCovered DEF Crash, NsTypeOK, Covered
<1>4. req' \in [Clients -> Requests \cup {None}]
    BY DEF Crash, NsTypeOK
<1>5. PlanInv'
    BY DEF Crash, PlanInv, NsTypeOK
<1> QED BY <1>2, <1>3, <1>4, <1>5 DEF Crash, NsTypeOK, omapVars

LEMMA TypeStep == TypeInv /\ [NsNext]_nsVars => TypeInv'
<1> SUFFICES ASSUME TypeInv, [NsNext]_nsVars PROVE TypeInv'
    OBVIOUS
<1>1. ASSUME NEW c \in Clients,
             Ask(c) \/ Check(c) \/ Retry(c)
      PROVE  TypeInv'
    BY <1>1, RequestStepType
<1>2. ASSUME NEW c \in Clients,
             AddNamespace(c) \/ DeleteNamespace(c) \/ DeleteSubsystem(c)
      PROVE  TypeInv'
    BY <1>2, LockedStepType
<1>3. ASSUME NEW g \in Gateways, UpdateStep(g) \/ Crash(g)
      PROVE  TypeInv'
    BY <1>3, UpdateStepType, CrashType
<1>4. CASE UNCHANGED nsVars
    BY <1>4 DEF nsVars, omapVars, budgetVars, TypeInv, NsTypeOK, PlanInv
<1> QED BY <1>1, <1>2, <1>3, <1>4 DEF NsNext

\* The load counters are natural numbers and every table keeps its shape, for
\* any number of gateways, clients and failures.
THEOREM NsTypeCorrect == NsSpec => []NsTypeOK
<1>1. TypeInv => NsTypeOK
    BY DEF TypeInv
<1> QED BY <1>1, InitType, TypeStep, PTL DEF NsSpec

\* The load counters never fall below what SPDK serves (create_namespace,
\* remove_namespace): rebalancing does not take a group for emptier than it is.
THEOREM LoadStaysCovered == NsSpec => []LoadCoversServed
<1>1. TypeInv => LoadCoversServed
    BY TypeInvMeans
<1> QED BY <1>1, InitType, TypeStep, PTL DEF NsSpec

(***************************************************************************)
(* Versions                                                                *)
(***************************************************************************)
\* the part of the invariant that is about versions
OrderInv == VersionInv /\ Injective(omap)

LEMMA InitOrder == NsInit => OrderInv
<1> SUFFICES ASSUME NsInit PROVE OrderInv
    OBVIOUS
<1>1. \A g \in Gateways : /\ local[g].ver = FirstVersion /\ local[g].sub /\ local[g].ns = EmptyTable
                          /\ update[g] = None
    BY DEF NsInit
<1>2. Injective(omap) /\ version = FirstVersion /\ exists = TRUE /\ omap = EmptyTable
    BY EmptyTableFacts DEF NsInit
<1>3. version >= FirstVersion /\ FirstVersion <= version
    BY <1>2 DEF FirstVersion
<1> QED BY <1>1, <1>2, <1>3 DEF OrderInv, VersionInv

\* A gateway that is not behind has the OMAP in its local state, and no update.
LEMMA CurrentMeans ==
    ASSUME TypeInv, OrderInv, NEW g \in Gateways, ~Behind(g)
    PROVE  /\ local[g].ver = version /\ local[g].sub = exists /\ local[g].ns = omap
           /\ update[g] = None
<1>1. version \in Nat /\ local[g].ver \in Nat
    BY DEF TypeInv, NsTypeOK, LocalStates
<1>2. local[g].ver = version
    BY <1>1 DEF OrderInv, VersionInv, Behind
<1>3. update[g] # None => update[g].ver \in Nat
    BY DEF TypeInv, NsTypeOK, Updates
<1> QED BY <1>1, <1>2, <1>3 DEF OrderInv, VersionInv

\* what a write keeps of the versions
LEMMA WriteOrder ==
    ASSUME TypeInv, OrderInv, NEW g \in Gateways, ~Behind(g),
           NEW sub \in BOOLEAN, NEW ns \in Table, Injective(ns),
           sub => exists,
           Write(g, sub, ns), UNCHANGED update
    PROVE  OrderInv'
<1>0. /\ version \in Nat /\ version' = version + 1 /\ exists' = sub /\ omap' = ns
      /\ local' = [local EXCEPT ![g] = [ver |-> version + 1, sub |-> sub, ns |-> ns]]
      /\ local \in [Gateways -> LocalStates]
    BY DEF TypeInv, NsTypeOK, Write
<1>1. update[g] = None
    BY CurrentMeans
<1>2. ASSUME NEW h \in Gateways
      PROVE  /\ local'[h].ver <= version'
             /\ local'[h].ver = version' => local'[h].sub = exists' /\ local'[h].ns = omap'
             /\ exists' => local'[h].sub \/ local'[h].ns = EmptyTable
  <2>1. CASE h = g
      BY <1>0, <2>1
  <2>2. CASE h # g
    <3>1. local'[h] = local[h] /\ local[h].ver \in Nat
        BY <1>0, <2>2 DEF LocalStates
    <3> QED BY <1>0, <3>1 DEF OrderInv, VersionInv
  <2> QED BY <2>1, <2>2
<1>3. ASSUME NEW h \in Gateways, update'[h] # None
      PROVE  /\ local'[h].ver < update'[h].ver /\ update'[h].ver <= version'
             /\ update'[h].ver = version' => update'[h].sub = exists' /\ update'[h].ns = omap'
             /\ exists' => update'[h].sub
             /\ Injective(update'[h].ns)
             /\ update'[h].dropSub => ~update'[h].sub
             /\ update'[h].addSub => update'[h].sub
  <2>1. h # g /\ update'[h] = update[h] /\ local'[h] = local[h]
      BY <1>0, <1>1, <1>3
  <2>2. update[h].ver \in Nat
      BY <1>3, <2>1 DEF TypeInv, NsTypeOK, Updates
  <2> QED BY <1>0, <1>3, <2>1, <2>2 DEF OrderInv, VersionInv
<1>4. version' >= FirstVersion
    BY <1>0 DEF OrderInv, VersionInv, FirstVersion
<1>5. Injective(omap)'
    BY <1>0 DEF Injective
<1> QED BY <1>2, <1>3, <1>4, <1>5 DEF OrderInv, VersionInv, Injective

LEMMA InjectiveSet ==
    ASSUME NEW t \in Table, Injective(t), NEW i \in Ids, NEW u \in Uuids, u \notin UuidsOf(t)
    PROVE  Injective([t EXCEPT ![i] = u])
BY NsNoneAssumption DEF Injective, Table, UuidsOf, Used

LEMMA InjectiveClear ==
    ASSUME NEW t \in Table, Injective(t), NEW i \in Ids
    PROVE  Injective([t EXCEPT ![i] = None])
BY DEF Injective, Table

LEMMA LockedStepOrder ==
    ASSUME TypeInv, OrderInv, NEW c \in Clients,
           AddNamespace(c) \/ DeleteNamespace(c) \/ DeleteSubsystem(c)
    PROVE  OrderInv'
<1> DEFINE g == req[c].gw
<1>0. /\ req[c] # None /\ req[c] \in Requests /\ g \in Gateways /\ ~Behind(g)
      /\ exists \in BOOLEAN /\ omap \in Table
    BY DEF AddNamespace, DeleteNamespace, DeleteSubsystem, Locked, NsTypeOK, Requests, TypeInv
<1>1. ASSUME UNCHANGED <<omapVars, local, update>>
      PROVE  OrderInv'
    BY <1>1 DEF OrderInv, VersionInv, omapVars, Injective
<1>2. UNCHANGED update
    BY DEF AddNamespace, DeleteNamespace, DeleteSubsystem
<1>3. CASE AddNamespace(c)
  <2>1. \/ UNCHANGED <<omapVars, local>>
        \/ /\ ~ImageIsUsed(g, req[c].uuid)
           /\ \E i \in IdsFor(gw[g], req[c].id) :
                 Write(g, exists, [omap EXCEPT ![i] = req[c].uuid])
      BY <1>3 DEF AddNamespace
  <2>2. req[c].uuid \in Uuids
      BY <1>0, <1>3 DEF AddNamespace, Requests
  <2>3. ASSUME ~ImageIsUsed(g, req[c].uuid), NEW i \in IdsFor(gw[g], req[c].id),
               Write(g, exists, [omap EXCEPT ![i] = req[c].uuid])
        PROVE  OrderInv'
    <3>1. i \in Ids
        BY DEF IdsFor, FreeIds
    <3>2. req[c].uuid \notin UuidsOf(omap)
        BY <1>0, <2>3, CurrentMeans DEF ImageIsUsed
    <3>3. [omap EXCEPT ![i] = req[c].uuid] \in Table /\ Injective([omap EXCEPT ![i] = req[c].uuid])
        BY <1>0, <2>2, <3>1, <3>2, SetEntry, InjectiveSet DEF OrderInv
    <3> QED BY <1>0, <1>2, <2>3, <3>3, WriteOrder
  <2> QED BY <1>1, <1>2, <2>1, <2>3
<1>4. CASE DeleteNamespace(c)
  <2>1. req[c].id \in Ids
      BY <1>4, <1>0 DEF DeleteNamespace, Locked, Deleting, Requests
  <2>2. [omap EXCEPT ![req[c].id] = None] \in Table /\ Injective([omap EXCEPT ![req[c].id] = None])
      BY <1>0, <2>1, ClearEntry, InjectiveClear DEF OrderInv
  <2>3. \/ UNCHANGED <<omapVars, local>>
        \/ Write(g, exists, [omap EXCEPT ![req[c].id] = None])
      BY <1>4 DEF DeleteNamespace
  <2>4. ASSUME Write(g, exists, [omap EXCEPT ![req[c].id] = None])
        PROVE  OrderInv'
      BY <1>0, <1>2, <2>2, <2>4, WriteOrder
  <2> QED BY <1>1, <1>2, <2>3, <2>4
<1>5. CASE DeleteSubsystem(c)
  <2>1. Write(g, FALSE, EmptyTable)
      BY <1>5 DEF DeleteSubsystem
  <2> QED BY <1>0, <1>2, <2>1, WriteOrder, EmptyTableFacts
<1> QED BY <1>3, <1>4, <1>5

LEMMA UpdateStepOrder ==
    ASSUME TypeInv, OrderInv, NEW g \in Gateways, UpdateStep(g)
    PROVE  OrderInv'
<1>0. /\ version \in Nat /\ UNCHANGED omapVars
      /\ \A h \in Gateways : local[h].ver \in Nat /\ (update[h] # None => update[h].ver \in Nat)
      /\ local \in [Gateways -> LocalStates] /\ update \in [Gateways -> Updates \cup {None}]
    BY DEF TypeInv, NsTypeOK, LocalStates, Updates, UpdateStep, StartUpdate, UpdateDelete,
           UpdateDropSubsystem, UpdateAddSubsystem, UpdateAdd, UpdateEnd, omapVars
\* the RPCs leave versions alone
<1>1. ASSUME update[g] # None, UNCHANGED local,
             NEW p \in Updates, update' = [update EXCEPT ![g] = p],
             p.ver = update[g].ver, p.sub = update[g].sub, p.ns = update[g].ns,
             p.dropSub => update[g].dropSub, p.addSub => update[g].addSub
      PROVE  OrderInv'
    BY <1>0, <1>1 DEF OrderInv, VersionInv, omapVars, Injective
<1>2. update[g] # None => update[g] \in Updates
    BY <1>0
<1>3. \A p \in Updates : p # None
    BY NsNoneAssumption
<1>4. CASE StartUpdate(g)
  <2>1. /\ Behind(g) /\ UNCHANGED local
        /\ \A h \in Gateways \ {g} : update'[h] = update[h]
        /\ update'[g].ver = version /\ update'[g].sub = exists /\ update'[g].ns = omap
        /\ update'[g].dropSub => ~update'[g].sub
        /\ update'[g].addSub => update'[g].sub
      BY <1>0, <1>4 DEF StartUpdate
  <2>2. local[g].ver < version
      BY <2>1 DEF Behind
  <2> QED BY <1>0, <2>1, <2>2 DEF OrderInv, VersionInv, omapVars, Injective
<1>5. CASE UpdateDelete(g)
  <2>1. PICK i : update' = [update EXCEPT ![g].drop = @ \ {i}]
      BY <1>5 DEF UpdateDelete
  <2>2. [update[g] EXCEPT !.drop = @ \ {i}] \in Updates
      BY <1>2, <1>5 DEF UpdateDelete, Updates
  <2>3. update' = [update EXCEPT ![g] = [update[g] EXCEPT !.drop = @ \ {i}]]
      BY <2>1, <1>0
  <2>4. update[g] # None /\ UNCHANGED local
      BY <1>5 DEF UpdateDelete
  <2> QED BY <1>1, <1>2, <2>2, <2>3, <2>4 DEF Updates
<1>6. CASE UpdateDropSubsystem(g)
  <2>1. [update[g] EXCEPT !.dropSub = FALSE] \in Updates
      BY <1>2, <1>6 DEF UpdateDropSubsystem, Updates
  <2>2. /\ update' = [update EXCEPT ![g] = [update[g] EXCEPT !.dropSub = FALSE]]
        /\ update[g] # None /\ UNCHANGED local
      BY <1>0, <1>6 DEF UpdateDropSubsystem
  <2> QED BY <1>1, <1>2, <2>1, <2>2 DEF Updates
<1>7. CASE UpdateAddSubsystem(g)
  <2>1. [update[g] EXCEPT !.addSub = FALSE] \in Updates
      BY <1>2, <1>7 DEF UpdateAddSubsystem, Updates
  <2>2. /\ update' = [update EXCEPT ![g] = [update[g] EXCEPT !.addSub = FALSE]]
        /\ update[g] # None /\ UNCHANGED local
      BY <1>0, <1>7 DEF UpdateAddSubsystem
  <2> QED BY <1>1, <1>2, <2>1, <2>2 DEF Updates
<1>8. CASE UpdateAdd(g)
  <2>1. PICK i : update' = [update EXCEPT ![g].add = @ \ {i}]
      BY <1>8 DEF UpdateAdd
  <2>2. [update[g] EXCEPT !.add = @ \ {i}] \in Updates
      BY <1>2, <1>8 DEF UpdateAdd, Updates
  <2>3. update' = [update EXCEPT ![g] = [update[g] EXCEPT !.add = @ \ {i}]]
      BY <2>1, <1>0
  <2>4. update[g] # None /\ UNCHANGED local
      BY <1>8 DEF UpdateAdd
  <2> QED BY <1>1, <1>2, <2>2, <2>3, <2>4 DEF Updates
<1>9. CASE UpdateEnd(g)
  <2>1. /\ update[g] # None /\ update'[g] = None
        /\ local'[g] = [ver |-> update[g].ver, sub |-> update[g].sub, ns |-> update[g].ns]
        /\ \A h \in Gateways \ {g} : update'[h] = update[h] /\ local'[h] = local[h]
      BY <1>0, <1>9 DEF UpdateEnd
  <2> QED BY <1>0, <2>1 DEF OrderInv, VersionInv, omapVars, Injective
<1> QED BY <1>4, <1>5, <1>6, <1>7, <1>8, <1>9 DEF UpdateStep

LEMMA OrderStep == TypeInv /\ OrderInv /\ [NsNext]_nsVars => OrderInv'
<1> SUFFICES ASSUME TypeInv, OrderInv, [NsNext]_nsVars PROVE OrderInv'
    OBVIOUS
<1>1. ASSUME UNCHANGED <<omapVars, local, update>>
      PROVE  OrderInv'
    BY <1>1 DEF OrderInv, VersionInv, omapVars, Injective
<1>2. ASSUME NEW c \in Clients, Ask(c) \/ Check(c) \/ Retry(c)
      PROVE  OrderInv'
    BY <1>1, <1>2 DEF Ask, Check, Retry
<1>3. ASSUME NEW c \in Clients,
             AddNamespace(c) \/ DeleteNamespace(c) \/ DeleteSubsystem(c)
      PROVE  OrderInv'
    BY <1>3, LockedStepOrder
<1>4. ASSUME NEW g \in Gateways, Crash(g)
      PROVE  OrderInv'
  <2>1. /\ UNCHANGED omapVars
        /\ local'[g] = [ver |-> NewVersion, sub |-> FALSE, ns |-> EmptyTable] /\ update'[g] = None
        /\ \A h \in Gateways \ {g} : local'[h] = local[h] /\ update'[h] = update[h]
      BY <1>4 DEF Crash, TypeInv, NsTypeOK
  <2>2. version \in Nat /\ version >= FirstVersion
      BY DEF TypeInv, NsTypeOK, OrderInv, VersionInv
  <2>3. NewVersion <= version /\ NewVersion # version
      BY <2>2 DEF NewVersion, FirstVersion
  <2> QED BY <2>1, <2>3 DEF OrderInv, VersionInv, omapVars, Injective
<1>5. CASE UNCHANGED nsVars
    BY <1>1, <1>5 DEF nsVars
<1> QED BY <1>2, <1>3, <1>4, <1>5, UpdateStepOrder DEF NsNext

\* No image is in two namespaces of the group (check_if_image_used, under the
\* OMAP lock), for any number of gateways, requests, failures and restarts.
THEOREM UuidsStayUnique == NsSpec => []UuidsAreUnique
<1>1. OrderInv => UuidsAreUnique
    BY DEF OrderInv, Injective, UuidsAreUnique, Used
<1> QED BY <1>1, InitType, TypeStep, InitOrder, OrderStep, PTL DEF NsSpec

(***************************************************************************)
(* The subsystem                                                           *)
(***************************************************************************)
\* A gateway has the subsystem as its local state and its update say, and no
\* namespace is in the OMAP without it.
SubsystemPart == SubsystemInv /\ NoFaultInv /\ NoNamespaceWithoutSubsystem

LEMMA InitSubsystem == NsInit => SubsystemPart
<1> SUFFICES ASSUME NsInit PROVE SubsystemPart
    OBVIOUS
<1>1. \A g \in Gateways : gw[g].sub /\ local[g].sub /\ update[g] = None /\ troubles[g] = {}
    BY DEF NsInit, NewGateway
<1>2. exists = TRUE
    BY DEF NsInit
<1> QED BY <1>1, <1>2
        DEF SubsystemPart, SubsystemInv, HasSubsystem, NoFaultInv, NoNamespaceWithoutSubsystem

\* what the calls leave of the subsystem
LEMMA CallsKeepSubsystem ==
    ASSUME NEW r \in GatewayStates, NEW i \in Ids \cup {0}, NEW u
    PROVE  /\ Serve(r, i, u).sub = r.sub
           /\ ForgetList(r, i).sub = r.sub
           /\ DropBdev(r, u).sub = r.sub
           /\ TakeAway(r, i).sub = r.sub
           /\ AfterRemoveErr(r, i).sub = r.sub
           /\ Removed(r, i, u).sub = r.sub
           /\ DropBdev(Serve(r, i, u), u).sub = r.sub
           /\ WithoutSubsystem(r).sub = FALSE
<1>1. Serve(r, i, u).sub = r.sub /\ ForgetList(r, i).sub = r.sub /\ DropBdev(r, u).sub = r.sub
    BY DEF Serve, ForgetList, DropBdev, GatewayStates
<1>2. TakeAway(r, i).sub = r.sub /\ AfterRemoveErr(r, i).sub = r.sub
    BY DEF TakeAway, AfterRemoveErr, GatewayStates
<1>3. Removed(r, i, u).sub = r.sub
    BY DEF TakeAway, Removed, DropBdev, GatewayStates
<1>4. DropBdev(Serve(r, i, u), u).sub = r.sub
    BY DEF Serve, DropBdev, GatewayStates
<1>5. WithoutSubsystem(r).sub = FALSE
    BY DEF WithoutSubsystem, GatewayStates
<1> QED BY <1>1, <1>2, <1>3, <1>4, <1>5, Zenon

\* A step of gateway g's process leaves those of the others alone.
OthersStay(g) ==
    \A h \in Gateways \ {g} :
        /\ gw'[h] = gw[h] /\ local'[h] = local[h]
        /\ update'[h] = update[h] /\ troubles'[h] = troubles[h]

LEMMA StepsAreLocal ==
    ASSUME TypeInv, NEW g \in Gateways,
           \/ UpdateStep(g) \/ Crash(g)
           \/ \E c \in Clients : /\ req[c] # None /\ req[c].gw = g
                                 /\ AddNamespace(c) \/ DeleteNamespace(c) \/ DeleteSubsystem(c)
    PROVE  OthersStay(g)
<1>1. /\ gw \in [Gateways -> GatewayStates] /\ local \in [Gateways -> LocalStates]
      /\ update \in [Gateways -> Updates \cup {None}]
      /\ troubles \in [Gateways -> SUBSET {"stale", "hidden", "fault"}]
    BY DEF TypeInv, NsTypeOK
<1>2. CASE UpdateStep(g) \/ Crash(g)
    BY <1>1, <1>2 DEF OthersStay, UpdateStep, StartUpdate, UpdateDelete, UpdateDropSubsystem,
                      UpdateAddSubsystem, UpdateAdd, UpdateEnd, Crash
<1>3. ASSUME NEW c \in Clients, req[c] # None, req[c].gw = g,
             AddNamespace(c) \/ DeleteNamespace(c) \/ DeleteSubsystem(c)
      PROVE  OthersStay(g)
  <2>1. \A h \in Gateways \ {g} : gw'[h] = gw[h]
      BY <1>1, <1>3 DEF AddNamespace, DeleteNamespace, DeleteSubsystem
  <2>2. \A h \in Gateways \ {g} : local'[h] = local[h]
      BY <1>1, <1>3 DEF AddNamespace, DeleteNamespace, DeleteSubsystem, Write
  <2>3. \A h \in Gateways \ {g} : troubles'[h] = troubles[h]
    <3>1. Fault(c) \/ NoFault(c)
        BY <1>3 DEF AddNamespace, DeleteNamespace, DeleteSubsystem
    <3> QED BY <1>1, <1>3, <3>1 DEF Fault, NoFault, Trouble
  <2>4. UNCHANGED update
      BY <1>3 DEF AddNamespace, DeleteNamespace, DeleteSubsystem
  <2> QED BY <2>1, <2>2, <2>3, <2>4 DEF OthersStay
<1> QED BY <1>2, <1>3

LEMMA UpdateStepSubsystem ==
    ASSUME TypeInv, OrderInv, SubsystemPart, NEW g \in Gateways, UpdateStep(g)
    PROVE  SubsystemPart'
<1> DEFINE r == gw[g]
<1>0. /\ gw \in [Gateways -> GatewayStates] /\ r \in GatewayStates
      /\ local \in [Gateways -> LocalStates] /\ local[g].sub \in BOOLEAN
      /\ update \in [Gateways -> Updates \cup {None}]
      /\ update[g] # None => update[g] \in Updates
      /\ troubles \in [Gateways -> SUBSET {"stale", "hidden", "fault"}]
      /\ exists \in BOOLEAN
      /\ UNCHANGED <<exists, omap, faults>>
    BY DEF TypeInv, NsTypeOK, LocalStates, omapVars, budgetVars, UpdateStep, StartUpdate,
           UpdateDelete, UpdateDropSubsystem, UpdateAddSubsystem, UpdateAdd, UpdateEnd
<1>1. OthersStay(g)
    BY StepsAreLocal
<1>2. "fault" \in troubles'[g] <=> "fault" \in troubles[g]
    BY <1>0 DEF UpdateStep, StartUpdate, UpdateDelete, UpdateDropSubsystem,
                UpdateAddSubsystem, UpdateAdd, UpdateEnd
<1>3. ASSUME gw[g].sub <=> HasSubsystem(g)
      PROVE  gw'[g].sub <=> HasSubsystem(g)'
  <2>1. CASE StartUpdate(g)
    <3>1. /\ update[g] = None /\ update'[g] # None /\ gw' = gw
          /\ update'[g].sub = exists /\ update'[g].dropSub = (local[g].sub /\ ~exists)
          /\ update'[g].addSub = (~local[g].sub /\ exists)
      <4>1. update[g] = None /\ gw' = gw
          BY <2>1 DEF StartUpdate
      <4>2. PICK plan \in Updates :
                /\ update'[g] = plan /\ plan.sub = exists
                /\ plan.dropSub = (local[g].sub /\ ~exists)
                /\ plan.addSub = (~local[g].sub /\ exists)
          BY <2>1, StartPlan DEF TypeInv
      <4> QED BY <4>1, <4>2, NsNoneAssumption
    <3> QED BY <1>0, <1>3, <3>1 DEF HasSubsystem
  <2>2. CASE UpdateDelete(g)
    <3>1. PICK i \in update[g].drop :
            /\ update' = [update EXCEPT ![g].drop = @ \ {i}]
            /\ gw' = [gw EXCEPT ![g] =
                  IF ~r.sub \/ r.list[i] = None THEN r
                  ELSE IF RemoveErrs(r, i) THEN AfterRemoveErr(r, i)
                  ELSE Removed(r, i, r.list[i])]
        BY <2>2 DEF UpdateDelete
    <3>2. i \in Ids
        BY <1>0, <2>2 DEF UpdateDelete, Updates
    <3>3. gw'[g].sub = r.sub
        BY <1>0, <3>1, <3>2, CallsKeepSubsystem
    <3>4. /\ update'[g] # None /\ update'[g].sub = update[g].sub
          /\ update'[g].dropSub = update[g].dropSub /\ update'[g].addSub = update[g].addSub
        BY <1>0, <2>2, <3>1, NsNoneAssumption DEF UpdateDelete, Updates
    <3> QED BY <1>0, <1>3, <2>2, <3>3, <3>4 DEF HasSubsystem, UpdateDelete
  <2>3. CASE UpdateDropSubsystem(g)
    <3>1. gw'[g].sub = FALSE
        BY <1>0, <2>3, CallsKeepSubsystem DEF UpdateDropSubsystem
    <3>2. /\ update[g] # None /\ update'[g].sub = update[g].sub /\ update[g].dropSub
          /\ update'[g].dropSub = FALSE /\ update'[g] # None
        BY <1>0, <2>3, NsNoneAssumption DEF UpdateDropSubsystem, Updates
    <3>3. ~update[g].sub
        BY <3>2 DEF OrderInv, VersionInv
    <3> QED BY <3>1, <3>2, <3>3 DEF HasSubsystem
  <2>4. CASE UpdateAddSubsystem(g)
    <3>1. gw'[g].sub = TRUE
        BY <1>0, <2>4 DEF UpdateAddSubsystem, GatewayStates
    <3>2. /\ update[g] # None /\ update'[g].sub = update[g].sub /\ update[g].addSub
          /\ update'[g].addSub = FALSE /\ update'[g] # None
        BY <1>0, <2>4, NsNoneAssumption DEF UpdateAddSubsystem, Updates
    <3>3. update[g].sub
        BY <3>2 DEF OrderInv, VersionInv
    <3> QED BY <3>1, <3>2, <3>3 DEF HasSubsystem
  <2>5. CASE UpdateAdd(g)
    <3>1. PICK i \in update[g].add :
            /\ update' = [update EXCEPT ![g].add = @ \ {i}]
            /\ gw' = [gw EXCEPT ![g] =
                  IF AddRefused(r, update[g].ns[i]) THEN r
                  ELSE IF SpdkRefuses(r, i) THEN ForgetList(r, i)
                  ELSE Serve(r, i, update[g].ns[i])]
        BY <2>5 DEF UpdateAdd
    <3>2. i \in Ids
        BY <1>0, <2>5 DEF UpdateAdd, Updates
    <3>3. gw'[g].sub = r.sub
      <4>1. i \in Ids \cup {0}
          BY <3>2
      <4>2. \A u : Serve(r, i, u).sub = r.sub /\ ForgetList(r, i).sub = r.sub
          BY <1>0, <4>1, CallsKeepSubsystem
      <4> QED BY <1>0, <3>1, <4>2
    <3>4. /\ update'[g] # None /\ update'[g].sub = update[g].sub
          /\ update'[g].dropSub = update[g].dropSub /\ update'[g].addSub = update[g].addSub
        BY <1>0, <2>5, <3>1, NsNoneAssumption DEF UpdateAdd, Updates
    <3> QED BY <1>0, <1>3, <2>5, <3>3, <3>4 DEF HasSubsystem, UpdateAdd
  <2>6. CASE UpdateEnd(g)
    <3>1. /\ update[g] # None /\ ~update[g].dropSub /\ ~update[g].addSub
          /\ update'[g] = None /\ local'[g].sub = update[g].sub /\ gw' = gw
        BY <1>0, <2>6 DEF UpdateEnd
    <3> QED BY <1>3, <3>1 DEF HasSubsystem
  <2> QED BY <2>1, <2>2, <2>3, <2>4, <2>5, <2>6 DEF UpdateStep
<1>4. SubsystemInv'
    BY <1>1, <1>2, <1>3 DEF SubsystemPart, SubsystemInv, OthersStay, HasSubsystem
<1>5. NoFaultInv'
    BY <1>0, <1>1, <1>2 DEF SubsystemPart, NoFaultInv, OthersStay
<1>6. NoNamespaceWithoutSubsystem'
    BY <1>0 DEF SubsystemPart, NoNamespaceWithoutSubsystem
<1> QED BY <1>4, <1>5, <1>6 DEF SubsystemPart

LEMMA LockedStepSubsystem ==
    ASSUME TypeInv, OrderInv, SubsystemPart, NEW c \in Clients,
           AddNamespace(c) \/ DeleteNamespace(c) \/ DeleteSubsystem(c)
    PROVE  SubsystemPart'
<1>g. PICK g \in Gateways : g = req[c].gw
    BY DEF AddNamespace, DeleteNamespace, DeleteSubsystem, Locked, NsTypeOK, Requests, TypeInv
<1> DEFINE r == gw[g]
<1>0. /\ req[c] # None /\ req[c] \in Requests /\ g = req[c].gw /\ ~Behind(g)
      /\ gw \in [Gateways -> GatewayStates] /\ r \in GatewayStates
      /\ local \in [Gateways -> LocalStates] /\ exists \in BOOLEAN
      /\ troubles \in [Gateways -> SUBSET {"stale", "hidden", "fault"}]
      /\ faults \in Nat /\ omap \in Table
    BY <1>g DEF AddNamespace, DeleteNamespace, DeleteSubsystem, Locked, NsTypeOK, Requests, TypeInv
<1>1. OthersStay(g)
    BY <1>0, StepsAreLocal
<1>2. local[g].sub = exists /\ update[g] = None /\ update' = update
    BY <1>0, CurrentMeans DEF AddNamespace, DeleteNamespace, DeleteSubsystem
\* every failure is noted
<1>3. /\ Fault(c) => "fault" \in troubles'[g] /\ faults' # 0
      /\ NoFault(c) => ("fault" \in troubles'[g] <=> "fault" \in troubles[g]) /\ faults' = faults
  <2>1. ASSUME NEW more, Trouble(c, more)
        PROVE  "fault" \in troubles'[g] <=> "fault" \in troubles[g] \/ "fault" \in more
      BY <1>0, <2>1 DEF Trouble
  <2> QED BY <1>0, <2>1 DEF Fault, NoFault
<1>4. Fault(c) \/ NoFault(c)
    BY DEF AddNamespace, DeleteNamespace, DeleteSubsystem
<1>5. NoFaultInv'
    BY <1>0, <1>1, <1>3, <1>4 DEF SubsystemPart, NoFaultInv, OthersStay
<1>6. ASSUME NoFault(c) => (gw'[g].sub <=> local'[g].sub)
      PROVE  SubsystemInv'
  <2>1. "fault" \notin troubles'[g] => NoFault(c)
      BY <1>3, <1>4
  <2>2. "fault" \notin troubles'[g] => (gw'[g].sub <=> HasSubsystem(g)')
      BY <1>2, <1>6, <2>1 DEF HasSubsystem
  <2> QED BY <1>1, <2>2 DEF SubsystemPart, SubsystemInv, OthersStay, HasSubsystem
<1>7. CASE AddNamespace(c) \/ DeleteNamespace(c)
  <2>1. gw'[g].sub = r.sub
    <3>1. \A i \in Ids \cup {0} : \A u :
              /\ Serve(r, i, u).sub = r.sub /\ ForgetList(r, i).sub = r.sub
              /\ DropBdev(Serve(r, i, u), u).sub = r.sub
              /\ AfterRemoveErr(r, i).sub = r.sub /\ Removed(r, i, u).sub = r.sub
      <4>1. ASSUME NEW i \in Ids \cup {0}, NEW u
            PROVE  /\ Serve(r, i, u).sub = r.sub /\ ForgetList(r, i).sub = r.sub
                   /\ DropBdev(Serve(r, i, u), u).sub = r.sub
                   /\ AfterRemoveErr(r, i).sub = r.sub /\ Removed(r, i, u).sub = r.sub
        <5>1. r \in GatewayStates
            BY <1>0
        <5> HIDE DEF r
        <5> QED BY <5>1, CallsKeepSubsystem, Zenon
      <4> QED BY <4>1
    <3>2. req[c].id \in Ids \cup {0} /\ \A i \in IdsFor(r, req[c].id) : i \in Ids \cup {0}
        BY <1>0 DEF Requests, IdsFor, FreeIds
    <3>3. CASE AddNamespace(c)
      <4>1. \/ gw' = gw
            \/ gw' = [gw EXCEPT ![g] = ForgetList(r, req[c].id)]
            \/ \E i \in IdsFor(r, req[c].id) :
                  \/ gw' = [gw EXCEPT ![g] = Serve(r, i, req[c].uuid)]
                  \/ gw' = [gw EXCEPT ![g] = DropBdev(Serve(r, i, req[c].uuid), req[c].uuid)]
          BY <1>0, <3>3 DEF AddNamespace
      <4> QED BY <1>0, <3>1, <3>2, <4>1
    <3>4. CASE DeleteNamespace(c)
        BY <1>0, <3>1, <3>2, <3>4 DEF DeleteNamespace
    <3> QED BY <1>7, <3>3, <3>4
  <2>2. exists' = exists /\ local'[g].sub = local[g].sub
    <3>1. UNCHANGED <<omapVars, local>> \/ \E ns : Write(g, exists, ns)
        BY <1>0, <1>7 DEF AddNamespace, DeleteNamespace
    <3>2. ASSUME NEW ns, Write(g, exists, ns)
          PROVE  exists' = exists /\ local'[g].sub = local[g].sub
      <4>1. exists' = exists /\ local'[g].sub = exists
          BY <1>0, <3>2 DEF Write
      <4> QED BY <1>2, <4>1
    <3> QED BY <3>1, <3>2 DEF omapVars
  <2>3. NoFault(c) /\ "fault" \notin troubles[g] => (r.sub <=> local[g].sub)
      BY <1>0, <1>2 DEF SubsystemPart, SubsystemInv, HasSubsystem
  <2>4. SubsystemInv'
    <3>1. "fault" \notin troubles'[g] => (gw'[g].sub <=> HasSubsystem(g)')
        BY <1>2, <1>3, <1>4, <2>1, <2>2, <2>3 DEF HasSubsystem
    <3> QED BY <1>1, <3>1 DEF SubsystemPart, SubsystemInv, OthersStay, HasSubsystem
  <2>5. NoNamespaceWithoutSubsystem'
    <3>1. ASSUME ~exists, faults' = 0
          PROVE  omap' = EmptyTable
      <4>1. faults = 0 /\ omap = EmptyTable
          BY <1>3, <1>4, <3>1 DEF SubsystemPart, NoNamespaceWithoutSubsystem
      <4>2. ~r.sub
          BY <1>0, <1>2, <3>1, <4>1
             DEF SubsystemPart, NoFaultInv, SubsystemInv, HasSubsystem
      <4>3. CASE AddNamespace(c)
          BY <1>0, <4>1, <4>2, <4>3 DEF AddNamespace, AddRefused, omapVars
      <4>4. CASE DeleteNamespace(c)
        <5>1. omap' = omap \/ omap' = [omap EXCEPT ![req[c].id] = None]
            BY <4>4 DEF DeleteNamespace, Write, omapVars
        <5> QED BY <4>1, <5>1 DEF EmptyTable
      <4> QED BY <1>7, <4>3, <4>4
    <3> QED BY <2>2, <3>1 DEF NoNamespaceWithoutSubsystem
  <2> QED BY <1>5, <2>4, <2>5 DEF SubsystemPart
<1>8. CASE DeleteSubsystem(c)
  <2>1. local'[g].sub = FALSE /\ omap' = EmptyTable
      BY <1>0, <1>8 DEF DeleteSubsystem, Write
  <2>2. WithoutSubsystem(r).sub = FALSE
      BY <1>0, CallsKeepSubsystem
  <2>3. Fault(c) \/ gw'[g].sub = FALSE
      BY <1>0, <1>8, <2>2 DEF DeleteSubsystem
  <2>4. SubsystemInv'
    <3>1. "fault" \notin troubles'[g] => (gw'[g].sub <=> HasSubsystem(g)')
        BY <1>2, <1>3, <2>1, <2>3 DEF HasSubsystem
    <3> QED BY <1>1, <3>1 DEF SubsystemPart, SubsystemInv, OthersStay, HasSubsystem
  <2> QED BY <1>5, <2>1, <2>4 DEF SubsystemPart, NoNamespaceWithoutSubsystem
<1> QED BY <1>7, <1>8

LEMMA SubsystemStep ==
    TypeInv /\ OrderInv /\ SubsystemPart /\ [NsNext]_nsVars => SubsystemPart'
<1> SUFFICES ASSUME TypeInv, OrderInv, SubsystemPart, [NsNext]_nsVars PROVE SubsystemPart'
    OBVIOUS
<1>1. ASSUME UNCHANGED <<omapVars, local, gw, update, troubles, faults>>
      PROVE  SubsystemPart'
    BY <1>1 DEF SubsystemPart, SubsystemInv, HasSubsystem, NoFaultInv,
                NoNamespaceWithoutSubsystem, omapVars
<1>2. ASSUME NEW c \in Clients, Ask(c) \/ Check(c) \/ Retry(c)
      PROVE  SubsystemPart'
    BY <1>1, <1>2 DEF Ask, Check, Retry, budgetVars
<1>3. ASSUME NEW c \in Clients,
             AddNamespace(c) \/ DeleteNamespace(c) \/ DeleteSubsystem(c)
      PROVE  SubsystemPart'
    BY <1>3, LockedStepSubsystem
<1>4. ASSUME NEW g \in Gateways, Crash(g)
      PROVE  SubsystemPart'
  <2>1. OthersStay(g) /\ UNCHANGED <<omapVars, faults>>
      BY <1>4, StepsAreLocal DEF Crash
  <2>2. ~gw'[g].sub /\ ~local'[g].sub /\ update'[g] = None /\ troubles'[g] = {}
      BY <1>4 DEF Crash, TypeInv, NsTypeOK, NewGateway
  <2> QED BY <2>1, <2>2 DEF SubsystemPart, SubsystemInv, HasSubsystem, NoFaultInv,
                            NoNamespaceWithoutSubsystem, omapVars, OthersStay
<1>5. CASE UNCHANGED nsVars
    BY <1>1, <1>5 DEF nsVars, budgetVars
<1> QED BY <1>2, <1>3, <1>4, <1>5, UpdateStepSubsystem DEF NsNext

\* As long as no call has failed, a deletion of the subsystem leaves no namespace
\* in the OMAP, although a namespace_add may wait for the lock meanwhile at any
\* gateway: it finds SPDK without the subsystem (create_namespace), or is behind.
THEOREM NamespacesHaveASubsystem == NsSpec => []NoNamespaceWithoutSubsystem
<1>1. SubsystemPart => NoNamespaceWithoutSubsystem
    BY DEF SubsystemPart
<1> QED BY <1>1, InitType, TypeStep, InitOrder, OrderStep, InitSubsystem, SubsystemStep,
           PTL DEF NsSpec

(***************************************************************************)
(* What is served                                                          *)
(***************************************************************************)
LEMMA ServeFits ==
    ASSUME NEW r \in GatewayStates, Fits(r), r.sub, NEW i \in Ids, r.spdk[i] = None,
           NEW u \in Uuids, u \notin UuidsOf(r.spdk)
    PROVE  /\ Fits(Serve(r, i, u)) /\ Serve(r, i, u).sub
           /\ Serve(r, i, u).spdk = [r.spdk EXCEPT ![i] = u]
<1> DEFINE t == [r.spdk EXCEPT ![i] = u]
<1>1. r.spdk \in Table /\ r.load \in Nat /\ r.list = r.spdk
    BY DEF GatewayStates, Fits
<1>2. /\ Serve(r, i, u).sub /\ Serve(r, i, u).spdk = t /\ Serve(r, i, u).list = t
      /\ Serve(r, i, u).bdevs = r.bdevs \cup {u} /\ Serve(r, i, u).load = r.load + 1
    BY <1>1 DEF Serve, GatewayStates
<1>3. UuidsOf(t) = UuidsOf(r.spdk) \cup {u} /\ Cardinality(Used(t)) = Cardinality(Used(r.spdk)) + 1
    BY <1>1, SetEntry
<1>4. Injective(t)
    BY <1>1, InjectiveSet DEF Fits
<1>5. r.bdevs = UuidsOf(r.spdk) /\ r.load = Cardinality(Used(r.spdk))
    BY DEF Fits
<1> HIDE DEF t
<1>6. Fits(Serve(r, i, u))
    BY <1>2, <1>3, <1>4, <1>5 DEF Fits
<1> QED BY <1>2, <1>6 DEF t

LEMMA RemovedFits ==
    ASSUME NEW r \in GatewayStates, Fits(r), NEW i \in Ids, r.spdk[i] # None
    PROVE  /\ Fits(Removed(r, i, r.spdk[i])) /\ Removed(r, i, r.spdk[i]).sub
           /\ Removed(r, i, r.spdk[i]).spdk = [r.spdk EXCEPT ![i] = None]
<1> DEFINE u == r.spdk[i]
           t == [r.spdk EXCEPT ![i] = None]
<1>1. r.spdk \in Table /\ r.load \in Nat /\ r.list = r.spdk /\ Injective(r.spdk)
    BY DEF GatewayStates, Fits
<1>2. r.sub /\ r.bdevs = UuidsOf(r.spdk) /\ r.load = Cardinality(Used(r.spdk))
    BY DEF Fits, EmptyTable
<1>3. [j \in Ids |-> IF t[j] = u THEN None ELSE t[j]] = t
    BY <1>1 DEF Injective, Table
<1>4. /\ Removed(r, i, u).sub = r.sub
      /\ Removed(r, i, u).spdk = [j \in Ids |-> IF t[j] = u THEN None ELSE t[j]]
      /\ Removed(r, i, u).list = t
      /\ Removed(r, i, u).bdevs = r.bdevs \ {u} /\ Removed(r, i, u).load = r.load - 1
  <2> DEFINE a == [r EXCEPT !.spdk = t, !.load = r.load - 1]
             b == [a EXCEPT !.list = t]
             d == [b EXCEPT !.bdevs = r.bdevs \ {u},
                            !.spdk = [j \in Ids |-> IF t[j] = u THEN None ELSE t[j]]]
  <2>1. TakeAway(r, i) = a
      BY DEF TakeAway, GatewayStates
  <2>2. [a EXCEPT !.list[i] = None] = b
      BY <1>1 DEF GatewayStates
  <2>3. DropBdev(b, u) = d
      BY DEF DropBdev, GatewayStates
  <2>4. Removed(r, i, u) = d
      BY <2>1, <2>2, <2>3 DEF Removed
  <2> QED BY <2>4 DEF GatewayStates
<1>5. UuidsOf(t) = UuidsOf(r.spdk) \ {u}
    BY <1>1 DEF UuidsOf, Used, Injective, Table
<1>6. Cardinality(Used(t)) = Cardinality(Used(r.spdk)) - 1
    BY <1>1, ClearEntry
<1>7. Injective(t)
    BY <1>1, InjectiveClear
<1> HIDE DEF t
<1>8. Fits(Removed(r, i, u))
    BY <1>1, <1>2, <1>3, <1>4, <1>5, <1>6, <1>7 DEF Fits
<1> QED BY <1>2, <1>3, <1>4, <1>8 DEF t

LEMMA WithoutFits ==
    ASSUME NEW r \in GatewayStates
    PROVE  Fits(WithoutSubsystem(r))
BY EmptyTableFacts DEF WithoutSubsystem, GatewayStates, Fits

LEMMA WithFits ==
    ASSUME NEW r \in GatewayStates, Fits(r), ~r.sub => Bare(r)
    PROVE  Fits([r EXCEPT !.sub = TRUE]) /\ [r EXCEPT !.sub = TRUE].spdk = r.spdk
<1>1. CASE r.sub
  <2>1. [r EXCEPT !.sub = TRUE] = r
      BY <1>1 DEF GatewayStates
  <2> QED BY <2>1
<1>2. CASE ~r.sub
    BY <1>2, EmptyTableFacts DEF GatewayStates, Fits, Bare
<1> QED BY <1>1, <1>2

LEMMA NewFits == Fits(NewGateway) /\ Bare(NewGateway)
BY EmptyTableFacts DEF NewGateway, Fits, Bare

LEMMA OthersServe ==
    ASSUME ServeInv, NEW g \in Gateways, OthersStay(g), exists' => exists,
           troubles'[g] = {} => ServesLocal(g)'
    PROVE  ServeInv'
<1> SUFFICES ASSUME NEW h \in Gateways, h # g, troubles'[h] = {}
             PROVE  ServesLocal(h)'
    BY DEF ServeInv
<1>1. ServesLocal(h)
    BY DEF ServeInv, OthersStay
<1>2. gw'[h] = gw[h] /\ local'[h] = local[h] /\ update'[h] = update[h]
    BY DEF OthersStay
<1>3. Fits(gw'[h]) /\ (LeadsThere(update[h], gw[h].spdk) => LeadsThere(update'[h], gw'[h].spdk))
    BY <1>1, <1>2 DEF ServesLocal
<1>4. Bare(gw[h]) => Bare(gw'[h])
    BY <1>2
<1> QED BY <1>1, <1>2, <1>3, <1>4 DEF ServesLocal

LEMMA StartServes ==
    ASSUME TypeInv, OrderInv, SubsystemPart, NEW g \in Gateways, StartUpdate(g),
           ServesLocal(g), troubles'[g] = {}
    PROVE  ServesLocal(g)'
<1>1. PICK plan \in Updates :
        /\ update'[g] = plan /\ plan.sub = exists /\ plan.ns = omap
        /\ plan.addSub = (~local[g].sub /\ exists)
        /\ plan.drop = Grouped(Gone(g), Changed(g)) /\ plan.add = Grouped(New(g), Changed(g))
    BY StartPlan DEF TypeInv
<1>2. /\ update[g] = None /\ gw' = gw /\ local' = local /\ exists' = exists
      /\ exists \in BOOLEAN /\ plan # None
    BY NsNoneAssumption DEF StartUpdate, omapVars, TypeInv, NsTypeOK
<1>3. Changed(g) = {} \/ Gone(g) \cup New(g) = {}
    BY DEF StartUpdate, TypeInv, NsTypeOK, Gone, New, Changed
<1>4. "fault" \notin troubles[g]
    BY DEF StartUpdate, TypeInv, NsTypeOK
<1>5. exists => gw[g].spdk = local[g].ns
  <2>1. CASE local[g].sub
      BY <1>2, <2>1 DEF ServesLocal
  <2>2. CASE ~local[g].sub
    <3>1. ~gw[g].sub
        BY <1>2, <1>4, <2>2 DEF SubsystemPart, SubsystemInv, HasSubsystem
    <3> QED BY <2>2, <3>1 DEF ServesLocal, Fits, OrderInv, VersionInv
  <2> QED BY <2>1, <2>2
<1>6. exists => LeadsThere(plan, gw[g].spdk)
  <2>1. omap \in Table /\ local[g].ns \in Table
      BY DEF TypeInv, NsTypeOK, LocalStates
  <2> QED BY <1>1, <1>3, <1>5, <2>1 DEF LeadsThere, Grouped, Gone, New, Changed, Used
<1>7. /\ Fits(gw'[g])
      /\ ~gw'[g].sub /\ exists' => Bare(gw'[g])
    BY <1>2 DEF ServesLocal
<1>8. update'[g].sub => LeadsThere(update'[g], gw'[g].spdk)
    BY <1>1, <1>2, <1>6
<1> QED BY <1>1, <1>2, <1>7, <1>8 DEF ServesLocal

LEMMA DeleteServes ==
    ASSUME TypeInv, OrderInv, SubsystemPart, NEW g \in Gateways, UpdateDelete(g),
           ServesLocal(g)
    PROVE  ServesLocal(g)'
<1> DEFINE r == gw[g]
           p == update[g]
<1>0. /\ gw \in [Gateways -> GatewayStates] /\ r \in GatewayStates
      /\ update \in [Gateways -> Updates \cup {None}] /\ p # None /\ p \in Updates
      /\ UNCHANGED <<exists, local>>
    BY DEF TypeInv, NsTypeOK, UpdateDelete, omapVars
<1>1. PICK i \in p.drop :
        /\ update' = [update EXCEPT ![g].drop = @ \ {i}]
        /\ gw' = [gw EXCEPT ![g] =
              IF ~r.sub \/ r.list[i] = None THEN r
              ELSE IF RemoveErrs(r, i) THEN AfterRemoveErr(r, i)
              ELSE Removed(r, i, r.list[i])]
    BY DEF UpdateDelete
<1>2. /\ i \in Ids /\ update'[g] \in Updates /\ update'[g] # None
      /\ update'[g].drop = p.drop \ {i} /\ update'[g].add = p.add /\ update'[g].ns = p.ns
      /\ update'[g].sub = p.sub /\ update'[g].addSub = p.addSub
    BY <1>0, <1>1, NsNoneAssumption DEF Updates
<1>3. r.list = r.spdk /\ r.spdk \in Table /\ Fits(r)
    BY <1>0 DEF ServesLocal, Fits, GatewayStates
\* the namespace is gone from SPDK, and the rest fits it
<1>4. /\ Fits(gw'[g]) /\ (gw'[g].sub <=> r.sub) /\ (~r.sub => gw'[g] = r)
      /\ gw'[g].spdk = [r.spdk EXCEPT ![i] = None]
  <2>1. CASE ~r.sub \/ r.list[i] = None
    <3>1. gw'[g] = r
        BY <1>0, <1>1, <2>1
    <3>2. r.spdk[i] = None
        BY <1>2, <1>3, <2>1 DEF Fits, EmptyTable
    <3>3. r.spdk = [r.spdk EXCEPT ![i] = None]
        BY <1>2, <1>3, <3>2 DEF Table
    <3> QED BY <1>3, <3>1, <3>3
  <2>2. CASE r.sub /\ r.list[i] # None
    <3>1. gw'[g] = Removed(r, i, r.spdk[i]) /\ r.spdk[i] # None
        BY <1>0, <1>1, <1>3, <2>2 DEF RemoveErrs
    <3> HIDE DEF r
    <3> QED BY <1>0, <1>2, <1>3, <2>2, <3>1, RemovedFits
  <2> QED BY <2>1, <2>2
<1>5. p.sub => LeadsThere(update'[g], gw'[g].spdk)
  <2>1. p.sub => LeadsThere(p, r.spdk)
      BY <1>0 DEF ServesLocal
  <2> HIDE DEF r, p
  <2> QED BY <1>2, <1>3, <1>4, <2>1 DEF LeadsThere, Table
<1>6. ~gw'[g].sub /\ (exists' \/ update'[g].addSub) => Bare(gw'[g])
    BY <1>0, <1>2, <1>4 DEF ServesLocal
<1> QED BY <1>0, <1>2, <1>4, <1>5, <1>6 DEF ServesLocal

LEMMA SubsystemServes ==
    ASSUME TypeInv, OrderInv, NEW g \in Gateways,
           UpdateDropSubsystem(g) \/ UpdateAddSubsystem(g) \/ UpdateEnd(g),
           ServesLocal(g)
    PROVE  ServesLocal(g)'
<1> DEFINE r == gw[g]
           p == update[g]
<1>0. /\ gw \in [Gateways -> GatewayStates] /\ r \in GatewayStates
      /\ update \in [Gateways -> Updates \cup {None}] /\ p # None /\ p \in Updates
      /\ local \in [Gateways -> LocalStates] /\ exists' = exists
    BY DEF TypeInv, NsTypeOK, UpdateDropSubsystem, UpdateAddSubsystem, UpdateEnd, omapVars
<1>1. CASE UpdateDropSubsystem(g)
  <2>1. /\ gw'[g] = WithoutSubsystem(r) /\ local' = local /\ p.dropSub
        /\ update'[g] # None /\ update'[g].sub = p.sub /\ update'[g].addSub = p.addSub
      BY <1>0, <1>1, NsNoneAssumption DEF UpdateDropSubsystem, Updates
  <2>2. ~p.sub /\ ~exists /\ ~p.addSub
      BY <1>0, <2>1 DEF OrderInv, VersionInv
  <2>3. Fits(gw'[g])
      BY <1>0, <2>1, WithoutFits
  <2> QED BY <1>0, <2>1, <2>2, <2>3 DEF ServesLocal
<1>2. CASE UpdateAddSubsystem(g)
  <2>1. /\ gw'[g] = [r EXCEPT !.sub = TRUE] /\ local' = local /\ p.addSub
        /\ update'[g] # None /\ update'[g].sub = p.sub /\ update'[g].addSub = FALSE
        /\ update'[g].drop = p.drop /\ update'[g].add = p.add /\ update'[g].ns = p.ns
      BY <1>0, <1>2, NsNoneAssumption DEF UpdateAddSubsystem, Updates
  <2>2. Fits(r) /\ (~r.sub => Bare(r))
      BY <1>0, <2>1 DEF ServesLocal
  <2>3. Fits(gw'[g]) /\ gw'[g].spdk = r.spdk
      BY <1>0, <2>1, <2>2, WithFits
  <2>4. gw'[g].sub
      BY <1>0, <2>1 DEF GatewayStates
  <2>5. p.sub => LeadsThere(update'[g], gw'[g].spdk)
      BY <1>0, <2>1, <2>3 DEF ServesLocal, LeadsThere
  <2> QED BY <1>0, <2>1, <2>3, <2>4, <2>5 DEF ServesLocal
<1>3. CASE UpdateEnd(g)
  <2>1. /\ p.drop = {} /\ p.add = {} /\ gw' = gw /\ update'[g] = None
        /\ local'[g].sub = p.sub /\ local'[g].ns = p.ns
      BY <1>0, <1>3 DEF UpdateEnd
  <2>2. p.sub => r.spdk = p.ns
    <3>1. p.sub => \A i \in Ids : r.spdk[i] = p.ns[i]
        BY <1>0, <2>1 DEF ServesLocal, LeadsThere
    <3>2. r.spdk \in Table /\ p.ns \in Table
        BY <1>0 DEF GatewayStates, Updates
    <3> QED BY <3>1, <3>2 DEF Table
  <2> QED BY <1>0, <2>1, <2>2 DEF ServesLocal
<1> QED BY <1>1, <1>2, <1>3

LEMMA AddServes ==
    ASSUME TypeInv, OrderInv, SubsystemPart, NEW g \in Gateways, UpdateAdd(g),
           ServesLocal(g), "fault" \notin troubles[g]
    PROVE  ServesLocal(g)'
<1> DEFINE r == gw[g]
           p == update[g]
<1>0. /\ gw \in [Gateways -> GatewayStates] /\ r \in GatewayStates
      /\ update \in [Gateways -> Updates \cup {None}] /\ p # None /\ p \in Updates
      /\ UNCHANGED <<exists, local>>
      /\ p.drop = {} /\ ~p.dropSub /\ ~p.addSub
    BY DEF TypeInv, NsTypeOK, UpdateAdd, omapVars
<1>1. PICK i \in p.add :
        /\ update' = [update EXCEPT ![g].add = @ \ {i}]
        /\ gw' = [gw EXCEPT ![g] =
              IF AddRefused(r, p.ns[i]) THEN r
              ELSE IF SpdkRefuses(r, i) THEN ForgetList(r, i)
              ELSE Serve(r, i, p.ns[i])]
    BY DEF UpdateAdd
<1>2. /\ i \in Ids /\ update'[g] \in Updates /\ update'[g] # None
      /\ update'[g].drop = {} /\ update'[g].add = p.add \ {i} /\ update'[g].ns = p.ns
      /\ update'[g].sub = p.sub /\ update'[g].addSub = p.addSub
    BY <1>0, <1>1, NsNoneAssumption DEF Updates
<1>3. r.list = r.spdk /\ r.spdk \in Table /\ Fits(r) /\ p.ns \in Table
    BY <1>0 DEF ServesLocal, Fits, GatewayStates, Updates
<1>4. r.sub <=> p.sub
    BY <1>0 DEF SubsystemPart, SubsystemInv, HasSubsystem
<1>5. p.ns[i] \in Uuids /\ i # 0
    BY <1>0, <1>1, <1>2, <1>3, IdAssumption DEF TypeInv, PlanInv, Used, Table
<1> HIDE DEF r, p
<1>6. CASE ~p.sub
  <2>1. gw'[g] = r
      BY <1>0, <1>1, <1>4, <1>6 DEF AddRefused, r
  <2>2. Fits(gw'[g]) /\ ~gw'[g].sub
      BY <1>3, <1>4, <1>6, <2>1
  <2>3. exists' => Bare(gw'[g])
      BY <1>0, <2>1, <2>2 DEF ServesLocal, r
  <2> QED BY <1>0, <1>2, <1>6, <2>2, <2>3 DEF ServesLocal, p
<1>7. CASE p.sub
  <2>1. LeadsThere(p, r.spdk)
      BY <1>0, <1>7 DEF ServesLocal, p, r
  <2>2. r.spdk[i] = None /\ r.sub /\ r.bdevs = UuidsOf(r.spdk)
      BY <1>0, <1>1, <1>2, <1>3, <1>4, <1>7, <2>1 DEF LeadsThere, Fits
  \* nothing that is there is in its way
  <2>3. p.ns[i] \notin UuidsOf(r.spdk)
    <3>1. SUFFICES ASSUME NEW j \in Ids, r.spdk[j] # None, r.spdk[j] = p.ns[i] PROVE FALSE
        BY DEF UuidsOf, Used
    <3>2. j \notin p.add
        BY <1>0, <2>1, <3>1 DEF LeadsThere
    <3>3. p.ns[j] = p.ns[i] /\ p.ns[j] # None
        BY <1>0, <2>1, <3>1, <3>2 DEF LeadsThere
    <3>4. Injective(p.ns)
        BY <1>0 DEF OrderInv, VersionInv, p
    <3> QED BY <1>1, <1>2, <3>2, <3>3, <3>4 DEF Injective
  <2>4. ~AddRefused(r, p.ns[i]) /\ ~SpdkRefuses(r, i)
    <3>1. Used(r.list) # Ids
        BY <1>2, <1>3, <2>2 DEF Used
    <3>2. i \in IdsFor(r, i)
        BY <1>2, <2>2 DEF IdsFor, FreeIds
    <3> QED BY <2>2, <2>3, <3>1, <3>2 DEF AddRefused, SpdkRefuses
  <2>5. gw'[g] = Serve(r, i, p.ns[i])
      BY <1>0, <1>1, <2>4
  <2>6. Fits(gw'[g]) /\ gw'[g].sub /\ gw'[g].spdk = [r.spdk EXCEPT ![i] = p.ns[i]]
      BY <1>0, <1>2, <1>3, <1>5, <2>2, <2>3, <2>5, ServeFits
  <2>7. LeadsThere(update'[g], gw'[g].spdk)
      BY <1>0, <1>2, <1>3, <2>1, <2>6 DEF LeadsThere, Table
  <2> QED BY <1>2, <2>6, <2>7 DEF ServesLocal
<1> QED BY <1>6, <1>7

\* An add that goes through has found a free ID and no failure.
LEMMA AddMeans ==
    ASSUME TypeInv, OrderInv, SubsystemPart, ServeInv,
           NEW c \in Clients, AddNamespace(c), troubles'[req[c].gw] = {}
    PROVE  \/ UNCHANGED <<omapVars, local, gw>>
           \/ LET g == req[c].gw
                  u == req[c].uuid
              IN  /\ exists /\ gw[g].sub /\ gw[g].spdk = omap /\ u \notin UuidsOf(omap)
                  /\ \E i \in Ids :
                        /\ omap[i] = None
                        /\ gw' = [gw EXCEPT ![g] = Serve(gw[g], i, u)]
                        /\ Write(g, exists, [omap EXCEPT ![i] = u])
<1>g. PICK g \in Gateways : g = req[c].gw
    BY DEF AddNamespace, Locked, NsTypeOK, Requests, TypeInv
<1> DEFINE r == gw[g]
           id == req[c].id
           u == req[c].uuid
<1>0. /\ req[c] \in Requests /\ ~Behind(g) /\ r \in GatewayStates
      /\ troubles \in [Gateways -> SUBSET {"stale", "hidden", "fault"}]
      /\ req[c].op = "add" /\ id \in Ids \cup {0}
    BY <1>g DEF AddNamespace, Locked, NsTypeOK, Requests, TypeInv
<1>1. /\ local[g].ver = version /\ local[g].sub = exists /\ local[g].ns = omap
      /\ update[g] = None
    BY <1>0, CurrentMeans
<1>2. \A more : Trouble(c, more) => troubles[g] = {} /\ more = {} /\ ~Stale(req[c])
    BY <1>0, <1>g DEF Trouble
<1>3. ~Fault(c)
    BY <1>2 DEF Fault
<1>4. troubles[g] = {} /\ ~Stale(req[c])
    BY <1>2, <1>3 DEF AddNamespace, NoFault
<1>5. ServesLocal(g) /\ (r.sub <=> local[g].sub)
    BY <1>1, <1>4 DEF ServeInv, SubsystemPart, SubsystemInv, HasSubsystem
<1>6. r.list = r.spdk /\ r.spdk \in Table
    BY <1>0, <1>5 DEF ServesLocal, Fits, GatewayStates
<1>7. CASE ImageIsUsed(g, u) \/ AddRefused(r, u)
    BY <1>3, <1>7, <1>g DEF AddNamespace
<1>8. CASE ~(ImageIsUsed(g, u) \/ AddRefused(r, u))
  <2>1. ~SpdkRefuses(r, id)
    <3>1. CASE id # 0
      <4>1. id \in Ids /\ r.spdk[id] = None
          BY <1>0, <1>4, <1>6, <1>g, <3>1 DEF Stale
      <4> QED BY <4>1 DEF SpdkRefuses, IdsFor, FreeIds
    <3>2. CASE id = 0
      <4>1. FreeIds(r) # {} /\ FreeIds(r) \in SUBSET Ids
          BY <1>6, <1>8 DEF FreeIds, AddRefused, Used
      <4>2. PICK i \in FreeIds(r) : \A j \in FreeIds(r) : i <= j
          BY <4>1, LeastId
      <4> QED BY <3>2, <4>2 DEF SpdkRefuses, IdsFor
    <3> QED BY <3>1, <3>2
  <2>2. PICK i \in IdsFor(r, id) :
            gw' = [gw EXCEPT ![g] = Serve(gw[g], i, u)] /\ Write(g, exists, [omap EXCEPT ![i] = u])
      BY <1>3, <1>8, <2>1, <1>g DEF AddNamespace
  <2>3. i \in Ids /\ r.spdk[i] = None
      BY DEF IdsFor, FreeIds
  <2>4. r.sub /\ exists /\ r.spdk = omap
      BY <1>1, <1>5, <1>8 DEF AddRefused, ServesLocal
  <2>5. u \notin UuidsOf(omap)
      BY <1>1, <1>8 DEF ImageIsUsed
  <2> QED BY <1>g, <2>2, <2>3, <2>4, <2>5
<1> QED BY <1>7, <1>8

LEMMA LockedStepServes ==
    ASSUME TypeInv, OrderInv, SubsystemPart, ServeInv, NEW c \in Clients,
           AddNamespace(c) \/ DeleteNamespace(c) \/ DeleteSubsystem(c)
    PROVE  ServeInv'
<1>g. PICK g \in Gateways : g = req[c].gw
    BY DEF AddNamespace, DeleteNamespace, DeleteSubsystem, Locked, NsTypeOK, Requests, TypeInv
<1> DEFINE r == gw[g]
           id == req[c].id
           u == req[c].uuid
<1>0. /\ req[c] \in Requests /\ req[c] # None /\ ~Behind(g)
      /\ gw \in [Gateways -> GatewayStates] /\ r \in GatewayStates /\ r.spdk \in Table
      /\ local \in [Gateways -> LocalStates] /\ omap \in Table /\ exists \in BOOLEAN
      /\ troubles \in [Gateways -> SUBSET {"stale", "hidden", "fault"}]
    BY <1>g DEF AddNamespace, DeleteNamespace, DeleteSubsystem, Locked, NsTypeOK, Requests,
                TypeInv, GatewayStates
<1>1. /\ local[g].ver = version /\ local[g].sub = exists /\ local[g].ns = omap
      /\ update[g] = None /\ update' = update
    BY <1>0, CurrentMeans DEF AddNamespace, DeleteNamespace, DeleteSubsystem
<1>2. OthersStay(g)
    BY <1>0, <1>g, StepsAreLocal
<1>3. exists' => exists
    BY <1>0 DEF AddNamespace, DeleteNamespace, DeleteSubsystem, Write, omapVars
<1>4. SUFFICES ASSUME troubles'[g] = {} PROVE ServesLocal(g)'
    BY <1>2, <1>3, OthersServe
<1>5. \A more : Trouble(c, more) => troubles[g] = {} /\ more = {} /\ ~Stale(req[c])
    BY <1>0, <1>4, <1>g DEF Trouble
<1>6. ~Fault(c)
    BY <1>5 DEF Fault
<1>7. troubles[g] = {} /\ ~Stale(req[c])
    BY <1>5, <1>6 DEF AddNamespace, DeleteNamespace, DeleteSubsystem, NoFault
<1>8. ServesLocal(g) /\ (r.sub <=> local[g].sub) /\ Fits(r) /\ r.list = r.spdk
    BY <1>1, <1>7 DEF ServeInv, SubsystemPart, SubsystemInv, HasSubsystem, ServesLocal, Fits
\* what is left to show of a gateway that is up to date
<1>9. ASSUME Fits(gw'[g]), gw'[g].sub \/ (gw'[g] = r /\ exists' = exists) \/ ~exists',
             local'[g].sub => gw'[g].spdk = local'[g].ns
      PROVE  ServesLocal(g)'
    BY <1>1, <1>8, <1>9 DEF ServesLocal
<1> HIDE DEF r, id, u
<1>10. CASE AddNamespace(c)
  <2>1. CASE UNCHANGED <<omapVars, local, gw>>
      BY <1>1, <1>8, <1>9, <2>1 DEF ServesLocal, omapVars, r
  <2>2. CASE ~UNCHANGED <<omapVars, local, gw>>
    <3>1. /\ exists /\ r.sub /\ r.spdk = omap /\ u \notin UuidsOf(omap)
          /\ \E i \in Ids :
                /\ omap[i] = None
                /\ gw' = [gw EXCEPT ![g] = Serve(r, i, u)]
                /\ Write(g, exists, [omap EXCEPT ![i] = u])
        BY <1>10, <1>4, <1>g, <2>2, AddMeans DEF r, u
    <3>2. PICK i \in Ids : /\ omap[i] = None
                           /\ gw' = [gw EXCEPT ![g] = Serve(r, i, u)]
                           /\ Write(g, exists, [omap EXCEPT ![i] = u])
        BY <3>1
    <3>3. u \in Uuids
        BY <1>10, <1>0 DEF AddNamespace, Requests, u
    <3>4. gw'[g] = Serve(r, i, u) /\ local'[g].ns = [omap EXCEPT ![i] = u]
        BY <1>0, <3>2 DEF Write
    <3>5. Fits(Serve(r, i, u)) /\ Serve(r, i, u).sub /\ Serve(r, i, u).spdk = [omap EXCEPT ![i] = u]
      <4>1. r.spdk[i] = None /\ u \notin UuidsOf(r.spdk) /\ r.sub
          BY <3>1, <3>2
      <4>2. /\ Fits(Serve(r, i, u)) /\ Serve(r, i, u).sub
            /\ Serve(r, i, u).spdk = [r.spdk EXCEPT ![i] = u]
          BY <1>0, <1>8, <3>3, <4>1, ServeFits
      <4> QED BY <3>1, <4>2
    <3> QED BY <1>9, <3>4, <3>5
  <2> QED BY <2>1, <2>2
<1>11. CASE DeleteNamespace(c)
  <2>1. id \in Ids /\ r.list[id] = u
      BY <1>0, <1>7, <1>11, <1>g DEF DeleteNamespace, Deleting, Locked, Requests, Stale, r, id, u
  <2>2. CASE RemoveErrs(r, id)
    <3>1. r.spdk[id] = None /\ AfterRemoveErr(r, id) = r
        BY <1>8, <2>2 DEF RemoveErrs, AfterRemoveErr
    <3>2. gw'[g] = r /\ UNCHANGED <<omapVars, local>>
        BY <1>0, <1>11, <1>g, <2>2, <3>1 DEF DeleteNamespace, r, id
    <3>3. local[g].sub => r.spdk = local[g].ns
        BY <1>1, <1>8 DEF ServesLocal, r
    <3> QED BY <1>8, <1>9, <3>2, <3>3 DEF omapVars
  <2>3. CASE ~RemoveErrs(r, id)
    <3>1. gw'[g] = Removed(r, id, u) /\ Write(g, exists, [omap EXCEPT ![id] = None])
        BY <1>0, <1>6, <1>11, <1>g, <2>3 DEF DeleteNamespace, r, id, u
    <3>2. r.spdk[id] # None /\ u = r.spdk[id]
        BY <1>8, <2>1, <2>3 DEF RemoveErrs
    <3>3. Fits(gw'[g]) /\ gw'[g].sub /\ gw'[g].spdk = [r.spdk EXCEPT ![id] = None]
        BY <1>0, <1>8, <2>1, <3>1, <3>2, RemovedFits
    <3>4. r.sub
        BY <1>8, <2>1, <3>2 DEF Fits, EmptyTable
    <3>5. r.spdk = omap
        BY <1>1, <1>8, <3>4 DEF ServesLocal, r
    <3>6. local'[g].ns = [omap EXCEPT ![id] = None]
        BY <1>0, <3>1 DEF Write
    <3> QED BY <1>9, <3>3, <3>5, <3>6
  <2> QED BY <2>2, <2>3
<1>12. CASE DeleteSubsystem(c)
  <2>1. gw'[g] = WithoutSubsystem(r) /\ Write(g, FALSE, EmptyTable)
      BY <1>0, <1>6, <1>12, <1>g DEF DeleteSubsystem, r
  <2>2. Fits(gw'[g]) /\ ~exists' /\ local'[g].sub = FALSE
      BY <1>0, <2>1, WithoutFits DEF Write
  <2> QED BY <1>9, <2>2
<1> QED BY <1>10, <1>11, <1>12

LEMMA ServeStep ==
    TypeInv /\ OrderInv /\ SubsystemPart /\ ServeInv /\ [NsNext]_nsVars => ServeInv'
<1> SUFFICES ASSUME TypeInv, OrderInv, SubsystemPart, ServeInv, [NsNext]_nsVars
             PROVE  ServeInv'
    OBVIOUS
<1>1. ASSUME UNCHANGED <<omapVars, local, gw, update, troubles>>
      PROVE  ServeInv'
  <2> SUFFICES ASSUME NEW g \in Gateways, troubles'[g] = {}
               PROVE  ServesLocal(g)'
      BY DEF ServeInv
  <2>1. ServesLocal(g)
      BY <1>1 DEF ServeInv
  <2>2. /\ Fits(gw'[g]) /\ (Bare(gw[g]) => Bare(gw'[g]))
        /\ LeadsThere(update[g], gw[g].spdk) => LeadsThere(update'[g], gw'[g].spdk)
      BY <1>1, <2>1 DEF ServesLocal
  <2> QED BY <1>1, <2>1, <2>2 DEF ServesLocal, omapVars
<1>2. ASSUME NEW c \in Clients, Ask(c) \/ Check(c) \/ Retry(c)
      PROVE  ServeInv'
    BY <1>1, <1>2 DEF Ask, Check, Retry
<1>3. ASSUME NEW c \in Clients,
             AddNamespace(c) \/ DeleteNamespace(c) \/ DeleteSubsystem(c)
      PROVE  ServeInv'
    BY <1>3, LockedStepServes
<1>4. ASSUME NEW g \in Gateways, UpdateStep(g)
      PROVE  ServeInv'
  <2>1. OthersStay(g) /\ exists' = exists
      BY <1>4, StepsAreLocal DEF UpdateStep, StartUpdate, UpdateDelete, UpdateDropSubsystem,
                                 UpdateAddSubsystem, UpdateAdd, UpdateEnd, omapVars
  <2>2. troubles'[g] = {} => troubles[g] = {}
      BY <1>4 DEF UpdateStep, StartUpdate, UpdateDelete, UpdateDropSubsystem, UpdateAddSubsystem,
                  UpdateAdd, UpdateEnd, TypeInv, NsTypeOK
  <2>3. ASSUME troubles'[g] = {}
        PROVE  ServesLocal(g)'
    <3>1. ServesLocal(g) /\ "fault" \notin troubles[g]
        BY <2>2, <2>3 DEF ServeInv
    <3> QED BY <1>4, <2>3, <3>1, StartServes, DeleteServes, SubsystemServes, AddServes
            DEF UpdateStep
  <2> QED BY <2>1, <2>3, OthersServe
<1>5. ASSUME NEW g \in Gateways, Crash(g)
      PROVE  ServeInv'
  <2>1. OthersStay(g) /\ exists' = exists
      BY <1>5, StepsAreLocal DEF Crash, omapVars
  <2>2. gw'[g] = NewGateway /\ local'[g].sub = FALSE /\ update'[g] = None
      BY <1>5 DEF Crash, TypeInv, NsTypeOK
  <2>3. ServesLocal(g)'
      BY <2>2, NewFits DEF ServesLocal
  <2> QED BY <2>1, <2>3, OthersServe
<1>6. CASE UNCHANGED nsVars
    BY <1>1, <1>6 DEF nsVars
<1> QED BY <1>2, <1>3, <1>4, <1>5, <1>6 DEF NsNext

LEMMA InitServes == NsInit => ServeInv
<1> SUFFICES ASSUME NsInit, NEW g \in Gateways PROVE ServesLocal(g)
    BY DEF ServeInv
<1>1. gw[g].sub /\ local[g].ns = EmptyTable /\ update[g] = None
    BY DEF NsInit, NewGateway
<1>2. /\ gw[g].list = EmptyTable /\ gw[g].spdk = EmptyTable
      /\ gw[g].bdevs = {} /\ gw[g].load = 0
    BY DEF NsInit, NewGateway
<1>3. Fits(gw[g])
    BY <1>1, <1>2, EmptyTableFacts DEF Fits
<1> QED BY <1>1, <1>2, <1>3 DEF ServesLocal

(***************************************************************************)
(* The whole invariant, and what it says of the gateways                   *)
(***************************************************************************)
NsInv == TypeInv /\ OrderInv /\ SubsystemPart /\ ServeInv

\* Everything the proofs rest on is an invariant of the namespaces' calls.
THEOREM NsInvariant == NsSpec => []NsInv
<1>1. NsInit => NsInv
    BY InitType, InitOrder, InitSubsystem, InitServes DEF NsInv
<1>2. NsInv /\ [NsNext]_nsVars => NsInv'
    BY TypeStep, OrderStep, SubsystemStep, ServeStep DEF NsInv
<1> QED BY <1>1, <1>2, PTL DEF NsSpec

\* When nothing is under way, every gateway without trouble serves exactly the
\* namespaces of the OMAP, whatever the order of requests, updates, failures
\* and restarts was (update(), namespace_add, namespace_delete).
THEOREM GatewaysServeTheOmap == NsSpec => []GatewaysAgreeAtRest
<1>1. NsInv => GatewaysAgreeAtRest
  <2> SUFFICES ASSUME NsInv, AtRest, NEW g \in Gateways, troubles[g] = {}
               PROVE  /\ gw[g].sub = exists
                      /\ gw[g].spdk = (IF exists THEN omap ELSE EmptyTable)
                      /\ gw[g].list = gw[g].spdk
                      /\ exists => gw[g].bdevs = UuidsOf(omap)
                                   /\ gw[g].load = Cardinality(Used(omap))
      BY DEF GatewaysAgreeAtRest
  <2>1. local[g].sub = exists /\ local[g].ns = omap /\ update[g] = None
      BY CurrentMeans DEF AtRest, NsInv
  <2>2. gw[g].sub <=> exists
      BY <2>1 DEF NsInv, SubsystemPart, SubsystemInv, HasSubsystem
  <2>3. gw[g].sub \in BOOLEAN /\ exists \in BOOLEAN
      BY DEF NsInv, TypeInv, NsTypeOK, GatewayStates
  <2>4. ServesLocal(g)
      BY DEF NsInv, ServeInv
  <2>5. gw[g].sub = exists
      BY <2>2, <2>3
  <2>6. CASE exists
      BY <2>1, <2>2, <2>4, <2>5, <2>6 DEF ServesLocal, Fits
  <2>7. CASE ~exists
      BY <2>1, <2>2, <2>4, <2>5, <2>7 DEF ServesLocal, Fits
  <2> QED BY <2>6, <2>7
<1> QED BY <1>1, NsInvariant, PTL

\* A namespace_add never takes the ID of another namespace away, although it
\* has checked the ID before it waited for the lock (namespace_add_safe).
THEOREM AddsNeverReplace == NsSpec => AddNeverReplaces
<1>1. NsInv /\ [NsNext]_nsVars =>
        [\A c \in Clients :
            AddNamespace(c) /\ troubles'[req[c].gw] = {} =>
                \A i \in Used(omap) : omap'[i] = omap[i]]_nsVars
  <2> SUFFICES ASSUME NsInv, NEW c \in Clients, AddNamespace(c), troubles'[req[c].gw] = {},
                      NEW i \in Used(omap)
               PROVE  omap'[i] = omap[i]
      OBVIOUS
  <2>1. \/ UNCHANGED <<omapVars, local, gw>>
        \/ \E j \in Ids : omap[j] = None /\ omap' = [omap EXCEPT ![j] = req[c].uuid]
      BY AddMeans DEF NsInv, Write
  <2>2. omap \in Table
      BY DEF NsInv, TypeInv, NsTypeOK
  <2> QED BY <2>1, <2>2 DEF Used, Table, omapVars
<1> QED BY <1>1, NsInvariant, PTL DEF NsSpec, AddNeverReplaces

=============================================================================

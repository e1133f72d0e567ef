-------------------------- MODULE ListenersProofs --------------------------
(***************************************************************************)
(* Proofs about Listeners for every set of gateways, clients, addresses,   *)
(* ANA groups and requests, and every number of faults and crashes.        *)
(***************************************************************************)
EXTENDS Listeners, TLAPS

(***************************************************************************)
(* Type correctness                                                        *)
(***************************************************************************)
LEMMA EmptyContentType == EmptyContent \in Contents
  BY DEF EmptyContent, Contents, NoListeners

LEMMA NewGatewayType == NewGateway \in GatewayStates
  BY DEF NewGateway, GatewayStates, NoListeners

LEMMA FirstAnaType ==
    ASSUME NEW r \in GatewayStates
    PROVE  FirstAna(r) \in [Groups -> AnaStates]
  BY DEF FirstAna, AnaStates

\* What the calls make of a gateway is a gateway.
LEMMA EffectTypes ==
    ASSUME NEW r \in GatewayStates
    PROVE  /\ \A inst \in Insts : Created(r, inst) \in GatewayStates
           /\ Deleted(r) \in GatewayStates
           /\ \A any \in BOOLEAN : [r EXCEPT !.any = any] \in GatewayStates
           /\ \A a \in Addrs, secure \in BOOLEAN :
                 /\ Stashed(r, a, secure) \in GatewayStates
                 /\ \A ana \in [Groups -> AnaStates] :
                       Listening(r, a, secure, ana) \in GatewayStates
           /\ \A a \in Addrs : /\ Unset(r, a) \in GatewayStates
                               /\ Unlisted(r, a) \in GatewayStates
                               /\ Removed(r, a) \in GatewayStates
           /\ \A said \in [Groups -> AnaStates] :
                 /\ Told(r, said) \in GatewayStates
                 /\ \A at \in SUBSET Addrs, awaited \in BOOLEAN :
                       Set(r, said, at, awaited) \in GatewayStates
  <1>1. \A inst \in Insts : Created(r, inst) \in GatewayStates
    BY DEF Created, GatewayStates
  <1>2. Deleted(r) \in GatewayStates
    BY DEF Deleted, GatewayStates, NoListeners
  <1>3. \A any \in BOOLEAN : [r EXCEPT !.any = any] \in GatewayStates
    BY DEF GatewayStates
  <1>4. ASSUME NEW a \in Addrs, NEW secure \in BOOLEAN
        PROVE  /\ Stashed(r, a, secure) \in GatewayStates
               /\ \A ana \in [Groups -> AnaStates] :
                       Listening(r, a, secure, ana) \in GatewayStates
    <2>0. \A active \in BOOLEAN :
              r.list \cup {[addr |-> a, secure |-> secure, active |-> active]} \in
                  SUBSET [addr : Addrs, secure : BOOLEAN, active : BOOLEAN]
      <3>1. r.list \in SUBSET [addr : Addrs, secure : BOOLEAN, active : BOOLEAN]
        BY DEF GatewayStates
      <3>2. ASSUME NEW active \in BOOLEAN
            PROVE  [addr |-> a, secure |-> secure, active |-> active] \in
                       [addr : Addrs, secure : BOOLEAN, active : BOOLEAN]
        OBVIOUS
      <3> QED
        BY <3>1, <3>2
    <2>1. Stashed(r, a, secure) \in GatewayStates
      BY <2>0 DEF Stashed, GatewayStates
    <2>2. ASSUME NEW ana \in [Groups -> AnaStates]
          PROVE  Listening(r, a, secure, ana) \in GatewayStates
      <3> DEFINE sec == IF secure THEN r.secure \cup {a} ELSE r.secure \ {a}
      <3>1. [r.spdk EXCEPT ![a] = ana] \in [Addrs -> [Groups -> AnaStates] \cup {None}]
        BY DEF GatewayStates
      <3>2. Listening(r, a, secure, ana) =
                [r EXCEPT !.list = r.list \cup {[addr |-> a, secure |-> secure, active |-> TRUE]},
                          !.spdk = [r.spdk EXCEPT ![a] = ana],
                          !.secure = sec]
        BY DEF Listening, GatewayStates
      <3>3. sec \in SUBSET Addrs
        BY DEF GatewayStates
      <3> HIDE DEF sec
      <3> QED
        BY <2>0, <3>1, <3>2, <3>3 DEF GatewayStates
    <2> QED
      BY <2>1, <2>2
  <1>5. ASSUME NEW a \in Addrs
        PROVE  /\ Unset(r, a) \in GatewayStates
               /\ Unlisted(r, a) \in GatewayStates
               /\ Removed(r, a) \in GatewayStates
    <2>1. Unset(r, a) \in GatewayStates
      BY DEF Unset, GatewayStates
    <2>2. Unlisted(r, a) \in GatewayStates
      BY DEF Unlisted, AtAddr, GatewayStates
    <2>3. Silent(r, a) \in GatewayStates
      BY DEF Silent, AtAddr, GatewayStates
    <2> QED
      BY <2>1, <2>2, <2>3 DEF Removed
  <1>6. ASSUME NEW said \in [Groups -> AnaStates]
        PROVE  /\ Told(r, said) \in GatewayStates
               /\ \A at \in SUBSET Addrs, awaited \in BOOLEAN :
                       Set(r, said, at, awaited) \in GatewayStates
    BY DEF Told, Set, GatewayStates
  <1> QED
    BY <1>1, <1>2, <1>3, <1>4, <1>5, <1>6

\* So is what an ANA call that fails leaves.
LEMMA StoppedType ==
    ASSUME NEW r \in GatewayStates, NEW said \in [Groups -> AnaStates],
           NEW at \in SUBSET Addrs, NEW left \in SUBSET Addrs,
           NEW b \in Addrs, r.spdk[b] # None,
           NEW part \in SUBSET Groups, NEW awaited \in BOOLEAN
    PROVE  Stopped(r, said, at, left, b, part, awaited) \in GatewayStates
  <1> DEFINE n == Set(r, said, at, awaited)
             ana == [p \in Groups |-> IF p \in part THEN said[p] ELSE r.spdk[b][p]]
  <1>1. n \in GatewayStates
    BY EffectTypes
  <1>2. ana \in [Groups -> AnaStates]
    BY DEF GatewayStates
  <1>3. Stopped(r, said, at, left, b, part, awaited) =
            [n EXCEPT !.spdk = [n.spdk EXCEPT ![b] = ana], !.missed = n.missed \cup left]
    BY <1>1 DEF Stopped, GatewayStates
  <1> HIDE DEF n, ana
  <1>4. [n.spdk EXCEPT ![b] = ana] \in [Addrs -> [Groups -> AnaStates] \cup {None}]
    BY <1>1, <1>2 DEF GatewayStates
  <1>5. n.missed \cup left \in SUBSET Addrs
    BY <1>1 DEF GatewayStates
  <1> QED
    BY <1>1, <1>3, <1>4, <1>5 DEF GatewayStates

\* So is what a process that starts with the OMAP of another run makes of it.
LEMMA ServingType ==
    ASSUME NEW g \in Gateways, NEW st \in Contents
    PROVE  Serving(g, st) \in GatewayStates
  <1>1. FirstAna(NewGateway) \in [Groups -> AnaStates]
    BY NewGatewayType, FirstAnaType
  <1> DEFINE at == {a \in Addrs : st.lst[g][a] # None}
             list == {[addr |-> a, secure |-> st.lst[g][a], active |-> TRUE] : a \in at}
             spdk == [a \in Addrs |-> IF a \in at THEN FirstAna(NewGateway) ELSE None]
             sec == {a \in at : st.lst[g][a]}
  <1>2. list \in SUBSET [addr : Addrs, secure : BOOLEAN, active : BOOLEAN]
    <2>1. \A a \in at : a \in Addrs /\ st.lst[g][a] \in BOOLEAN
      BY DEF Contents
    <2>2. \A a \in at : [addr |-> a, secure |-> st.lst[g][a], active |-> TRUE] \in
                            [addr : Addrs, secure : BOOLEAN, active : BOOLEAN]
      BY <2>1
    <2> QED
      BY <2>2
  <1>3. spdk \in [Addrs -> [Groups -> AnaStates] \cup {None}]
    BY <1>1
  <1>4. st.sub \in Insts \cup {None} /\ st.any \in BOOLEAN
    BY DEF Contents
  <1>5. Serving(g, st) = [NewGateway EXCEPT !.sub = st.sub, !.any = st.any,
                                            !.list = list, !.spdk = spdk, !.secure = sec]
    BY DEF Serving
  <1>6. sec \in SUBSET Addrs
    OBVIOUS
  <1> HIDE DEF list, spdk, sec
  <1> QED
    BY <1>2, <1>3, <1>4, <1>5, <1>6, NewGatewayType DEF GatewayStates

\* The answer to a request leaves the others.
LEMMA AnswerType ==
    ASSUME ListenerTypeOK, NEW c \in Clients, Answer(c)
    PROVE  req' \in [Clients -> Requests \cup {None}]
  BY DEF ListenerTypeOK, Answer

\* A write keeps the types when what it writes has one.
LEMMA WriteType ==
    ASSUME ListenerTypeOK, NEW g \in Gateways, NEW new \in Contents, NEW adds, Write(g, new, adds)
    PROVE  /\ omap' \in Contents /\ version' \in Nat
           /\ local' \in [Gateways -> [ver : Nat, st : Contents]]
  BY DEF ListenerTypeOK, Write

LEMMA SucceedsType ==
    ASSUME ListenerTypeOK, NEW c \in Clients, req[c] \in Requests,
           NEW mixed \in BOOLEAN, NEW r \in GatewayStates, NEW new \in Contents,
           Succeeds(c, mixed, r, new)
    PROVE  ListenerTypeOK'
  <1>1. req[c].gw \in Gateways
    BY DEF Requests
  <1>2. Write(req[c].gw, new, Adds(req[c])) /\ Answer(c)
    BY DEF Succeeds
  <1>3. /\ gw' = [gw EXCEPT ![req[c].gw] = r]
        /\ troubled' \in [Gateways -> BOOLEAN]
        /\ outdated' \in BOOLEAN
        /\ UNCHANGED <<update, budgetVars>>
    BY DEF Succeeds, ListenerTypeOK, Outdated, Refused, NoListening, NoOpening, HasSecure
  <1> QED
    BY <1>1, <1>2, <1>3, WriteType, AnswerType DEF ListenerTypeOK, budgetVars

LEMMA BreaksType ==
    ASSUME ListenerTypeOK, NEW c \in Clients, req[c] \in Requests,
           NEW left \in SUBSET GatewayStates, NEW new \in Contents,
           Breaks(c, left, new)
    PROVE  ListenerTypeOK'
  <1>1. req[c].gw \in Gateways
    BY DEF Requests
  <1>2. Write(req[c].gw, new, FALSE) /\ Answer(c)
    BY DEF Breaks
  <1>3. /\ \E r \in left : gw' = [gw EXCEPT ![req[c].gw] = r]
        /\ troubled' \in [Gateways -> BOOLEAN]
        /\ outdated' \in BOOLEAN
        /\ faults' = faults + 1
        /\ UNCHANGED <<update, requests, anas, crashes>>
    BY DEF Breaks, ListenerTypeOK, Outdated, Refused, NoListening, NoOpening, HasSecure
  <1> QED
    <2>1. gw' \in [Gateways -> GatewayStates]
      BY <1>1, <1>3 DEF ListenerTypeOK
    <2>2. faults' \in Nat
      BY <1>3 DEF ListenerTypeOK
    <2> QED
      BY <1>1, <1>2, <1>3, <2>1, <2>2, WriteType, AnswerType DEF ListenerTypeOK

LEMMA FailsType ==
    ASSUME ListenerTypeOK, NEW c \in Clients, Fails(c)
    PROVE  ListenerTypeOK'
  BY AnswerType DEF ListenerTypeOK, Fails, omapVars, budgetVars, historyVars

\* the asks with their fields
LEMMA AskFields ==
    ASSUME NEW ask \in AllAsks
    PROVE  /\ ask.op = "listen" => /\ ask.host \in Gateways /\ ask.addr \in Addrs
                                   /\ ask.secure \in BOOLEAN /\ ask.verify \in BOOLEAN
           /\ ask.op = "unlisten" => /\ ask.host \in Gateways \cup {Star}
                                     /\ ask.addr \in Addrs /\ ask.force \in BOOLEAN
  BY DEF AllAsks

\* The plan of an update is made of addresses and calls.
LEMMA PlanType ==
    ASSUME NEW g \in Gateways, NEW old \in Contents, NEW new \in Contents
    PROVE  /\ Plan(g, old, new).dellst \in SUBSET Addrs
           /\ Plan(g, old, new).addlst \in SUBSET Addrs
           /\ Plan(g, old, new).delany \in Calls /\ Plan(g, old, new).drop \in Calls
           /\ Plan(g, old, new).add \in Calls /\ Plan(g, old, new).addany \in Calls
  <1>1. CallIf(TRUE) \in Calls /\ CallIf(FALSE) \in Calls
    BY DEF CallIf, Calls
  <1> QED
    BY <1>1 DEF Plan, CallIf

\* What a request removes from the OMAP leaves a content.
LEMMA WithoutListenerType ==
    ASSUME NEW st \in Contents, NEW host \in Gateways \cup {Star}, NEW a \in Addrs
    PROVE  WithoutListener(st, host, a) \in Contents
  <1> DEFINE lst == [g \in Gateways |->
                        IF host \in {g, Star} THEN [st.lst[g] EXCEPT ![a] = None] ELSE st.lst[g]]
  <1>1. lst \in [Gateways -> [Addrs -> BOOLEAN \cup {None}]]
    BY DEF Contents
  <1>2. [st EXCEPT !.lst = lst] \in Contents
    BY <1>1 DEF Contents
  <1> QED
    BY <1>2 DEF WithoutListener

\* The requests that hold the OMAP lock.
LEMMA LockedRequestType ==
    ASSUME ListenerTypeOK, NEW c \in Clients, req[c] # None
    PROVE  /\ req[c] \in Requests
           /\ req[c].gw \in Gateways /\ req[c].inst \in Insts /\ req[c].ask \in AllAsks
           /\ gw[req[c].gw] \in GatewayStates
           /\ local[req[c].gw].st \in Contents
  BY DEF ListenerTypeOK, Requests

LEMMA RequestType ==
    ASSUME ListenerTypeOK, NEW c \in Clients,
           CreateSubsystem(c) \/ DeleteSubsystem(c) \/ OpenToAny(c) \/ CloseToAny(c)
           \/ CreateListener(c) \/ DeleteListener(c)
    PROVE  ListenerTypeOK'
  <1> DEFINE q == req[c]
             g == q.gw
             r == gw[g]
  <1>1. req[c] # None
    BY DEF CreateSubsystem, DeleteSubsystem, OpenToAny, CloseToAny, CreateListener,
       DeleteListener, Locked
  <1>2. /\ q \in Requests /\ g \in Gateways /\ q.inst \in Insts /\ q.ask \in AllAsks
        /\ r \in GatewayStates /\ omap \in Contents
    BY <1>1, LockedRequestType DEF ListenerTypeOK
  <1> HIDE DEF q, g, r
  <1>3. CASE CreateSubsystem(c)
    <2>1. Created(r, q.inst) \in GatewayStates
      BY <1>2, EffectTypes
    <2>2. [omap EXCEPT !.sub = q.inst] \in Contents
      BY <1>2 DEF Contents
    <2> QED
      BY <1>2, <1>3, <2>1, <2>2, SucceedsType, BreaksType, FailsType DEF CreateSubsystem, q, g, r
  <1>4. CASE DeleteSubsystem(c)
    <2>1. /\ Deleted(r) \in GatewayStates
          /\ {r} \in SUBSET GatewayStates /\ {Deleted(r)} \in SUBSET GatewayStates
      BY <1>2, EffectTypes
    <2>2. \/ Succeeds(c, FALSE, r, EmptyContent) \/ Succeeds(c, FALSE, Deleted(r), EmptyContent)
          \/ Breaks(c, {r}, EmptyContent) \/ Breaks(c, {Deleted(r)}, omap)
      BY <1>4 DEF DeleteSubsystem, q, g, r
    <2> QED
      BY <1>2, <2>1, <2>2, EmptyContentType, SucceedsType, BreaksType DEF q
  <1>5. CASE OpenToAny(c)
    <2>1. [r EXCEPT !.any = TRUE] \in GatewayStates
      BY <1>2, EffectTypes
    <2>2. [omap EXCEPT !.any = TRUE] \in Contents
      BY <1>2 DEF Contents
    <2> QED
      BY <1>2, <1>5, <2>1, <2>2, SucceedsType, BreaksType, FailsType DEF OpenToAny, q, g, r
  <1>6. CASE CloseToAny(c)
    <2> DEFINE after == [r EXCEPT !.any = FALSE]
               new == [omap EXCEPT !.any = FALSE]
    <2>1. /\ after \in GatewayStates
          /\ {r} \in SUBSET GatewayStates /\ {after} \in SUBSET GatewayStates
      BY <1>2, EffectTypes
    <2>2. new \in Contents
      BY <1>2 DEF Contents
    <2>3. \/ Succeeds(c, FALSE, r, new) \/ Succeeds(c, FALSE, after, new)
          \/ Breaks(c, {r}, new) \/ Breaks(c, {after}, omap)
      BY <1>6 DEF CloseToAny, q, g, r
    <2> HIDE DEF after, new
    <2> QED
      BY <1>2, <2>1, <2>2, <2>3, SucceedsType, BreaksType DEF q
  <1>7. CASE CreateListener(c)
    <2>1. q.ask.host \in Gateways /\ q.ask.addr \in Addrs /\ q.ask.secure \in BOOLEAN
      BY <1>2, <1>7, AskFields DEF CreateListener, Locked, q
    <2>2. FirstAna(r) \in [Groups -> AnaStates]
      BY <1>2, FirstAnaType
    <2>3. ASSUME NEW ana \in [Groups -> AnaStates]
          PROVE  Listening(r, q.ask.addr, q.ask.secure, ana) \in GatewayStates
      BY <1>2, <2>1, EffectTypes
    <2>4. Stashed(r, q.ask.addr, q.ask.secure) \in GatewayStates
      BY <1>2, <2>1, EffectTypes
    <2>5. [omap EXCEPT !.lst[q.ask.host][q.ask.addr] = q.ask.secure] \in Contents
      BY <1>2, <2>1 DEF Contents
    <2>6. ASSUME NEW set \in SUBSET Groups
          PROVE  [p \in Groups |-> IF p \in set THEN FirstAna(r)[p] ELSE "inaccessible"]
                     \in [Groups -> AnaStates]
      BY <2>2 DEF AnaStates
    <2>7. [p \in Groups |-> "optimized"] \in [Groups -> AnaStates]
      BY DEF AnaStates
    <2> DEFINE begun == {[p \in Groups |-> IF p \in set THEN FirstAna(r)[p] ELSE "inaccessible"]
                         : set \in SUBSET Groups} \cup {[p \in Groups |-> "optimized"]}
               broken == {Unset(Listening(r, q.ask.addr, q.ask.secure, ana), q.ask.addr)
                          : ana \in begun}
               new == [omap EXCEPT !.lst[q.ask.host][q.ask.addr] = q.ask.secure]
               after == Listening(r, q.ask.addr, q.ask.secure, FirstAna(r))
               stashed == Stashed(r, q.ask.addr, q.ask.secure)
    <2>8. begun \in SUBSET [Groups -> AnaStates]
      BY <2>6, <2>7
    <2> HIDE DEF begun
    <2>9. after \in GatewayStates
      BY SMTT(30), <2>2, <2>3
    <2>10. broken \in SUBSET GatewayStates
      <3>1. ASSUME NEW ana \in begun
            PROVE  Unset(Listening(r, q.ask.addr, q.ask.secure, ana), q.ask.addr) \in GatewayStates
        BY <2>1, <2>3, <2>8, EffectTypes
      <3> QED
        BY <3>1
    <2> HIDE DEF broken, after
    <2>11. {r, after} \cup broken \in SUBSET GatewayStates /\ {stashed} \in SUBSET GatewayStates
      BY <1>2, <2>4, <2>9, <2>10
    <2>12. \/ Fails(c)
           \/ Succeeds(c, FALSE, after, new)
           \/ Breaks(c, {r, after} \cup broken, omap)
           \/ Succeeds(c, FALSE, stashed, new)
           \/ Breaks(c, {stashed}, omap)
      BY <1>7 DEF CreateListener, q, g, r, broken, begun, after
    <2> HIDE DEF new, stashed
    <2> QED
      BY <1>2, <2>4, <2>5, <2>9, <2>11, <2>12, SucceedsType, BreaksType, FailsType
      DEF q, new, stashed
  <1>8. CASE DeleteListener(c)
    <2>1. q.ask.host \in Gateways \cup {Star} /\ q.ask.addr \in Addrs
      BY <1>2, <1>8, AskFields DEF DeleteListener, Locked, q
    <2>2. WithoutListener(omap, q.ask.host, q.ask.addr) \in Contents
      BY <1>2, <2>1, WithoutListenerType
    <2> DEFINE after == Removed(r, q.ask.addr)
               unlisted == Unlisted(r, q.ask.addr)
               new == WithoutListener(omap, q.ask.host, q.ask.addr)
    <2>3. /\ after \in GatewayStates /\ {after} \in SUBSET GatewayStates
          /\ {r, unlisted} \in SUBSET GatewayStates
      BY <1>2, <2>1, EffectTypes
    <2>4. \/ Fails(c)
          \/ \E mixed \in BOOLEAN : Succeeds(c, mixed, after, new)
          \/ Breaks(c, {r, unlisted}, new)
          \/ Breaks(c, {after}, omap)
      BY <1>8 DEF DeleteListener, q, g, r, IsActive, Stays, FindsActive
    <2> HIDE DEF after, unlisted, new
    <2> QED
      BY <1>2, <2>2, <2>3, <2>4, SucceedsType, BreaksType, FailsType DEF q, new
  <1> QED
    BY <1>3, <1>4, <1>5, <1>6, <1>7, <1>8

\* An update adds only listeners the OMAP it has read has an entry of.
PlannedInv ==
    \A g \in Gateways : update[g] # None =>
        \A a \in update[g].addlst : update[g].st.lst[g][a] # None

LEMMA PlanAddsEntries ==
    ASSUME NEW g \in Gateways, NEW old \in Contents, NEW new \in Contents,
           NEW a \in Plan(g, old, new).addlst
    PROVE  new.lst[g][a] # None
  BY DEF Plan, Grouped, Entries

LEMMA PlannedStays ==
    ASSUME ListenerTypeOK, PlannedInv, [ListenerNext]_listenerVars
    PROVE  PlannedInv'
  <1> SUFFICES ASSUME NEW g \in Gateways, update'[g] # None,
                      NEW a \in update'[g].addlst
               PROVE  update'[g].st.lst[g][a] # None
    BY DEF PlannedInv
  <1>1. CASE UNCHANGED update
    BY <1>1 DEF PlannedInv
  <1>2. ASSUME NEW h \in Gateways, StartUpdate(h)
        PROVE  update'[g].st.lst[g][a] # None
    <2>1. CASE g = h
      <3>1. /\ local[g].st \in Contents /\ omap \in Contents
            /\ update'[g].st = omap /\ update'[g].addlst = Plan(g, local[g].st, omap).addlst
        BY <1>2, <2>1 DEF StartUpdate, ListenerTypeOK
      <3> QED
        BY <3>1, PlanAddsEntries
    <2>2. CASE g # h
      BY <1>2, <2>2 DEF StartUpdate, ListenerTypeOK, PlannedInv
    <2> QED
      BY <2>1, <2>2
  <1>3. ASSUME NEW h \in Gateways, Crash(h) \/ UpdateEnd(h)
        PROVE  update'[g].st.lst[g][a] # None
    BY <1>3 DEF Crash, UpdateEnd, ListenerTypeOK, PlannedInv
  <1>4. ASSUME NEW h \in Gateways, UpdateStep(h), ~StartUpdate(h), ~UpdateEnd(h)
        PROVE  update'[g].st.lst[g][a] # None
    <2>1. /\ update[h] # None
          /\ \/ \E b : update' = [update EXCEPT ![h].dellst = @ \ {b}]
             \/ update' = [update EXCEPT ![h].delany = {}]
             \/ update' = [update EXCEPT ![h].drop = {}]
             \/ update' = [update EXCEPT ![h].add = {}]
             \/ update' = [update EXCEPT ![h].addany = {}]
             \/ \E b : update' = [update EXCEPT ![h].addlst = @ \ {b}]
      BY <1>4 DEF UpdateStep, UpdateDeleteListener, UpdateClose, UpdateDrop, UpdateCreate,
         UpdateOpen, UpdateCreateListener, Reached
    <2>2. update[h] \in Updates
      BY <2>1 DEF ListenerTypeOK
    <2>3. /\ update'[g].st = update[g].st /\ a \in update[g].addlst
          /\ update[g] # None
      <3>1. CASE g # h
        BY <2>1, <3>1 DEF ListenerTypeOK
      <3>2. CASE g = h
        BY SMTT(30), <2>1, <2>2, <3>2 DEF ListenerTypeOK, Updates
      <3> QED
        BY <3>1, <3>2
    <2> QED
      BY <2>3 DEF PlannedInv
  <1>5. ASSUME NEW c \in Clients,
               \/ Ask(c) \/ Check(c) \/ Retry(c)
               \/ CreateSubsystem(c) \/ DeleteSubsystem(c) \/ OpenToAny(c) \/ CloseToAny(c)
               \/ CreateListener(c) \/ DeleteListener(c)
        PROVE  UNCHANGED update
    BY <1>5 DEF Ask, Check, Retry, CreateSubsystem, DeleteSubsystem, OpenToAny, CloseToAny,
       CreateListener, DeleteListener, Succeeds, Breaks, Fails
  <1>6. ASSUME NEW h \in Gateways, SetAnaState(h) PROVE UNCHANGED update
    BY <1>6 DEF SetAnaState
  <1> QED
    BY <1>1, <1>2, <1>3, <1>4, <1>5, <1>6 DEF ListenerNext, listenerVars

\* One call of an update, accepted or not.
LEMMA LeavesType ==
    ASSUME ListenerTypeOK, NEW g \in Gateways, update[g] # None,
           NEW r \in GatewayStates, NEW trouble \in BOOLEAN, Leaves(g, trouble, r),
           NEW u \in Updates, update' = [update EXCEPT ![g] = u]
    PROVE  ListenerTypeOK'
  BY DEF ListenerTypeOK, Leaves, omapVars, budgetVars

LEMMA DoesType ==
    ASSUME ListenerTypeOK, NEW g \in Gateways, update[g] # None,
           NEW r \in GatewayStates, NEW refused \in BOOLEAN, Does(g, refused, r),
           NEW u \in Updates, update' = [update EXCEPT ![g] = u]
    PROVE  ListenerTypeOK'
  <1>1. (IF refused THEN gw[g] ELSE r) \in GatewayStates
    BY DEF ListenerTypeOK
  <1> QED
    BY <1>1, LeavesType DEF Does

LEMMA UpdateStepType ==
    ASSUME ListenerTypeOK, PlannedInv, NEW g \in Gateways, UpdateStep(g)
    PROVE  ListenerTypeOK'
  <1>0. gw[g] \in GatewayStates /\ local[g].st \in Contents /\ omap \in Contents
    BY DEF ListenerTypeOK
  <1>1. CASE StartUpdate(g)
    <2> DEFINE p == Plan(g, local[g].st, omap)
               u == [ver |-> version, st |-> omap, dellst |-> p.dellst, delany |-> p.delany,
                     drop |-> p.drop, add |-> p.add, addany |-> p.addany, addlst |-> p.addlst]
    <2>1. u \in Updates
      BY <1>0, PlanType DEF ListenerTypeOK, Updates
    <2>2. /\ update' = [update EXCEPT ![g] = u]
          /\ troubled' = [troubled EXCEPT ![g] = @ \/ LeavesOut(p, local[g].st, omap)]
          /\ UNCHANGED <<omapVars, local, gw, req, budgetVars, outdated>>
      BY <1>1 DEF StartUpdate
    <2>3. LeavesOut(p, local[g].st, omap) \in BOOLEAN
      BY DEF LeavesOut, Plan
    <2> HIDE DEF u, p
    <2> QED
      BY <2>1, <2>2, <2>3 DEF ListenerTypeOK, omapVars, budgetVars
  <1>2. CASE UpdateEnd(g)
    <2>1. update[g] \in Updates
      BY <1>2 DEF UpdateEnd, Reached, ListenerTypeOK
    <2>2. [ver |-> update[g].ver, st |-> update[g].st] \in [ver : Nat, st : Contents]
      BY <2>1 DEF Updates
    <2> QED
      BY <1>2, <2>2 DEF UpdateEnd, ListenerTypeOK, omapVars, budgetVars, historyVars
  <1>3. ASSUME update[g] # None
        PROVE  /\ update[g] \in Updates
               /\ \A a : [update[g] EXCEPT !.dellst = @ \ {a}] \in Updates
               /\ \A a : [update[g] EXCEPT !.addlst = @ \ {a}] \in Updates
               /\ [update[g] EXCEPT !.delany = {}] \in Updates
               /\ [update[g] EXCEPT !.drop = {}] \in Updates
               /\ [update[g] EXCEPT !.add = {}] \in Updates
               /\ [update[g] EXCEPT !.addany = {}] \in Updates
    BY <1>3 DEF ListenerTypeOK, Updates, Calls
  <1>4. CASE UpdateDeleteListener(g)
    <2>1. PICK a \in update[g].dellst :
              /\ update' = [update EXCEPT ![g].dellst = @ \ {a}]
              /\ \/ Leaves(g, TRUE, gw[g])
                 \/ Leaves(g, Stays(gw[g], a), Removed(gw[g], a))
      BY <1>4 DEF UpdateDeleteListener
    <2>2. update[g] # None
      BY <1>4 DEF UpdateDeleteListener, Reached
    <2>3. a \in Addrs
      BY <1>3, <2>1, <2>2 DEF Updates
    <2>4. Removed(gw[g], a) \in GatewayStates
      BY <1>0, <2>3, EffectTypes
    <2>5. update' = [update EXCEPT ![g] = [update[g] EXCEPT !.dellst = @ \ {a}]]
      BY <2>1
    <2>6. Stays(gw[g], a) \in BOOLEAN
      BY DEF Stays, FindsActive
    <2> QED
      BY <1>0, <1>3, <2>1, <2>2, <2>4, <2>5, <2>6, LeavesType
  <1>5. CASE UpdateClose(g)
    <2>1. update[g] # None
      BY <1>5 DEF UpdateClose, Reached
    <2>2. [gw[g] EXCEPT !.any = FALSE] \in GatewayStates
      BY <1>0, EffectTypes
    <2>3. update' = [update EXCEPT ![g] = [update[g] EXCEPT !.delany = {}]]
      BY <1>5 DEF UpdateClose
    <2> QED
      BY <1>3, <1>5, <2>1, <2>2, <2>3, DoesType DEF UpdateClose
  <1>6. CASE UpdateDrop(g)
    <2>1. update[g] # None
      BY <1>6 DEF UpdateDrop, Reached
    <2>2. Deleted(gw[g]) \in GatewayStates
      BY <1>0, EffectTypes
    <2>3. update' = [update EXCEPT ![g] = [update[g] EXCEPT !.drop = {}]]
      BY <1>6 DEF UpdateDrop
    <2> QED
      BY <1>3, <1>6, <2>1, <2>2, <2>3, DoesType DEF UpdateDrop
  <1>7. CASE UpdateCreate(g)
    <2>1. update[g] # None
      BY <1>7 DEF UpdateCreate, Reached
    <2>2. update' = [update EXCEPT ![g] = [update[g] EXCEPT !.add = {}]]
      BY <1>7 DEF UpdateCreate
    <2>3. Created(gw[g], update[g].st.sub) \in GatewayStates
      BY <1>0, <1>3, <2>1 DEF Created, Updates, Contents, GatewayStates
    <2> QED
      BY <1>3, <1>7, <2>1, <2>2, <2>3, DoesType DEF UpdateCreate
  <1>8. CASE UpdateOpen(g)
    <2>1. update[g] # None
      BY <1>8 DEF UpdateOpen, Reached
    <2>2. [gw[g] EXCEPT !.any = TRUE] \in GatewayStates
      BY <1>0, EffectTypes
    <2>3. update' = [update EXCEPT ![g] = [update[g] EXCEPT !.addany = {}]]
      BY <1>8 DEF UpdateOpen
    <2>4. NoOpening(gw[g]) \in BOOLEAN
      BY DEF NoOpening, HasSecure
    <2> QED
      BY <1>3, <1>8, <2>1, <2>2, <2>3, <2>4, DoesType DEF UpdateOpen
  <1>9. CASE UpdateCreateListener(g)
    <2>0. update[g] # None
      BY <1>9 DEF UpdateCreateListener, Reached
    <2>1. PICK a \in update[g].addlst :
              /\ update' = [update EXCEPT ![g].addlst = @ \ {a}]
              /\ Does(g, \/ NoListening(gw[g], update[g].st.lst[g][a])
                         \/ AtAddr(gw[g], a) # {} \/ SpdkRefuses(gw[g], a),
                      Listening(gw[g], a, update[g].st.lst[g][a], FirstAna(gw[g])))
      BY <1>9 DEF UpdateCreateListener
    <2> DEFINE secure == update[g].st.lst[g][a]
               refused == NoListening(gw[g], secure) \/ AtAddr(gw[g], a) # {}
                          \/ SpdkRefuses(gw[g], a)
    <2>2. a \in Addrs
      BY <1>3, <2>0, <2>1 DEF Updates
    <2>3. refused \in BOOLEAN
      BY DEF NoListening, SpdkRefuses
    <2>4. update' = [update EXCEPT ![g] = [update[g] EXCEPT !.addlst = @ \ {a}]]
      BY <2>1
    <2>5. secure \in BOOLEAN
      <3>1. update[g].st.lst[g][a] # None
        BY <2>0, <2>1 DEF PlannedInv
      <3> QED
        BY <1>3, <2>0, <2>2, <3>1 DEF Updates, Contents
    <2>6. Listening(gw[g], a, secure, FirstAna(gw[g])) \in GatewayStates
      BY <1>0, <2>2, <2>5, EffectTypes, FirstAnaType
    <2> HIDE DEF refused, secure
    <2> QED
      BY <1>3, <2>0, <2>1, <2>3, <2>4, <2>6, DoesType DEF refused, secure
  <1> QED
    BY <1>1, <1>2, <1>4, <1>5, <1>6, <1>7, <1>8, <1>9 DEF UpdateStep

(***************************************************************************)
(* What holds at every gateway, whatever has failed: the listeners of the  *)
(* list are in SPDK, as they are listed; those of SPDK are on the list and *)
(* have been told what the monitor said, up to those missed.               *)
(***************************************************************************)
AsTold(r, ana) ==
    \A p \in Groups :
        /\ ana[p] = "optimized" => r.ana[p] = "optimized"
        /\ p \in LowGroups /\ r.ana[p] = "optimized" => ana[p] = "optimized"

Sane(r) ==
    /\ \A l \in r.list : l.active =>
          r.spdk[l.addr] # None /\ (l.secure <=> l.addr \in r.secure)
    /\ \A a \in r.secure : r.spdk[a] # None
    /\ \A a \in Addrs : r.spdk[a] # None /\ a \notin r.missed =>
          IsActive(r, a) /\ AsTold(r, r.spdk[a])
    /\ r.sub = None => \A a \in Addrs : r.spdk[a] = None

SaneInv ==
    \A g \in Gateways : Sane(gw[g]) /\ (gw[g].missed # {} => troubled[g])

\* What set_ana_state makes of its gateway: all listeners of the list hear the
\* monitor, or a call fails and some do not.
LEMMA SetAnaStateCases ==
    ASSUME NEW g \in Gateways, SetAnaState(g)
    PROVE  \E said \in [Groups -> AnaStates] :
              \/ /\ gw' = [gw EXCEPT ![g] =
                       IF gw[g].sub = None THEN Told(gw[g], said)
                       ELSE Set(gw[g], said, {a \in Addrs : IsActive(gw[g], a)},
                                gw[g].list # {})]
                 /\ UNCHANGED <<faults, troubled>>
              \/ /\ faults' = faults + 1
                 /\ troubled' = [troubled EXCEPT ![g] = TRUE]
                 /\ \E reached \in SUBSET {a \in Addrs : IsActive(gw[g], a)},
                       b \in {a \in Addrs : IsActive(gw[g], a)},
                       part \in SUBSET Groups, awaited \in BOOLEAN :
                       /\ b \notin reached
                       /\ gw' = [gw EXCEPT ![g] =
                             Stopped(gw[g], said, reached,
                                     {a \in Addrs : IsActive(gw[g], a)} \ reached,
                                     b, part, awaited)]
  BY Zenon DEF SetAnaState

LEMMA SetAnaStateType ==
    ASSUME ListenerTypeOK, SaneInv, NEW g \in Gateways, SetAnaState(g)
    PROVE  ListenerTypeOK'
  <1> DEFINE r == gw[g]
             active == {a \in Addrs : IsActive(r, a)}
  <1>1. r \in GatewayStates /\ active \in SUBSET Addrs /\ (r.list # {}) \in BOOLEAN
    BY DEF ListenerTypeOK
  <1>2. \A b \in active : r.spdk[b] # None
    BY DEF SaneInv, Sane, IsActive, AtAddr
  <1>3. PICK said \in [Groups -> AnaStates] :
            \/ /\ gw' = [gw EXCEPT ![g] = IF r.sub = None THEN Told(r, said)
                                          ELSE Set(r, said, active, r.list # {})]
               /\ UNCHANGED <<faults, troubled>>
            \/ /\ faults' = faults + 1
               /\ troubled' = [troubled EXCEPT ![g] = TRUE]
               /\ \E reached \in SUBSET active, b \in active,
                     part \in SUBSET Groups, awaited \in BOOLEAN :
                     /\ b \notin reached
                     /\ gw' = [gw EXCEPT ![g] =
                               Stopped(r, said, reached, active \ reached, b, part, awaited)]
    BY SetAnaStateCases, Zenon
  <1>4. gw' \in [Gateways -> GatewayStates]
    <2>1. /\ Told(r, said) \in GatewayStates
          /\ Set(r, said, active, r.list # {}) \in GatewayStates
      BY <1>1, EffectTypes
    <2>2. ASSUME NEW reached \in SUBSET active, NEW b \in active,
                 NEW part \in SUBSET Groups, NEW awaited \in BOOLEAN
          PROVE  Stopped(r, said, reached, active \ reached, b, part, awaited) \in GatewayStates
      <3>1. reached \in SUBSET Addrs /\ active \ reached \in SUBSET Addrs /\ b \in Addrs
        OBVIOUS
      <3>2. r.spdk[b] # None
        BY <1>2
      <3> HIDE DEF r, active
      <3> QED
        BY <1>1, <3>1, <3>2, StoppedType
    <2> HIDE DEF r, active
    <2>3. \E s \in GatewayStates : gw' = [gw EXCEPT ![g] = s]
      BY <1>3, <2>1, <2>2
    <2> QED
      BY <2>3 DEF ListenerTypeOK
  <1>5. anas' \in Nat /\ faults' \in Nat /\ troubled' \in [Gateways -> BOOLEAN]
    <2>1. /\ anas \in Nat /\ faults \in Nat /\ troubled \in [Gateways -> BOOLEAN]
          /\ anas' = anas + 1
      BY DEF SetAnaState, ListenerTypeOK
    <2>2. CASE UNCHANGED <<faults, troubled>>
      BY <2>1, <2>2
    <2>3. CASE faults' = faults + 1 /\ troubled' = [troubled EXCEPT ![g] = TRUE]
      BY <2>1, <2>3
    <2> QED
      BY <1>3, <2>2, <2>3
  <1> QED
    BY <1>4, <1>5 DEF SetAnaState, ListenerTypeOK, omapVars

LEMMA InitType == ListenerInit => ListenerTypeOK /\ PlannedInv
  <1> SUFFICES ASSUME ListenerInit PROVE ListenerTypeOK /\ PlannedInv
    OBVIOUS
  <1>1. omap \in Contents
    BY ListenerStarts DEF ListenerInit
  <1>2. gw \in [Gateways -> GatewayStates]
    BY <1>1, ServingType DEF ListenerInit
  <1> QED
    BY <1>1, <1>2 DEF ListenerInit, ListenerTypeOK, PlannedInv

LEMMA CrashType ==
    ASSUME ListenerTypeOK, NEW g \in Gateways, Crash(g)
    PROVE  ListenerTypeOK'
  BY EmptyContentType, NewGatewayType DEF ListenerTypeOK, Crash, omapVars

\* A request up to the OMAP lock changes nothing but itself.
LEMMA WaitingType ==
    ASSUME ListenerTypeOK, NEW c \in Clients, Ask(c) \/ Check(c) \/ Retry(c)
    PROVE  ListenerTypeOK'
  <1>1. CASE Ask(c)
    <2>1. PICK g \in Gateways, ask \in Asks :
              req' = [req EXCEPT ![c] = [gw |-> g, ask |-> ask, inst |-> requests',
                                         waiting |-> FALSE]]
      BY <1>1 DEF Ask
    <2>2. requests' \in Insts /\ requests' \in Nat
      BY <1>1, ListenerBounds DEF Ask, ListenerTypeOK, Insts
    <2>3. [gw |-> g, ask |-> ask, inst |-> requests', waiting |-> FALSE] \in Requests
      BY <2>2, ListenerAsks DEF Requests
    <2> QED
      BY <1>1, <2>1, <2>2, <2>3 DEF Ask, ListenerTypeOK, omapVars, historyVars
  <1>2. CASE Check(c) \/ Retry(c)
    <2>1. req[c] \in Requests
      BY <1>2 DEF Check, Retry, ListenerTypeOK
    <2>2. \A waiting \in BOOLEAN : [req[c] EXCEPT !.waiting = waiting] \in Requests
      BY <2>1 DEF Requests
    <2>3. \/ req' = [req EXCEPT ![c] = None]
          \/ \E waiting \in BOOLEAN : req' = [req EXCEPT ![c] = [req[c] EXCEPT !.waiting = waiting]]
      BY <1>2 DEF Check, Retry, Answer
    <2>4. req' \in [Clients -> Requests \cup {None}]
      BY <2>2, <2>3 DEF ListenerTypeOK
    <2>5. UNCHANGED <<omapVars, local, gw, update, budgetVars, historyVars>>
      BY <1>2 DEF Check, Retry
    <2> QED
      BY <2>4, <2>5 DEF ListenerTypeOK, omapVars, budgetVars, historyVars
  <1> QED
    BY <1>1, <1>2

LEMMA TypeStep ==
    ASSUME ListenerTypeOK, PlannedInv, SaneInv, [ListenerNext]_listenerVars
    PROVE  ListenerTypeOK'
  <1>1. CASE UNCHANGED listenerVars
    BY <1>1 DEF ListenerTypeOK, listenerVars, omapVars, budgetVars, historyVars
  <1> QED
    BY <1>1, WaitingType, RequestType, SetAnaStateType, UpdateStepType, CrashType
    DEF ListenerNext

\* Every call of the RPCs leaves a sane gateway sane, whether it succeeds or
\* fails half way, and misses no further listener unless it is said.
LEMMA FirstAnaIsAsTold ==
    ASSUME NEW r
    PROVE  AsTold(r, FirstAna(r))
  BY DEF AsTold, FirstAna

LEMMA CreatedIsSane ==
    ASSUME NEW r \in GatewayStates, Sane(r), r.sub = None, NEW inst
    PROVE  Sane(Created(r, inst)) /\ Created(r, inst).missed = r.missed
  BY DEF Sane, Created, IsActive, AtAddr, AsTold, GatewayStates

LEMMA DeletedIsSane ==
    ASSUME NEW r \in GatewayStates
    PROVE  Sane(Deleted(r)) /\ Deleted(r).missed = {}
  BY DEF Sane, Deleted, IsActive, AtAddr, GatewayStates, NoListeners

LEMMA AnyIsSane ==
    ASSUME NEW r \in GatewayStates, Sane(r), NEW any
    PROVE  Sane([r EXCEPT !.any = any]) /\ [r EXCEPT !.any = any].missed = r.missed
  BY DEF Sane, IsActive, AtAddr, AsTold, GatewayStates

LEMMA StashedIsSane ==
    ASSUME NEW r \in GatewayStates, Sane(r), NEW a, NEW secure
    PROVE  Sane(Stashed(r, a, secure)) /\ Stashed(r, a, secure).missed = r.missed
  <1> DEFINE l == [addr |-> a, secure |-> secure, active |-> FALSE]
             n == Stashed(r, a, secure)
  <1>1. /\ n.list = r.list \cup {l} /\ n.spdk = r.spdk /\ n.secure = r.secure
        /\ n.sub = r.sub /\ n.ana = r.ana /\ n.missed = r.missed
    BY DEF Stashed, GatewayStates
  <1>2. l.active = FALSE
    OBVIOUS
  <1> HIDE DEF l, n
  <1>3. \A b \in Addrs : IsActive(r, b) => IsActive(n, b)
    BY <1>1 DEF IsActive, AtAddr
  <1> QED
    BY <1>1, <1>2, <1>3 DEF Sane, AsTold, n

LEMMA ListeningIsSane ==
    ASSUME NEW r \in GatewayStates, Sane(r), NEW a \in Addrs, NEW secure \in BOOLEAN,
           AtAddr(r, a) = {}, ~SpdkRefuses(r, a), NEW ana \in [Groups -> AnaStates]
    PROVE  /\ Listening(r, a, secure, ana).missed = r.missed
           /\ AsTold(r, ana) => Sane(Listening(r, a, secure, ana))
           /\ Sane(Unset(Listening(r, a, secure, ana), a))
  <1> DEFINE l == [addr |-> a, secure |-> secure, active |-> TRUE]
             m == Listening(r, a, secure, ana)
  <1>1. /\ m.list = r.list \cup {l} /\ m.spdk = [r.spdk EXCEPT ![a] = ana]
        /\ m.secure = IF secure THEN r.secure \cup {a} ELSE r.secure \ {a}
        /\ m.sub = r.sub /\ m.ana = r.ana /\ m.missed = r.missed
    BY DEF Listening, GatewayStates
  <1>2. l.active = TRUE /\ l.secure = secure /\ l.addr = a
    OBVIOUS
  <1>3. ana # None /\ r.sub # None
    BY ListenerNone DEF SpdkRefuses
  <1>4. \A b \in Addrs : m.spdk[b] = IF b = a THEN ana ELSE r.spdk[b]
    BY <1>1 DEF GatewayStates
  <1>5. \A k \in r.list : k.addr # a /\ k.addr \in Addrs
    BY DEF AtAddr, GatewayStates
  <1> HIDE DEF l, m
  <1>6. ASSUME NEW n, NEW missed, n.list = m.list, n.spdk = m.spdk, n.secure = m.secure,
               n.sub = m.sub, n.ana = m.ana, n.missed = missed,
               r.missed \subseteq missed, AsTold(r, ana) \/ a \in missed
        PROVE  Sane(n)
    <2>1. \A k \in n.list : k.active =>
              n.spdk[k.addr] # None /\ (k.secure <=> k.addr \in n.secure)
      <3>1. CASE secure
        <4>1. n.secure = r.secure \cup {a}
          BY <1>1, <1>6, <3>1
        <4>2. l.addr \in n.secure /\ n.spdk[l.addr] # None
          BY <1>2, <1>3, <1>4, <1>6, <4>1
        <4>3. \A k \in r.list : k.active =>
                  n.spdk[k.addr] # None /\ (k.secure <=> k.addr \in n.secure)
          BY <1>4, <1>5, <1>6, <4>1 DEF Sane
        <4> QED
          BY <1>1, <1>2, <1>6, <3>1, <4>2, <4>3
      <3>2. CASE ~secure
        BY <1>1, <1>2, <1>3, <1>4, <1>5, <1>6, <3>2 DEF Sane
      <3> QED
        BY <3>1, <3>2
    <2>2. \A b \in n.secure : n.spdk[b] # None
      BY <1>1, <1>3, <1>4, <1>6 DEF Sane, GatewayStates
    <2>3. \A b \in Addrs : n.spdk[b] # None /\ b \notin n.missed =>
              IsActive(n, b) /\ AsTold(n, n.spdk[b])
      <3> TAKE b \in Addrs
      <3> HAVE n.spdk[b] # None /\ b \notin n.missed
      <3>1. CASE b = a
        BY <1>1, <1>2, <1>4, <1>6, <3>1 DEF IsActive, AtAddr, AsTold
      <3>2. CASE b # a
        <4>1. IsActive(r, b) /\ AsTold(r, r.spdk[b])
          BY <1>4, <1>6, <3>2 DEF Sane
        <4>2. n.spdk[b] = r.spdk[b]
          BY <1>4, <1>6, <3>2
        <4>3. IsActive(n, b)
          BY <1>1, <1>6, <4>1 DEF IsActive, AtAddr
        <4> QED
          BY <1>1, <1>6, <4>1, <4>2, <4>3 DEF AsTold
      <3> QED
        BY <3>1, <3>2
    <2> QED
      BY <1>1, <1>3, <1>6, <2>1, <2>2, <2>3 DEF Sane
  <1>7. AsTold(r, ana) => Sane(m)
    BY <1>1, <1>6
  <1>8. Sane(Unset(m, a))
    <2> DEFINE n == Unset(m, a)
    <2>1. /\ n.list = m.list /\ n.spdk = m.spdk /\ n.secure = m.secure /\ n.sub = m.sub
          /\ n.ana = m.ana /\ n.missed = r.missed \cup {a}
      BY <1>1 DEF Unset, m, Listening, GatewayStates
    <2> HIDE DEF n
    <2>2. Sane(n)
      BY <1>6, <2>1
    <2> QED
      BY <2>2 DEF n
  <1> QED
    BY <1>1, <1>7, <1>8 DEF m

\* The entries at an address go; a listener of SPDK that stays is missed.
LEMMA UnlistedIsSane ==
    ASSUME NEW r \in GatewayStates, Sane(r), NEW a \in Addrs
    PROVE  /\ Sane(Unlisted(r, a))
           /\ r.spdk[a] = None => Unlisted(r, a).missed = r.missed
  <1> DEFINE n == Unlisted(r, a)
  <1>1. /\ n.list = r.list \ AtAddr(r, a) /\ n.spdk = r.spdk /\ n.secure = r.secure
        /\ n.sub = r.sub /\ n.ana = r.ana
        /\ n.missed = IF r.spdk[a] = None THEN r.missed ELSE r.missed \cup {a}
    BY DEF Unlisted, GatewayStates
  <1> HIDE DEF n
  <1>2. \A b \in Addrs : b # a /\ IsActive(r, b) => IsActive(n, b)
    BY <1>1 DEF IsActive, AtAddr
  <1> QED
    BY <1>1, <1>2 DEF Sane, AsTold, n

LEMMA RemovedIsSane ==
    ASSUME NEW r \in GatewayStates, Sane(r), NEW a \in Addrs
    PROVE  /\ Sane(Removed(r, a))
           /\ Stays(r, a) \/ Removed(r, a).missed \subseteq r.missed
  <1>1. CASE FindsActive(r, a)
    <2> DEFINE n == Silent(r, a)
    <2>1. /\ n.list = r.list \ AtAddr(r, a) /\ n.spdk = [r.spdk EXCEPT ![a] = None]
          /\ n.secure = r.secure \ {a} /\ n.sub = r.sub /\ n.ana = r.ana
          /\ n.missed = r.missed \ {a}
      BY DEF Silent, GatewayStates
    <2> HIDE DEF n
    <2>2. \A b \in Addrs : n.spdk[b] = IF b = a THEN None ELSE r.spdk[b]
      BY <2>1 DEF GatewayStates
    <2>3. \A b \in Addrs : b # a /\ IsActive(r, b) => IsActive(n, b)
      BY <2>1 DEF IsActive, AtAddr
    <2>4. \A l \in n.list : l \in r.list /\ l.addr # a /\ l.addr \in Addrs
      BY <2>1 DEF AtAddr, GatewayStates
    <2>5. r.secure \subseteq Addrs
      BY DEF GatewayStates
    <2>6. Sane(n)
      <3>1. \A l \in n.list : l.active =>
                n.spdk[l.addr] # None /\ (l.secure <=> l.addr \in n.secure)
        BY <2>1, <2>2, <2>4 DEF Sane
      <3>2. \A b \in n.secure : n.spdk[b] # None
        BY <2>1, <2>2, <2>5 DEF Sane
      <3>3. \A b \in Addrs : n.spdk[b] # None /\ b \notin n.missed =>
                IsActive(n, b) /\ AsTold(n, n.spdk[b])
        BY <2>1, <2>2, <2>3 DEF Sane, AsTold
      <3> QED
        BY <2>1, <2>2, <3>1, <3>2, <3>3 DEF Sane
    <2> QED
      BY <1>1, <2>1, <2>6 DEF Removed, n
  <1>2. CASE ~FindsActive(r, a)
    BY <1>2, UnlistedIsSane DEF Removed, Stays
  <1> QED
    BY <1>1, <1>2

LEMMA ToldIsSane ==
    ASSUME NEW r \in GatewayStates, Sane(r), r.sub = None, NEW said
    PROVE  Sane(Told(r, said)) /\ Told(r, said).missed = r.missed
  BY DEF Sane, Told, IsActive, AtAddr, GatewayStates

\* An ANA state that reaches every listener of the list reaches every listener
\* of SPDK that is not missed; those it does not reach are missed.
LEMMA SetIsSane ==
    ASSUME NEW r \in GatewayStates, Sane(r), NEW said \in [Groups -> AnaStates], NEW awaited
    PROVE  LET active == {a \in Addrs : IsActive(r, a)}
           IN  /\ Sane(Set(r, said, active, awaited))
               /\ Set(r, said, active, awaited).missed \subseteq r.missed
  <1> DEFINE active == {a \in Addrs : IsActive(r, a)}
             n == Set(r, said, active, awaited)
  <1>1. /\ n.list = r.list /\ n.sub = r.sub /\ n.secure = r.secure /\ n.ana = said
        /\ n.spdk = [a \in Addrs |-> IF a \in active THEN said ELSE r.spdk[a]]
        /\ n.missed = r.missed \ active
    BY DEF Set, Told, GatewayStates
  <1>2. said # None
    BY ListenerNone
  <1>3. \A l \in r.list : l.addr \in Addrs
    BY DEF GatewayStates
  <1>4. \A a \in Addrs : a \in active <=> IsActive(r, a)
    OBVIOUS
  <1>5. r.secure \subseteq Addrs
    BY DEF GatewayStates
  <1> HIDE DEF n, active
  <1>6. \A a \in Addrs : /\ n.spdk[a] = IF a \in active THEN said ELSE r.spdk[a]
                         /\ IsActive(n, a) <=> IsActive(r, a)
    BY <1>1 DEF IsActive, AtAddr
  <1>7. Sane(n)
    <2>1. \A a \in Addrs : r.spdk[a] # None => n.spdk[a] # None
      BY <1>2, <1>6
    <2>2. \A a \in Addrs : n.spdk[a] # None /\ a \notin n.missed =>
              IsActive(n, a) /\ AsTold(n, n.spdk[a])
      <3> TAKE a \in Addrs
      <3> HAVE n.spdk[a] # None /\ a \notin n.missed
      <3>1. IsActive(r, a)
        BY <1>1, <1>4, <1>6 DEF Sane
      <3> QED
        BY <1>1, <1>4, <1>6, <3>1 DEF AsTold
    <2>3. r.sub = None => \A a \in Addrs : n.spdk[a] = None
      <3>1. \A a \in active : r.spdk[a] # None /\ a \in Addrs
        BY DEF active, Sane, IsActive, AtAddr
      <3> QED
        BY <1>6, <3>1 DEF Sane
    <2> QED
      BY <1>1, <1>3, <1>5, <2>1, <2>2, <2>3 DEF Sane
  <1> QED
    BY <1>1, <1>7 DEF n, active

LEMMA StoppedIsSane ==
    ASSUME NEW r \in GatewayStates, Sane(r), NEW said \in [Groups -> AnaStates],
           NEW reached \in SUBSET {a \in Addrs : IsActive(r, a)},
           NEW b \in {a \in Addrs : IsActive(r, a)}, b \notin reached,
           NEW part \in SUBSET Groups, NEW awaited
    PROVE  Sane(Stopped(r, said, reached, {a \in Addrs : IsActive(r, a)} \ reached,
                        b, part, awaited))
  <1> DEFINE active == {a \in Addrs : IsActive(r, a)}
             left == active \ reached
             m == Set(r, said, reached, awaited)
             ana == [p \in Groups |-> IF p \in part THEN said[p] ELSE r.spdk[b][p]]
             n == Stopped(r, said, reached, left, b, part, awaited)
  <1>1. r.spdk[b] # None /\ b \in Addrs /\ r.sub # None /\ r.spdk[b] \in [Groups -> AnaStates]
    BY DEF Sane, IsActive, AtAddr, GatewayStates
  <1>2. ana \in [Groups -> AnaStates] /\ ana # None /\ said # None
    BY <1>1, ListenerNone
  <1>3. /\ n.list = r.list /\ n.sub = r.sub /\ n.secure = r.secure /\ n.ana = said
        /\ n.spdk = [[a \in Addrs |-> IF a \in reached THEN said ELSE r.spdk[a]]
                        EXCEPT ![b] = ana]
        /\ n.missed = (r.missed \ reached) \cup left
    BY DEF Stopped, Set, Told, GatewayStates
  <1>4. \A l \in r.list : l.addr \in Addrs
    BY DEF GatewayStates
  <1>5. \A a \in Addrs : a \in reached \/ a \in left <=> IsActive(r, a)
    OBVIOUS
  <1>6. b \in left /\ r.secure \subseteq Addrs
    BY DEF GatewayStates
  <1> HIDE DEF n, ana, left, active
  <1>7. \A a \in Addrs : /\ n.spdk[a] = IF a = b THEN ana
                                        ELSE IF a \in reached THEN said ELSE r.spdk[a]
                         /\ IsActive(n, a) <=> IsActive(r, a)
    BY <1>1, <1>3 DEF IsActive, AtAddr
  <1>8. Sane(n)
    <2>1. \A a \in Addrs : r.spdk[a] # None => n.spdk[a] # None
      BY <1>2, <1>7
    <2>2. \A a \in Addrs : n.spdk[a] # None /\ a \notin n.missed =>
              IsActive(n, a) /\ AsTold(n, n.spdk[a])
      <3> TAKE a \in Addrs
      <3> HAVE n.spdk[a] # None /\ a \notin n.missed
      <3>1. a \notin left /\ a # b
        BY <1>3, <1>6
      <3>2. a \in reached
        BY <1>3, <1>5, <1>7, <3>1 DEF Sane
      <3> QED
        BY <1>3, <1>5, <1>7, <3>1, <3>2 DEF AsTold
    <2> QED
      BY <1>1, <1>3, <1>4, <1>6, <2>1, <2>2 DEF Sane
  <1> QED
    BY <1>8 DEF n, left, active

LEMMA NewGatewayIsSane == Sane(NewGateway) /\ NewGateway.missed = {}
  BY DEF Sane, NewGateway, NoListeners, IsActive, AtAddr

LEMMA ServingIsSane ==
    ASSUME NEW st \in Starts, NEW g \in Gateways
    PROVE  Sane(Serving(g, st)) /\ Serving(g, st).missed = {}
  <1> DEFINE at == {a \in Addrs : st.lst[g][a] # None}
             ana == FirstAna(NewGateway)
             n == Serving(g, st)
  <1>0. st \in Contents
    BY ListenerStarts
  <1>1. /\ n.list = {[addr |-> a, secure |-> st.lst[g][a], active |-> TRUE] : a \in at}
        /\ n.spdk = [a \in Addrs |-> IF a \in at THEN ana ELSE None]
        /\ n.secure = {a \in at : st.lst[g][a]}
        /\ n.sub = st.sub /\ n.ana = NewGateway.ana /\ n.missed = {}
    BY DEF Serving, NewGateway
  <1>2. ana # None /\ AsTold(NewGateway, ana)
    BY FirstAnaType, FirstAnaIsAsTold, NewGatewayType, ListenerNone
  <1> HIDE DEF n, ana
  <1>3. \A l \in n.list : l.addr \in at /\ (l.secure <=> l.addr \in n.secure)
    <2> TAKE l \in n.list
    <2>1. PICK a \in at : l = [addr |-> a, secure |-> st.lst[g][a], active |-> TRUE]
      BY <1>1
    <2>2. l.addr = a /\ l.secure = st.lst[g][a]
      BY <2>1
    <2>3. a \in n.secure <=> st.lst[g][a]
      BY <1>1
    <2> QED
      BY <2>2, <2>3
  <1>4. ASSUME NEW a \in at PROVE IsActive(n, a)
    <2> DEFINE l == [addr |-> a, secure |-> st.lst[g][a], active |-> TRUE]
    <2>1. l \in n.list
      BY <1>1
    <2>2. l.addr = a /\ l.active
      OBVIOUS
    <2> HIDE DEF l
    <2> QED
      BY <2>1, <2>2 DEF IsActive, AtAddr
  <1>5. n.sub = None => at = {}
    <2>1. ASSUME n.sub = None PROVE st = EmptyContent
      BY <1>1, <2>1, ListenerStarts
    <2>2. \A a \in Addrs : EmptyContent.lst[g][a] = None
      BY DEF EmptyContent, NoListeners
    <2> QED
      BY <2>1, <2>2
  <1>6. \A a \in Addrs : n.spdk[a] = IF a \in at THEN ana ELSE None
    BY <1>1
  <1>7. n.secure \subseteq at /\ at \subseteq Addrs
    BY <1>1
  <1> HIDE DEF at
  <1>8. \A a \in Addrs : n.spdk[a] # None => AsTold(n, n.spdk[a])
    BY <1>1, <1>2, <1>6 DEF AsTold
  <1> QED
    BY <1>1, <1>2, <1>3, <1>4, <1>5, <1>6, <1>7, <1>8 DEF Sane, n

\* One gateway at a time changes, and only by calls that leave it sane.
LEMMA SaneStep ==
    ASSUME ListenerTypeOK, SaneInv, NEW g \in Gateways, NEW r, Sane(r),
           gw' = [gw EXCEPT ![g] = r],
           \A h \in Gateways \ {g} : troubled'[h] = troubled[h],
           troubled'[g] \/ (r.missed \subseteq gw[g].missed /\ ~troubled[g])
    PROVE  SaneInv'
  <1>1. gw'[g] = r /\ \A h \in Gateways \ {g} : gw'[h] = gw[h]
    BY DEF ListenerTypeOK
  <1> QED
    BY <1>1 DEF SaneInv

LEMMA SaneSucceeds ==
    ASSUME ListenerTypeOK, SaneInv, NEW c \in Clients, req[c] \in Requests,
           NEW mixed \in BOOLEAN, NEW r, NEW new, Succeeds(c, mixed, r, new),
           Sane(r), mixed \/ r.missed \subseteq gw[req[c].gw].missed
    PROVE  SaneInv'
  <1> DEFINE g == req[c].gw
  <1>1. g \in Gateways
    BY DEF Requests
  <1>2. /\ gw' = [gw EXCEPT ![g] = r]
        /\ troubled' = [troubled EXCEPT ![g] = @ \/ mixed \/ Outdated(req[c])]
    BY DEF Succeeds
  <1>3. mixed \/ r.missed \subseteq gw[g].missed
    OBVIOUS
  <1> HIDE DEF g
  <1>4. /\ troubled'[g] = (troubled[g] \/ mixed \/ Outdated(req[c]))
        /\ \A h \in Gateways \ {g} : troubled'[h] = troubled[h]
    BY <1>1, <1>2 DEF ListenerTypeOK
  <1> QED
    BY <1>1, <1>2, <1>3, <1>4, SaneStep

LEMMA SaneBreaks ==
    ASSUME ListenerTypeOK, SaneInv, NEW c \in Clients, req[c] \in Requests,
           NEW left, NEW new, Breaks(c, left, new), \A r \in left : Sane(r)
    PROVE  SaneInv'
  <1>1. req[c].gw \in Gateways
    BY DEF Requests
  <1>2. PICK r \in left : gw' = [gw EXCEPT ![req[c].gw] = r]
    BY DEF Breaks
  <1>3. troubled' = [troubled EXCEPT ![req[c].gw] = TRUE]
    BY DEF Breaks
  <1>4. /\ troubled'[req[c].gw]
        /\ \A h \in Gateways \ {req[c].gw} : troubled'[h] = troubled[h]
    BY <1>1, <1>3 DEF ListenerTypeOK
  <1> QED
    BY <1>1, <1>2, <1>4, SaneStep

LEMMA SaneFails ==
    ASSUME SaneInv, UNCHANGED <<gw, troubled>>
    PROVE  SaneInv'
  BY DEF SaneInv

LEMMA SaneLeaves ==
    ASSUME ListenerTypeOK, SaneInv, NEW g \in Gateways, NEW trouble \in BOOLEAN,
           NEW r, Leaves(g, trouble, r), Sane(r), trouble \/ r.missed \subseteq gw[g].missed
    PROVE  SaneInv'
  <1>1. /\ gw' = [gw EXCEPT ![g] = r]
        /\ troubled' = [troubled EXCEPT ![g] = @ \/ trouble]
    BY DEF Leaves
  <1>2. /\ troubled'[g] = (troubled[g] \/ trouble)
        /\ \A h \in Gateways \ {g} : troubled'[h] = troubled[h]
    BY <1>1 DEF ListenerTypeOK
  <1> QED
    BY <1>1, <1>2, SaneStep

LEMMA SaneDoes ==
    ASSUME ListenerTypeOK, SaneInv, NEW g \in Gateways, NEW refused \in BOOLEAN,
           NEW r, Does(g, refused, r), ~refused => Sane(r) /\ r.missed \subseteq gw[g].missed
    PROVE  SaneInv'
  <1> DEFINE n == IF refused THEN gw[g] ELSE r
  <1>1. Leaves(g, refused, n)
    BY DEF Does
  <1>2. Sane(n) /\ n.missed \subseteq gw[g].missed
    BY DEF SaneInv
  <1> HIDE DEF n
  <1> QED
    BY <1>1, <1>2, SaneLeaves

LEMMA RequestKeepsSane ==
    ASSUME ListenerTypeOK, SaneInv, NEW c \in Clients,
           CreateSubsystem(c) \/ DeleteSubsystem(c) \/ OpenToAny(c) \/ CloseToAny(c)
           \/ CreateListener(c) \/ DeleteListener(c)
    PROVE  SaneInv'
  <1> DEFINE q == req[c]
             g == q.gw
             r == gw[g]
  <1>1. req[c] # None
    BY DEF CreateSubsystem, DeleteSubsystem, OpenToAny, CloseToAny, CreateListener,
       DeleteListener, Locked
  <1>2. /\ q \in Requests /\ g \in Gateways /\ q.ask \in AllAsks
        /\ r \in GatewayStates /\ Sane(r)
    BY <1>1, LockedRequestType DEF SaneInv
  <1>3. Fails(c) => SaneInv'
    BY SaneFails DEF Fails, historyVars
  <1>4. ASSUME NEW mixed \in BOOLEAN, NEW n, NEW new, Succeeds(c, mixed, n, new),
               Sane(n), mixed \/ n.missed \subseteq r.missed
        PROVE  SaneInv'
    BY <1>2, <1>4, SaneSucceeds
  <1>5. ASSUME NEW left, NEW new, Breaks(c, left, new), \A n \in left : Sane(n)
        PROVE  SaneInv'
    BY <1>2, <1>5, SaneBreaks
  <1> HIDE DEF q, g, r
  <1>6. CASE CreateSubsystem(c)
    <2> DEFINE after == Created(r, q.inst)
               new == [omap EXCEPT !.sub = q.inst]
    <2>1. r.sub = None => Sane(after) /\ after.missed \subseteq r.missed
      BY <1>2, CreatedIsSane
    <2>2. \/ Fails(c)
          \/ r.sub = None /\ Succeeds(c, FALSE, after, new)
          \/ r.sub = None /\ Breaks(c, {r, after}, omap)
      BY <1>6, Zenon DEF CreateSubsystem, q, g, r
    <2> HIDE DEF after, new
    <2>3. CASE r.sub = None /\ Succeeds(c, FALSE, after, new)
      BY <1>4, <2>1, <2>3
    <2>4. CASE r.sub = None /\ Breaks(c, {r, after}, omap)
      <3>1. \A n \in {r, after} : Sane(n)
        BY <1>2, <2>1, <2>4
      <3> QED
        BY <1>5, <2>4, <3>1
    <2> QED
      BY <1>3, <2>2, <2>3, <2>4
  <1>7. CASE DeleteSubsystem(c)
    <2> DEFINE after == Deleted(r)
    <2>1. Sane(after) /\ after.missed \subseteq r.missed
      BY <1>2, DeletedIsSane
    <2>2. \/ Succeeds(c, FALSE, r, EmptyContent) \/ Succeeds(c, FALSE, after, EmptyContent)
          \/ Breaks(c, {r}, EmptyContent) \/ Breaks(c, {after}, omap)
      BY <1>7 DEF DeleteSubsystem, q, g, r
    <2> HIDE DEF after
    <2>3. CASE Succeeds(c, FALSE, r, EmptyContent)
      BY <1>2, <1>4, <2>3
    <2>4. CASE Succeeds(c, FALSE, after, EmptyContent)
      BY <1>4, <2>1, <2>4
    <2>5. CASE Breaks(c, {r}, EmptyContent)
      <3>1. \A n \in {r} : Sane(n)
        BY <1>2
      <3> QED
        BY <1>5, <2>5, <3>1
    <2>6. CASE Breaks(c, {after}, omap)
      <3>1. \A n \in {after} : Sane(n)
        BY <2>1
      <3> QED
        BY <1>5, <2>6, <3>1
    <2> QED
      BY <2>2, <2>3, <2>4, <2>5, <2>6
  <1>8. CASE OpenToAny(c)
    <2> DEFINE after == [r EXCEPT !.any = TRUE]
               new == [omap EXCEPT !.any = TRUE]
    <2>1. Sane(after) /\ after.missed \subseteq r.missed
      BY <1>2, AnyIsSane
    <2>2. Fails(c) \/ Succeeds(c, FALSE, after, new) \/ Breaks(c, {r, after}, omap)
      BY <1>8 DEF OpenToAny, q, g, r
    <2> HIDE DEF after, new
    <2>3. CASE Succeeds(c, FALSE, after, new)
      BY <1>4, <2>1, <2>3
    <2>4. CASE Breaks(c, {r, after}, omap)
      <3>1. \A n \in {r, after} : Sane(n)
        BY <1>2, <2>1
      <3> QED
        BY <1>5, <2>4, <3>1
    <2> QED
      BY <1>3, <2>2, <2>3, <2>4
  <1>9. CASE CloseToAny(c)
    <2> DEFINE after == [r EXCEPT !.any = FALSE]
               new == [omap EXCEPT !.any = FALSE]
    <2>1. Sane(after) /\ after.missed \subseteq r.missed
      BY <1>2, AnyIsSane
    <2>2. \/ Succeeds(c, FALSE, r, new) \/ Succeeds(c, FALSE, after, new)
          \/ Breaks(c, {r}, new) \/ Breaks(c, {after}, omap)
      BY <1>9 DEF CloseToAny, q, g, r
    <2> HIDE DEF after, new
    <2>3. CASE Succeeds(c, FALSE, r, new)
      BY <1>2, <1>4, <2>3
    <2>4. CASE Succeeds(c, FALSE, after, new)
      BY <1>4, <2>1, <2>4
    <2>5. CASE Breaks(c, {r}, new)
      <3>1. \A n \in {r} : Sane(n)
        BY <1>2
      <3> QED
        BY <1>5, <2>5, <3>1
    <2>6. CASE Breaks(c, {after}, omap)
      <3>1. \A n \in {after} : Sane(n)
        BY <2>1
      <3> QED
        BY <1>5, <2>6, <3>1
    <2> QED
      BY <2>2, <2>3, <2>4, <2>5, <2>6
  <1>10. CASE CreateListener(c)
    <2>1. q.ask.addr \in Addrs /\ q.ask.secure \in BOOLEAN
      BY <1>2, <1>10, AskFields DEF CreateListener, Locked, q
    <2> DEFINE a == q.ask.addr
               secure == q.ask.secure
               begun == {[p \in Groups |-> IF p \in set THEN FirstAna(r)[p] ELSE "inaccessible"]
                         : set \in SUBSET Groups} \cup {[p \in Groups |-> "optimized"]}
               broken == {Unset(Listening(r, a, secure, ana), a) : ana \in begun}
               new == [omap EXCEPT !.lst[q.ask.host][a] = secure]
               after == Listening(r, a, secure, FirstAna(r))
               stashed == Stashed(r, a, secure)
    <2>2. \/ Fails(c)
          \/ AtAddr(r, a) = {} /\ ~SpdkRefuses(r, a) /\ Succeeds(c, FALSE, after, new)
          \/ AtAddr(r, a) = {} /\ ~SpdkRefuses(r, a) /\ Breaks(c, {r, after} \cup broken, omap)
          \/ Succeeds(c, FALSE, stashed, new)
          \/ Breaks(c, {stashed}, omap)
      BY <1>10 DEF CreateListener, q, g, r
    <2>3. FirstAna(r) \in [Groups -> AnaStates]
      BY <1>2, FirstAnaType
    <2>4. begun \in SUBSET [Groups -> AnaStates]
      BY <2>3 DEF AnaStates
    <2> HIDE DEF begun
    <2>5. ASSUME AtAddr(r, a) = {}, ~SpdkRefuses(r, a)
          PROVE  /\ Sane(after) /\ after.missed \subseteq r.missed
                 /\ \A n \in {r, after} \cup broken : Sane(n)
      <3>1. Sane(after) /\ after.missed = r.missed
        BY <1>2, <2>1, <2>3, <2>5, ListeningIsSane, FirstAnaIsAsTold
      <3>2. ASSUME NEW ana \in begun PROVE Sane(Unset(Listening(r, a, secure, ana), a))
        BY <1>2, <2>1, <2>4, <2>5, ListeningIsSane
      <3>3. \A n \in broken : Sane(n)
        BY <3>2
      <3> HIDE DEF after, broken
      <3> QED
        BY <1>2, <3>1, <3>3
    <2>6. Sane(stashed) /\ stashed.missed \subseteq r.missed
      BY <1>2, StashedIsSane
    <2> HIDE DEF broken, new, after, stashed
    <2> QED
      BY <1>3, <1>4, <1>5, <2>2, <2>5, <2>6
  <1>11. CASE DeleteListener(c)
    <2>1. q.ask.addr \in Addrs
      BY <1>2, <1>11, AskFields DEF DeleteListener, Locked, q
    <2> DEFINE a == q.ask.addr
               new == WithoutListener(omap, q.ask.host, a)
               after == Removed(r, a)
               unlisted == Unlisted(r, a)
               mixed == \/ a \in Ipv6
                        \/ IsActive(r, a) /\ q.ask.host \notin {g, Star}
                        \/ Stays(r, a)
    <2>2. Sane(after) /\ (mixed \/ after.missed \subseteq r.missed)
      BY <1>2, <2>1, RemovedIsSane
    <2>3. Sane(unlisted)
      BY <1>2, <2>1, UnlistedIsSane
    <2>4. \/ Fails(c) \/ Succeeds(c, mixed, after, new)
          \/ Breaks(c, {r, unlisted}, new) \/ Breaks(c, {after}, omap)
      BY <1>11 DEF DeleteListener, q, g, r
    <2>5. mixed \in BOOLEAN
      BY DEF IsActive, Stays, FindsActive
    <2> HIDE DEF new, after, unlisted, mixed
    <2> QED
      BY <1>2, <1>3, <1>4, <1>5, <2>2, <2>3, <2>4, <2>5
  <1> QED
    BY SMTT(30), <1>6, <1>7, <1>8, <1>9, <1>10, <1>11

LEMMA UpdateKeepsSane ==
    ASSUME ListenerTypeOK, PlannedInv, SaneInv, NEW g \in Gateways, UpdateStep(g)
    PROVE  SaneInv'
  <1>0. gw[g] \in GatewayStates /\ Sane(gw[g])
    BY DEF ListenerTypeOK, SaneInv
  <1>1. CASE StartUpdate(g)
    <2>1. gw' = gw
      BY <1>1 DEF StartUpdate
    <2>2. \A h \in Gateways : troubled[h] => troubled'[h]
      BY <1>1 DEF StartUpdate, ListenerTypeOK
    <2> QED
      BY <2>1, <2>2 DEF SaneInv
  <1>2. CASE UpdateDeleteListener(g)
    <2>1. PICK a \in update[g].dellst :
              \/ Leaves(g, TRUE, gw[g]) \/ Leaves(g, Stays(gw[g], a), Removed(gw[g], a))
      BY <1>2 DEF UpdateDeleteListener
    <2>2. a \in Addrs
      BY <1>2, <2>1 DEF UpdateDeleteListener, Reached, ListenerTypeOK, Updates
    <2>3. /\ Sane(Removed(gw[g], a))
          /\ Stays(gw[g], a) \/ Removed(gw[g], a).missed \subseteq gw[g].missed
      BY <1>0, <2>2, RemovedIsSane
    <2>4. Stays(gw[g], a) \in BOOLEAN
      BY DEF Stays, FindsActive
    <2> QED
      BY <1>0, <2>1, <2>3, <2>4, SaneLeaves
  <1>3. CASE UpdateClose(g)
    <2>1. (gw[g].sub = None) \in BOOLEAN
      OBVIOUS
    <2> QED
      BY <1>0, <1>3, <2>1, AnyIsSane, SaneDoes DEF UpdateClose
  <1>4. CASE UpdateDrop(g)
    <2>1. (gw[g].sub = None) \in BOOLEAN
      OBVIOUS
    <2> QED
      BY <1>0, <1>4, <2>1, DeletedIsSane, SaneDoes DEF UpdateDrop
  <1>5. CASE UpdateCreate(g)
    <2>1. (gw[g].sub # None) \in BOOLEAN
      OBVIOUS
    <2> QED
      BY <1>0, <1>5, <2>1, CreatedIsSane, SaneDoes DEF UpdateCreate
  <1>6. CASE UpdateOpen(g)
    <2>1. NoOpening(gw[g]) \in BOOLEAN
      BY DEF NoOpening, HasSecure
    <2> QED
      BY <1>0, <1>6, <2>1, AnyIsSane, SaneDoes DEF UpdateOpen
  <1>7. CASE UpdateCreateListener(g)
    <2>0. update[g] # None /\ update[g] \in Updates
      BY <1>7 DEF UpdateCreateListener, Reached, ListenerTypeOK
    <2>1. PICK a \in update[g].addlst :
              Does(g, \/ NoListening(gw[g], update[g].st.lst[g][a])
                      \/ AtAddr(gw[g], a) # {} \/ SpdkRefuses(gw[g], a),
                   Listening(gw[g], a, update[g].st.lst[g][a], FirstAna(gw[g])))
      BY <1>7 DEF UpdateCreateListener
    <2> DEFINE secure == update[g].st.lst[g][a]
               refused == NoListening(gw[g], secure) \/ AtAddr(gw[g], a) # {}
                          \/ SpdkRefuses(gw[g], a)
               after == Listening(gw[g], a, secure, FirstAna(gw[g]))
    <2>2. a \in Addrs
      BY <2>0, <2>1 DEF Updates
    <2>3. /\ refused \in BOOLEAN
          /\ ~refused => AtAddr(gw[g], a) = {} /\ ~SpdkRefuses(gw[g], a)
      BY DEF NoListening, SpdkRefuses
    <2>4. secure \in BOOLEAN
      <3>1. update[g].st.lst[g][a] # None
        BY <2>0, <2>1 DEF PlannedInv
      <3> QED
        BY <2>0, <2>2, <3>1 DEF Updates, Contents
    <2> HIDE DEF refused, secure
    <2>5. ~refused => Sane(after) /\ after.missed \subseteq gw[g].missed
      BY <1>0, <2>2, <2>3, <2>4, ListeningIsSane, FirstAnaIsAsTold, FirstAnaType
    <2> QED
      BY <2>1, <2>3, <2>5, SaneDoes DEF refused, secure
  <1>8. CASE UpdateEnd(g)
    BY <1>8, SaneFails DEF UpdateEnd, historyVars
  <1> QED
    BY <1>1, <1>2, <1>3, <1>4, <1>5, <1>6, <1>7, <1>8 DEF UpdateStep

LEMMA AnaKeepsSane ==
    ASSUME ListenerTypeOK, SaneInv, NEW g \in Gateways, SetAnaState(g)
    PROVE  SaneInv'
  <1> DEFINE r == gw[g]
             active == {a \in Addrs : IsActive(r, a)}
  <1>1. r \in GatewayStates /\ Sane(r) /\ (r.missed # {} => troubled[g])
    BY DEF ListenerTypeOK, SaneInv
  <1>2. PICK said \in [Groups -> AnaStates] :
            \/ /\ gw' = [gw EXCEPT ![g] = IF r.sub = None THEN Told(r, said)
                                          ELSE Set(r, said, active, r.list # {})]
               /\ UNCHANGED <<faults, troubled>>
            \/ /\ faults' = faults + 1
               /\ troubled' = [troubled EXCEPT ![g] = TRUE]
               /\ \E reached \in SUBSET active, b \in active,
                     part \in SUBSET Groups, awaited \in BOOLEAN :
                     /\ b \notin reached
                     /\ gw' = [gw EXCEPT ![g] =
                               Stopped(r, said, reached, active \ reached, b, part, awaited)]
    BY SetAnaStateCases, Zenon
  <1>3. CASE /\ gw' = [gw EXCEPT ![g] = IF r.sub = None THEN Told(r, said)
                                         ELSE Set(r, said, active, r.list # {})]
             /\ UNCHANGED <<faults, troubled>>
    <2> DEFINE after == IF r.sub = None THEN Told(r, said)
                        ELSE Set(r, said, active, r.list # {})
    <2>1. Sane(after) /\ after.missed \subseteq r.missed
      BY <1>1, ToldIsSane, SetIsSane
    <2>2. gw' = [gw EXCEPT ![g] = after] /\ troubled' = troubled
      BY <1>3
    <2> HIDE DEF after
    <2> QED
      BY <2>1, <2>2, SaneStep
  <1>4. CASE /\ troubled' = [troubled EXCEPT ![g] = TRUE]
             /\ \E reached \in SUBSET active, b \in active,
                   part \in SUBSET Groups, awaited \in BOOLEAN :
                   /\ b \notin reached
                   /\ gw' = [gw EXCEPT ![g] =
                             Stopped(r, said, reached, active \ reached, b, part, awaited)]
    <2>1. PICK after : Sane(after) /\ gw' = [gw EXCEPT ![g] = after]
      BY <1>1, <1>4, StoppedIsSane
    <2>2. troubled'[g] /\ \A h \in Gateways \ {g} : troubled'[h] = troubled[h]
      BY <1>4 DEF ListenerTypeOK
    <2> QED
      BY <2>1, <2>2, SaneStep
  <1> QED
    BY <1>2, <1>3, <1>4

LEMMA CrashKeepsSane ==
    ASSUME ListenerTypeOK, SaneInv, NEW g \in Gateways, Crash(g)
    PROVE  SaneInv'
  <1>1. /\ gw'[g] = NewGateway
        /\ \A h \in Gateways \ {g} : gw'[h] = gw[h] /\ troubled'[h] = troubled[h]
    BY DEF Crash, ListenerTypeOK
  <1> QED
    BY <1>1, NewGatewayIsSane DEF SaneInv

LEMMA SaneInvariant == ListenerSpec => [](ListenerTypeOK /\ PlannedInv /\ SaneInv)
  <1>1. ListenerInit => SaneInv
    BY ServingIsSane DEF ListenerInit, SaneInv
  <1>2. ListenerTypeOK /\ PlannedInv /\ SaneInv /\ [ListenerNext]_listenerVars =>
            ListenerTypeOK' /\ PlannedInv' /\ SaneInv'
    <2> SUFFICES ASSUME ListenerTypeOK, PlannedInv, SaneInv, [ListenerNext]_listenerVars
                 PROVE  ListenerTypeOK' /\ SaneInv'
      BY PlannedStays
    <2>1. ListenerTypeOK'
      BY TypeStep
    <2>2. CASE UNCHANGED listenerVars
      BY <2>1, <2>2, SaneFails DEF listenerVars, historyVars
    <2>3. ASSUME NEW c \in Clients, Ask(c) \/ Check(c) \/ Retry(c)
          PROVE  SaneInv'
      BY <2>3, SaneFails DEF Ask, Check, Retry, historyVars
    <2> QED
      BY <2>1, <2>2, <2>3, RequestKeepsSane, AnaKeepsSane, UpdateKeepsSane, CrashKeepsSane
      DEF ListenerNext
  <1> QED
    BY <1>1, <1>2, InitType, PTL DEF ListenerSpec

\* The type invariant holds for every set of addresses, groups and requests.
THEOREM ListenerTypeCorrect == ListenerSpec => []ListenerTypeOK
  BY SaneInvariant, PTL

\* Every listener is optimized in the groups the monitor has made optimized
\* here and in no other, whether create_listener came first or set_ana_state
\* and whatever has failed since, up to those that set_ana_state could not
\* reach.
THEOREM AnaIsAsTold == ListenerSpec => []AnaFollowsTheMonitor
  <1>1. SaneInv => AnaFollowsTheMonitor
    BY DEF SaneInv, Sane, AsTold, AnaFollowsTheMonitor
  <1> QED
    BY <1>1, SaneInvariant, PTL

\* The loop of set_ana_state over the list calls SPDK for no listener it does
\* not have, and misses none but those delete_listener took off the list alone.
THEOREM ListenersAreListed == ListenerSpec => []ListIsServed
  <1>1. ListenerTypeOK /\ SaneInv => ListIsServed
    BY DEF ListenerTypeOK, SaneInv, Sane, ListIsServed, IsActive, AtAddr
  <1> QED
    BY <1>1, SaneInvariant, PTL

(***************************************************************************)
(* How a subsystem comes to be open to any host with a secure listener     *)
(***************************************************************************)
\* what SecureIsClosed says of one gateway in one step
OpensRightly(g) ==
    OpenAndSecure(gw'[g]) /\ ~OpenAndSecure(gw[g]) =>
        \/ \E a \in gw[g].secure : ~IsActive(gw[g], a)
        \/ \E c \in Clients : /\ CreateListener(c) \/ OpenToAny(c)
                              /\ req[c].gw = g
                              /\ Outdated(req[c])

\* Most of what the calls do makes no subsystem both.
LEMMA CalmEffects ==
    ASSUME NEW r \in GatewayStates
    PROVE  /\ \A inst : OpenAndSecure(Created(r, inst)) => OpenAndSecure(r)
           /\ ~OpenAndSecure(Deleted(r))
           /\ ~OpenAndSecure([r EXCEPT !.any = FALSE])
           /\ \A a, secure : OpenAndSecure(Stashed(r, a, secure)) => OpenAndSecure(r)
           /\ \A a : /\ OpenAndSecure(Unlisted(r, a)) => OpenAndSecure(r)
                     /\ OpenAndSecure(Removed(r, a)) => OpenAndSecure(r)
           /\ \A said : OpenAndSecure(Told(r, said)) => OpenAndSecure(r)
           /\ \A said, at, awaited : OpenAndSecure(Set(r, said, at, awaited)) => OpenAndSecure(r)
           /\ \A said, at, left, b, part, awaited :
                 OpenAndSecure(Stopped(r, said, at, left, b, part, awaited)) => OpenAndSecure(r)
  <1>1. \A inst : OpenAndSecure(Created(r, inst)) => OpenAndSecure(r)
    BY DEF OpenAndSecure, Created, GatewayStates
  <1>2. ~OpenAndSecure(Deleted(r)) /\ ~OpenAndSecure([r EXCEPT !.any = FALSE])
    BY DEF OpenAndSecure, Deleted, GatewayStates
  <1>3. \A a, secure : OpenAndSecure(Stashed(r, a, secure)) => OpenAndSecure(r)
    BY DEF OpenAndSecure, Stashed, GatewayStates
  <1>4. \A a : /\ OpenAndSecure(Unlisted(r, a)) => OpenAndSecure(r)
               /\ OpenAndSecure(Silent(r, a)) => OpenAndSecure(r)
    BY DEF OpenAndSecure, Unlisted, Silent, GatewayStates
  <1>5. \A a : OpenAndSecure(Removed(r, a)) => OpenAndSecure(r)
    BY <1>4 DEF Removed
  <1>6. \A said : Told(r, said).any = r.any /\ Told(r, said).secure = r.secure
    BY DEF Told, GatewayStates
  <1>7. \A said, at, awaited :
            Set(r, said, at, awaited).any = r.any /\ Set(r, said, at, awaited).secure = r.secure
    BY DEF Set, Told, GatewayStates
  <1>8. \A said, at, left, b, part, awaited :
            /\ Stopped(r, said, at, left, b, part, awaited).any = r.any
            /\ Stopped(r, said, at, left, b, part, awaited).secure = r.secure
    BY DEF Stopped, Set, Told, GatewayStates
  <1> QED
    BY <1>1, <1>2, <1>3, <1>4, <1>5, <1>6, <1>7, <1>8 DEF OpenAndSecure

\* A listener makes it both only if the check of create_listener fails, open
\* access only if add_host's does or a secure listener is not on the list.
LEMMA ListeningIsCalm ==
    ASSUME NEW r \in GatewayStates, NEW a \in Addrs, NEW secure \in BOOLEAN, NEW ana,
           ~NoListening(r, secure),
           NEW n, n = Listening(r, a, secure, ana) \/ n = Unset(Listening(r, a, secure, ana), a),
           OpenAndSecure(n)
    PROVE  OpenAndSecure(r)
  <1>1. n.any = r.any /\ n.secure = IF secure THEN r.secure \cup {a} ELSE r.secure \ {a}
    BY DEF Listening, Unset, GatewayStates
  <1> QED
    BY <1>1 DEF OpenAndSecure, NoListening

LEMMA OpeningIsCalm ==
    ASSUME NEW r \in GatewayStates, Sane(r), ~NoOpening(r), r.secure # {}
    PROVE  \E a \in r.secure : ~IsActive(r, a)
  <1>1. PICK a \in r.secure : TRUE
    OBVIOUS
  <1>2. \A l \in r.list : l.active /\ l.addr = a => l.secure
    BY DEF Sane
  <1> QED
    BY <1>1, <1>2 DEF NoOpening, HasSecure, IsActive, AtAddr

LEMMA RequestOpensRightly ==
    ASSUME ListenerTypeOK, SaneInv, NEW c \in Clients, NEW g \in Gateways,
           CreateSubsystem(c) \/ DeleteSubsystem(c) \/ OpenToAny(c) \/ CloseToAny(c)
           \/ CreateListener(c) \/ DeleteListener(c)
    PROVE  OpensRightly(g)
  <1> SUFFICES ASSUME OpenAndSecure(gw'[g]), ~OpenAndSecure(gw[g])
               PROVE  \/ \E a \in gw[g].secure : ~IsActive(gw[g], a)
                      \/ /\ CreateListener(c) \/ OpenToAny(c)
                         /\ req[c].gw = g
                         /\ Outdated(req[c])
    BY DEF OpensRightly
  <1> DEFINE q == req[c]
             h == q.gw
             r == gw[h]
  <1>1. q \in Requests /\ h \in Gateways /\ q.ask \in AllAsks /\ r \in GatewayStates /\ Sane(r)
    BY LockedRequestType DEF SaneInv, CreateSubsystem, DeleteSubsystem,
       OpenToAny, CloseToAny, CreateListener, DeleteListener, Locked
  <1>2. ~Fails(c)
    BY DEF Fails
  <1>3. ASSUME NEW n, gw' = [gw EXCEPT ![h] = n]
        PROVE  h = g /\ OpenAndSecure(n) /\ ~OpenAndSecure(r)
    BY <1>1, <1>3 DEF ListenerTypeOK
  <1>4. ASSUME NEW mixed, NEW n, NEW new, Succeeds(c, mixed, n, new)
        PROVE  h = g /\ OpenAndSecure(n) /\ ~OpenAndSecure(r)
    BY <1>3, <1>4 DEF Succeeds
  <1>12. ASSUME NEW left, NEW new, Breaks(c, left, new)
         PROVE  h = g /\ ~OpenAndSecure(r) /\ \E n \in left : OpenAndSecure(n)
    BY <1>3, <1>12 DEF Breaks
  <1>5. ~Outdated(q) => ~Refused(r, local[h].st, q.ask)
    BY DEF Outdated
  <1> HIDE DEF q, h, r
  <1>6. CASE CreateSubsystem(c)
    <2> DEFINE after == Created(r, q.inst)
               new == [omap EXCEPT !.sub = q.inst]
    <2>1. OpenAndSecure(after) => OpenAndSecure(r)
      BY <1>1, CalmEffects
    <2>2. Succeeds(c, FALSE, after, new) \/ Breaks(c, {r, after}, omap)
      BY <1>2, <1>6, Zenon DEF CreateSubsystem, q, h, r
    <2> HIDE DEF after, new
    <2>3. CASE Succeeds(c, FALSE, after, new)
      BY <1>4, <2>1, <2>3
    <2>4. CASE Breaks(c, {r, after}, omap)
      <3>1. ~OpenAndSecure(r) /\ \E n \in {r, after} : OpenAndSecure(n)
        BY <1>12, <2>4
      <3> QED
        BY <2>1, <3>1
    <2> QED
      BY <2>2, <2>3, <2>4
  <1>7. CASE DeleteSubsystem(c)
    <2> DEFINE after == Deleted(r)
    <2>1. ~OpenAndSecure(after)
      BY <1>1, CalmEffects
    <2>2. \/ Succeeds(c, FALSE, r, EmptyContent) \/ Succeeds(c, FALSE, after, EmptyContent)
          \/ Breaks(c, {r}, EmptyContent) \/ Breaks(c, {after}, omap)
      BY <1>7 DEF DeleteSubsystem, q, h, r
    <2> HIDE DEF after
    <2>3. ~Succeeds(c, FALSE, r, EmptyContent)
      BY <1>4
    <2>4. ~Succeeds(c, FALSE, after, EmptyContent)
      BY <1>4, <2>1
    <2>5. ~Breaks(c, {r}, EmptyContent)
      <3>1. Breaks(c, {r}, EmptyContent) => ~OpenAndSecure(r) /\ \E n \in {r} : OpenAndSecure(n)
        BY <1>12
      <3> QED
        BY <3>1
    <2>6. ~Breaks(c, {after}, omap)
      <3>1. Breaks(c, {after}, omap) => \E n \in {after} : OpenAndSecure(n)
        BY <1>12
      <3> QED
        BY <2>1, <3>1
    <2> QED
      BY <2>2, <2>3, <2>4, <2>5, <2>6
  <1>8. CASE CloseToAny(c)
    <2> DEFINE after == [r EXCEPT !.any = FALSE]
               new == [omap EXCEPT !.any = FALSE]
    <2>1. ~OpenAndSecure(after)
      BY <1>1, CalmEffects
    <2>2. \/ Succeeds(c, FALSE, r, new) \/ Succeeds(c, FALSE, after, new)
          \/ Breaks(c, {r}, new) \/ Breaks(c, {after}, omap)
      BY <1>8 DEF CloseToAny, q, h, r
    <2> HIDE DEF after, new
    <2>3. ~Succeeds(c, FALSE, r, new)
      BY <1>4
    <2>4. ~Succeeds(c, FALSE, after, new)
      BY <1>4, <2>1
    <2>5. ~Breaks(c, {r}, new)
      <3>1. Breaks(c, {r}, new) => ~OpenAndSecure(r) /\ \E n \in {r} : OpenAndSecure(n)
        BY <1>12
      <3> QED
        BY <3>1
    <2>6. ~Breaks(c, {after}, omap)
      <3>1. Breaks(c, {after}, omap) => \E n \in {after} : OpenAndSecure(n)
        BY <1>12
      <3> QED
        BY <2>1, <3>1
    <2> QED
      BY <2>2, <2>3, <2>4, <2>5, <2>6
  <1>9. CASE DeleteListener(c)
    <2> DEFINE a == q.ask.addr
               new == WithoutListener(omap, q.ask.host, a)
               after == Removed(r, a)
               unlisted == Unlisted(r, a)
    <2>1. /\ OpenAndSecure(after) => OpenAndSecure(r)
          /\ OpenAndSecure(unlisted) => OpenAndSecure(r)
      BY <1>1, CalmEffects
    <2>2. \/ \E mixed : Succeeds(c, mixed, after, new)
          \/ Breaks(c, {r, unlisted}, new) \/ Breaks(c, {after}, omap)
      BY <1>2, <1>9 DEF DeleteListener, q, h, r
    <2> HIDE DEF after, unlisted, new
    <2> QED
      BY <1>4, <1>12, <2>1, <2>2
  <1>10. CASE OpenToAny(c)
    <2> DEFINE after == [r EXCEPT !.any = TRUE]
               new == [omap EXCEPT !.any = TRUE]
    <2>1. after.secure = r.secure
      BY <1>1 DEF GatewayStates
    <2>2. Succeeds(c, FALSE, after, new) \/ Breaks(c, {r, after}, omap)
      BY <1>2, <1>10 DEF OpenToAny, q, h, r
    <2> HIDE DEF after, new
    <2>3. h = g /\ OpenAndSecure(after)
      <3>1. CASE Succeeds(c, FALSE, after, new)
        BY <1>4, <3>1
      <3>2. CASE Breaks(c, {r, after}, omap)
        <4>1. /\ h = g /\ ~OpenAndSecure(r)
              /\ \E n \in {r, after} : OpenAndSecure(n)
          BY <1>12, <3>2
        <4> QED
          BY <4>1
      <3> QED
        BY <2>2, <3>1, <3>2
    <2>4. r.secure # {}
      BY <2>1, <2>3 DEF OpenAndSecure
    <2>5. ~Outdated(q) => ~NoOpening(r)
      BY <1>5, <1>10 DEF OpenToAny, Locked, Refused, q
    <2>6. CASE Outdated(q)
      BY <1>10, <2>3, <2>6 DEF q, h
    <2>7. CASE ~Outdated(q)
      <3>1. \E a \in r.secure : ~IsActive(r, a)
        BY <1>1, <2>4, <2>5, <2>7, OpeningIsCalm
      <3> QED
        BY <2>3, <3>1 DEF r
    <2> QED
      BY <2>6, <2>7
  <1>11. CASE CreateListener(c)
    <2>1. q.ask.addr \in Addrs /\ q.ask.secure \in BOOLEAN /\ q.ask.op = "listen"
      BY <1>1, <1>11, AskFields DEF CreateListener, Locked, q
    <2> DEFINE a == q.ask.addr
               secure == q.ask.secure
               begun == {[p \in Groups |-> IF p \in set THEN FirstAna(r)[p] ELSE "inaccessible"]
                         : set \in SUBSET Groups} \cup {[p \in Groups |-> "optimized"]}
               broken == {Unset(Listening(r, a, secure, ana), a) : ana \in begun}
               new == [omap EXCEPT !.lst[q.ask.host][a] = secure]
               after == Listening(r, a, secure, FirstAna(r))
               stashed == Stashed(r, a, secure)
    <2>2. \/ Succeeds(c, FALSE, after, new)
          \/ Breaks(c, {r, after} \cup broken, omap)
          \/ Succeeds(c, FALSE, stashed, new)
          \/ Breaks(c, {stashed}, omap)
      BY <1>2, <1>11 DEF CreateListener, q, h, r
    <2> HIDE DEF begun
    <2>3. ASSUME ~NoListening(r, secure)
          PROVE  /\ OpenAndSecure(after) => OpenAndSecure(r)
                 /\ \A n \in broken : OpenAndSecure(n) => OpenAndSecure(r)
      <3>1. OpenAndSecure(after) => OpenAndSecure(r)
        BY <1>1, <2>1, <2>3, ListeningIsCalm
      <3>2. ASSUME NEW ana \in begun, OpenAndSecure(Unset(Listening(r, a, secure, ana), a))
            PROVE  OpenAndSecure(r)
        BY <1>1, <2>1, <2>3, <3>2, ListeningIsCalm
      <3> QED
        BY <3>1, <3>2
    <2>4. OpenAndSecure(stashed) => OpenAndSecure(r)
      BY <1>1, CalmEffects
    <2> HIDE DEF broken, new, after, stashed
    <2>5. h = g
      BY <1>4, <1>12, <2>2
    <2>6. NoListening(r, secure)
      BY <1>4, <1>12, <2>2, <2>3, <2>4
    <2>7. Outdated(q)
      BY <1>5, <2>1, <2>6 DEF Refused
    <2> QED
      BY <1>11, <2>5, <2>7 DEF q, h
  <1> QED
    BY <1>6, <1>7, <1>8, <1>9, <1>10, <1>11

LEMMA UpdateOpensRightly ==
    ASSUME ListenerTypeOK, PlannedInv, SaneInv, NEW h \in Gateways, UpdateStep(h),
           NEW g \in Gateways
    PROVE  OpensRightly(g)
  <1> SUFFICES ASSUME OpenAndSecure(gw'[g]), ~OpenAndSecure(gw[g])
               PROVE  \E a \in gw[g].secure : ~IsActive(gw[g], a)
    BY DEF OpensRightly
  <1> DEFINE r == gw[g]
  <1>1. r \in GatewayStates /\ Sane(r)
    BY DEF ListenerTypeOK, SaneInv
  <1>2. \A trouble, n : Leaves(h, trouble, n) => h = g /\ OpenAndSecure(n)
    BY DEF Leaves, ListenerTypeOK
  <1>3. \A refused, n : Does(h, refused, n) => h = g /\ ~refused /\ OpenAndSecure(n)
    <2> SUFFICES ASSUME NEW refused, NEW n, Does(h, refused, n)
                 PROVE  h = g /\ ~refused /\ OpenAndSecure(n)
      OBVIOUS
    <2>1. h = g /\ OpenAndSecure(IF refused THEN gw[h] ELSE n)
      BY <1>2 DEF Does
    <2> QED
      BY <2>1
  <1>4. ~StartUpdate(h) /\ ~UpdateEnd(h)
    BY DEF StartUpdate, UpdateEnd
  <1>5. CASE UpdateDeleteListener(h)
    BY <1>1, <1>2, <1>5, CalmEffects DEF UpdateDeleteListener
  <1>6. CASE UpdateClose(h) \/ UpdateDrop(h) \/ UpdateCreate(h)
    BY <1>1, <1>3, <1>6, CalmEffects DEF UpdateClose, UpdateDrop, UpdateCreate
  <1>7. CASE UpdateOpen(h)
    <2>1. ~NoOpening(r) /\ OpenAndSecure([r EXCEPT !.any = TRUE])
      BY <1>3, <1>7 DEF UpdateOpen
    <2>2. r.secure # {}
      BY <1>1, <2>1 DEF OpenAndSecure, GatewayStates
    <2> QED
      BY <1>1, <2>1, <2>2, OpeningIsCalm
  <1>8. CASE UpdateCreateListener(h)
    <2>1. update[h] # None /\ update[h] \in Updates
      BY <1>8 DEF UpdateCreateListener, Reached, ListenerTypeOK
    <2>2. PICK a \in update[h].addlst :
              Does(h, \/ NoListening(gw[h], update[h].st.lst[h][a])
                      \/ AtAddr(gw[h], a) # {} \/ SpdkRefuses(gw[h], a),
                   Listening(gw[h], a, update[h].st.lst[h][a], FirstAna(gw[h])))
      BY <1>8 DEF UpdateCreateListener
    <2> DEFINE secure == update[h].st.lst[h][a]
    <2>3. a \in Addrs /\ secure \in BOOLEAN
      BY <2>1, <2>2 DEF Updates, Contents, PlannedInv
    <2>4. h = g /\ ~NoListening(r, secure) /\ OpenAndSecure(Listening(r, a, secure, FirstAna(r)))
      BY <1>3, <2>2
    <2> HIDE DEF secure, r
    <2>5. OpenAndSecure(r)
      BY <1>1, <2>3, <2>4, ListeningIsCalm
    <2> QED
      BY <2>5 DEF r
  <1> QED
    BY <1>4, <1>5, <1>6, <1>7, <1>8 DEF UpdateStep

\* A subsystem comes to be open to any host and to listen with a secure channel
\* only when create_listener or add_host has waited for the OMAP lock while
\* its check ceased to hold, or when a secure listener is in SPDK that
\* delete_listener took off the list: neither a failed call nor update(), a
\* change of ANA states or a restart does it.
THEOREM SecureStaysClosed == ListenerSpec => SecureIsClosed
  <1>1. ListenerTypeOK /\ PlannedInv /\ SaneInv /\ [ListenerNext]_listenerVars =>
            [\A g \in Gateways : OpensRightly(g)]_listenerVars
    <2> SUFFICES ASSUME ListenerTypeOK, PlannedInv, SaneInv, ListenerNext, NEW g \in Gateways
                 PROVE  OpensRightly(g)
      OBVIOUS
    <2>1. CASE gw' = gw
      BY <2>1 DEF OpensRightly
    <2>2. ASSUME NEW c \in Clients, Ask(c) \/ Check(c) \/ Retry(c) PROVE gw' = gw
      BY <2>2 DEF Ask, Check, Retry
    <2>3. ASSUME NEW h \in Gateways, Crash(h) PROVE OpensRightly(g)
      <3>1. gw' = [gw EXCEPT ![h] = NewGateway] /\ ~OpenAndSecure(NewGateway)
        BY <2>3 DEF Crash, OpenAndSecure, NewGateway
      <3> QED
        BY <3>1 DEF OpensRightly, ListenerTypeOK
    <2>4. ASSUME NEW h \in Gateways, SetAnaState(h) PROVE OpensRightly(g)
      <3> DEFINE r == gw[h]
                 active == {a \in Addrs : IsActive(r, a)}
      <3>1. r \in GatewayStates
        BY DEF ListenerTypeOK
      <3>2. ASSUME NEW n, gw' = [gw EXCEPT ![h] = n], OpenAndSecure(n) => OpenAndSecure(r)
            PROVE  OpensRightly(g)
        BY <3>2 DEF OpensRightly, ListenerTypeOK
      <3>3. PICK said \in [Groups -> AnaStates] :
               \/ /\ gw' = [gw EXCEPT ![h] =
                        IF r.sub = None THEN Told(r, said)
                        ELSE Set(r, said, active, r.list # {})]
                  /\ UNCHANGED <<faults, troubled>>
               \/ /\ faults' = faults + 1
                  /\ troubled' = [troubled EXCEPT ![h] = TRUE]
                  /\ \E reached \in SUBSET active, b \in active,
                        part \in SUBSET Groups, awaited \in BOOLEAN :
                        /\ b \notin reached
                        /\ gw' = [gw EXCEPT ![h] =
                              Stopped(r, said, reached, active \ reached, b, part, awaited)]
        BY <2>4, SetAnaStateCases
      <3> HIDE DEF r, active
      <3>4. CASE gw' = [gw EXCEPT ![h] = IF r.sub = None THEN Told(r, said)
                                         ELSE Set(r, said, active, r.list # {})]
        <4> DEFINE n == IF r.sub = None THEN Told(r, said)
                        ELSE Set(r, said, active, r.list # {})
        <4>1. OpenAndSecure(n) => OpenAndSecure(r)
          BY <3>1, CalmEffects
        <4>2. gw' = [gw EXCEPT ![h] = n]
          BY <3>4
        <4> HIDE DEF n
        <4> QED
          BY <3>2, <4>1, <4>2
      <3>5. ASSUME NEW reached \in SUBSET active, NEW b \in active,
                   NEW part \in SUBSET Groups, NEW awaited \in BOOLEAN,
                   gw' = [gw EXCEPT ![h] =
                      Stopped(r, said, reached, active \ reached, b, part, awaited)]
            PROVE  OpensRightly(g)
        <4>1. OpenAndSecure(Stopped(r, said, reached, active \ reached, b, part, awaited))
                 => OpenAndSecure(r)
          BY <3>1, CalmEffects
        <4> QED
          BY <3>2, <3>5, <4>1
      <3> QED
        BY Zenon, <3>3, <3>4, <3>5
    <2> QED
      BY <2>1, <2>2, <2>3, <2>4, RequestOpensRightly, UpdateOpensRightly DEF ListenerNext
  <1> QED
    BY <1>1, SaneInvariant, PTL DEF ListenerSpec, SecureIsClosed, OpensRightly

(***************************************************************************)
(* The gateways follow the OMAP                                            *)
(***************************************************************************)
\* A gateway is at a version of the OMAP, and its update() between it and the
\* latest; at the latest version it has the content of the OMAP.
VersionInv ==
    /\ version >= 2
    /\ \A g \in Gateways :
          /\ local[g].ver <= version
          /\ local[g].ver = version => local[g].st = omap
          /\ update[g] # None =>
                /\ local[g].ver < update[g].ver /\ update[g].ver <= version
                /\ update[g].ver = version => update[g].st = omap

\* Nothing is left of a subsystem that is not there.
Grounded(st) == st.sub = None => st = EmptyContent

\* what a gateway listens to
Listens(r, a, s) == \E l \in AtAddr(r, a) : l.active /\ l.secure = s

Follows(r, st, g) ==
    /\ r.sub = st.sub
    /\ r.any <=> st.any
    /\ \A a \in Addrs, s \in BOOLEAN : Listens(r, a, s) <=> st.lst[g][a] = s

\* The calls an update has left, in their order, make of r what its content
\* says, if none of them is refused.
LeadsTo(r, u, g) ==
    /\ u.add = {} => u.st.sub = IF u.drop # {} THEN None ELSE r.sub
    /\ u.st.any <=> (u.addany # {} \/ (u.drop = {} /\ u.delany = {} /\ r.any))
    /\ \A a \in Addrs \ u.addlst, s \in BOOLEAN :
          u.st.lst[g][a] = s <=> (u.drop = {} /\ a \notin u.dellst /\ Listens(r, a, s))

FollowsAt(g) ==
    IF update[g] = None THEN Follows(gw[g], local[g].st, g) ELSE LeadsTo(gw[g], update[g], g)

GroundedInv ==
    /\ Grounded(omap)
    /\ \A g \in Gateways :
          Grounded(local[g].st) /\ (update[g] # None => Grounded(update[g].st))

FollowInv ==
    ~outdated => GroundedInv /\ \A g \in Gateways : ~troubled[g] => FollowsAt(g)

\* A gateway that is not behind holds the OMAP, and no update() of it is under
\* way: nothing interferes with its locked request.
LEMMA NotBehind ==
    ASSUME ListenerTypeOK, VersionInv, NEW g \in Gateways, ~Behind(g)
    PROVE  local[g].ver = version /\ local[g].st = omap /\ update[g] = None
  <1>1. /\ local[g].ver \in Nat /\ version \in Nat
        /\ update[g] # None => update[g].ver \in Nat
    BY DEF ListenerTypeOK, Updates
  <1>2. local[g].ver = version /\ local[g].st = omap
    BY <1>1 DEF VersionInv, Behind
  <1>3. update[g] # None => FALSE
    BY <1>1, <1>2 DEF VersionInv
  <1> QED
    BY <1>2, <1>3

LEMMA WriteKeepsVersions ==
    ASSUME ListenerTypeOK, VersionInv, NEW g \in Gateways, ~Behind(g), NEW new,
           NEW adds \in BOOLEAN, Write(g, new, adds), UNCHANGED update
    PROVE  /\ VersionInv'
           /\ local' = [local EXCEPT ![g] = [ver |-> local'[g].ver, st |-> new]]
  <1>1. local[g].ver = version /\ local[g].st = omap /\ update[g] = None
    BY NotBehind
  <1>2. CASE ~adds /\ new = omap
    <2>1. /\ omap' = omap /\ version' = version
          /\ local' = [local EXCEPT ![g] = [ver |-> version, st |-> omap]]
      BY <1>1, <1>2 DEF Write
    <2>2. \A h \in Gateways : local'[h].ver = local[h].ver /\ local'[h].st = local[h].st
      BY <1>1, <2>1 DEF ListenerTypeOK
    <2>3. local' = [local EXCEPT ![g] = [ver |-> local'[g].ver, st |-> new]]
      BY <1>1, <1>2, <2>1 DEF ListenerTypeOK
    <2> QED
      BY <2>1, <2>2, <2>3 DEF VersionInv
  <1>3. CASE adds \/ new # omap
    <2>1. /\ omap' = new /\ version' = version + 1
          /\ local' = [local EXCEPT ![g] = [ver |-> version + 1, st |-> new]]
      BY <1>3 DEF Write
    <2>2. /\ local'[g].ver = version + 1 /\ local'[g].st = new
          /\ \A h \in Gateways \ {g} : local'[h] = local[h]
      BY <2>1 DEF ListenerTypeOK
    <2>3. local' = [local EXCEPT ![g] = [ver |-> local'[g].ver, st |-> new]]
      BY <2>1, <2>2 DEF ListenerTypeOK
    <2>4. /\ version \in Nat
          /\ \A h \in Gateways : local[h].ver \in Nat
          /\ \A h \in Gateways : update[h] # None => update[h].ver \in Nat
      BY DEF ListenerTypeOK, Updates
    <2> QED
      BY <1>1, <2>1, <2>2, <2>3, <2>4 DEF VersionInv
  <1> QED
    BY <1>2, <1>3

\* what a locked request does to the OMAP, by its outcome
LEMMA RequestWrites ==
    ASSUME ListenerTypeOK, NEW c \in Clients,
           CreateSubsystem(c) \/ DeleteSubsystem(c) \/ OpenToAny(c) \/ CloseToAny(c)
           \/ CreateListener(c) \/ DeleteListener(c)
    PROVE  \/ Fails(c)
           \/ /\ req[c] \in Requests /\ ~Behind(req[c].gw)
              /\ UNCHANGED update
              /\ \E new : \E adds \in BOOLEAN : Write(req[c].gw, new, adds)
  <1>1. req[c] \in Requests /\ ~Behind(req[c].gw)
    BY DEF CreateSubsystem, DeleteSubsystem, OpenToAny, CloseToAny, CreateListener,
       DeleteListener, Locked, ListenerTypeOK
  <1>0. Adds(req[c]) \in BOOLEAN
    BY DEF Adds
  <1>2. \A mixed, r, new : Succeeds(c, mixed, r, new) =>
            UNCHANGED update /\ \E adds \in BOOLEAN : Write(req[c].gw, new, adds)
    BY <1>0 DEF Succeeds
  <1>3. \A left, new : Breaks(c, left, new) =>
            UNCHANGED update /\ \E adds \in BOOLEAN : Write(req[c].gw, new, adds)
    BY DEF Breaks
  <1>4. CASE CreateSubsystem(c)
    BY <1>1, <1>2, <1>3, <1>4 DEF CreateSubsystem
  <1>5. CASE DeleteSubsystem(c)
    BY <1>1, <1>2, <1>3, <1>5 DEF DeleteSubsystem
  <1>6. CASE OpenToAny(c)
    BY <1>1, <1>2, <1>3, <1>6 DEF OpenToAny
  <1>7. CASE CloseToAny(c)
    BY <1>1, <1>2, <1>3, <1>7 DEF CloseToAny
  <1>8. CASE CreateListener(c)
    BY <1>1, <1>2, <1>3, <1>8, Zenon DEF CreateListener
  <1>9. CASE DeleteListener(c)
    BY <1>1, <1>2, <1>3, <1>9, Zenon DEF DeleteListener
  <1> QED
    BY SMTT(30), <1>4, <1>5, <1>6, <1>7, <1>8, <1>9

\* A call of update() leaves what the update has read.
LEMMA UpdateLeaves ==
    ASSUME ListenerTypeOK, NEW g \in Gateways, UpdateStep(g), ~StartUpdate(g), ~UpdateEnd(g)
    PROVE  /\ UNCHANGED <<omapVars, local>> /\ update[g] # None
           /\ \A h \in Gateways \ {g} : update'[h] = update[h]
           /\ update'[g].ver = update[g].ver /\ update'[g].st = update[g].st
  <1>1. update[g] # None => update[g] \in Updates
    BY DEF ListenerTypeOK
  <1>2. /\ \A trouble, r : Leaves(g, trouble, r) => UNCHANGED <<omapVars, local>>
        /\ \A refused, r : Does(g, refused, r) => UNCHANGED <<omapVars, local>>
    BY DEF Does, Leaves
  <1>3. CASE UpdateDeleteListener(g)
    <2>1. PICK a \in update[g].dellst :
              /\ update' = [update EXCEPT ![g].dellst = @ \ {a}]
              /\ \E trouble, r : Leaves(g, trouble, r)
      BY <1>3, Zenon DEF UpdateDeleteListener
    <2>2. update[g] # None
      BY <1>3 DEF UpdateDeleteListener, Reached
    <2> QED
      BY <1>1, <1>2, <2>1, <2>2 DEF ListenerTypeOK, Updates
  <1>4. CASE UpdateClose(g)
    BY <1>1, <1>2, <1>4 DEF UpdateClose, Reached, ListenerTypeOK, Updates
  <1>5. CASE UpdateDrop(g)
    BY <1>1, <1>2, <1>5 DEF UpdateDrop, Reached, ListenerTypeOK, Updates
  <1>6. CASE UpdateCreate(g)
    BY <1>1, <1>2, <1>6 DEF UpdateCreate, Reached, ListenerTypeOK, Updates
  <1>7. CASE UpdateOpen(g)
    BY <1>1, <1>2, <1>7 DEF UpdateOpen, Reached, ListenerTypeOK, Updates
  <1>8. CASE UpdateCreateListener(g)
    <2>1. PICK a \in update[g].addlst :
              /\ update' = [update EXCEPT ![g].addlst = @ \ {a}]
              /\ \E refused, r : Does(g, refused, r)
      BY <1>8 DEF UpdateCreateListener
    <2>2. update[g] # None
      BY <1>8 DEF UpdateCreateListener, Reached
    <2> QED
      BY <1>1, <1>2, <2>1, <2>2 DEF ListenerTypeOK, Updates
  <1> QED
    BY <1>3, <1>4, <1>5, <1>6, <1>7, <1>8 DEF UpdateStep

LEMMA VersionsStay ==
    ASSUME ListenerTypeOK, VersionInv, [ListenerNext]_listenerVars
    PROVE  VersionInv'
  <1>1. CASE UNCHANGED listenerVars
    BY <1>1 DEF VersionInv, listenerVars, omapVars
  <1>2. ASSUME UNCHANGED <<omapVars, local, update>> PROVE VersionInv'
    BY <1>2 DEF VersionInv, omapVars
  <1>3. ASSUME NEW c \in Clients, Ask(c) \/ Check(c) \/ Retry(c) PROVE VersionInv'
    BY <1>2, <1>3 DEF Ask, Check, Retry
  <1>4. ASSUME NEW c \in Clients,
               CreateSubsystem(c) \/ DeleteSubsystem(c) \/ OpenToAny(c) \/ CloseToAny(c)
               \/ CreateListener(c) \/ DeleteListener(c)
        PROVE  VersionInv'
    <2>1. CASE Fails(c)
      BY <1>2, <2>1 DEF Fails
    <2>2. CASE /\ req[c] \in Requests /\ ~Behind(req[c].gw)
               /\ UNCHANGED update
               /\ \E new : \E adds \in BOOLEAN : Write(req[c].gw, new, adds)
      <3>1. req[c].gw \in Gateways
        BY <2>2 DEF Requests
      <3> QED
        BY <2>2, <3>1, WriteKeepsVersions
    <2> QED
      BY <1>4, <2>1, <2>2, RequestWrites
  <1>5. ASSUME NEW g \in Gateways, SetAnaState(g) PROVE VersionInv'
    BY <1>2, <1>5 DEF SetAnaState
  <1>6. ASSUME NEW g \in Gateways, Crash(g) PROVE VersionInv'
    BY <1>6 DEF Crash, omapVars, VersionInv, ListenerTypeOK
  <1>7. ASSUME NEW g \in Gateways, UpdateStep(g) PROVE VersionInv'
    <2>1. CASE StartUpdate(g)
      <3>1. /\ UNCHANGED <<omapVars, local>> /\ Behind(g)
            /\ \A h \in Gateways \ {g} : update'[h] = update[h]
            /\ update'[g].ver = version /\ update'[g].st = omap
        BY <2>1 DEF StartUpdate, ListenerTypeOK
      <3> QED
        BY <3>1 DEF VersionInv, Behind, omapVars, ListenerTypeOK
    <2>2. CASE UpdateEnd(g)
      <3>1. /\ UNCHANGED omapVars /\ update[g] # None /\ update'[g] = None
            /\ local'[g].ver = update[g].ver /\ local'[g].st = update[g].st
            /\ \A h \in Gateways \ {g} : update'[h] = update[h] /\ local'[h] = local[h]
        BY <2>2 DEF UpdateEnd, Reached, ListenerTypeOK
      <3> QED
        BY <3>1 DEF VersionInv, omapVars
    <2>3. CASE ~StartUpdate(g) /\ ~UpdateEnd(g)
      <3>1. /\ UNCHANGED <<omapVars, local>> /\ update[g] # None
            /\ \A h \in Gateways \ {g} : update'[h] = update[h]
            /\ update'[g].ver = update[g].ver /\ update'[g].st = update[g].st
        BY <1>7, <2>3, UpdateLeaves
      <3> QED
        BY <3>1 DEF VersionInv, omapVars
    <2> QED
      BY <2>1, <2>2, <2>3
  <1> QED
    BY <1>1, <1>3, <1>4, <1>5, <1>6, <1>7 DEF ListenerNext

\* What the calls change of what a gateway listens to, and of its access.
LEMMA SameList ==
    ASSUME NEW r, NEW n, n.list = r.list
    PROVE  \A b \in Addrs, s \in BOOLEAN : Listens(n, b, s) <=> Listens(r, b, s)
  BY DEF Listens, AtAddr

LEMMA CreatedEffect ==
    ASSUME NEW r \in GatewayStates, NEW inst
    PROVE  /\ Created(r, inst).sub = inst /\ Created(r, inst).any = r.any
           /\ \A b \in Addrs, s \in BOOLEAN : Listens(Created(r, inst), b, s) <=> Listens(r, b, s)
  <1>1. Created(r, inst).list = r.list
    BY DEF Created, GatewayStates
  <1> QED
    BY <1>1, SameList DEF Created, GatewayStates

LEMMA DeletedEffect ==
    ASSUME NEW r \in GatewayStates
    PROVE  /\ Deleted(r).sub = None /\ Deleted(r).any = FALSE
           /\ \A b \in Addrs, s \in BOOLEAN : ~Listens(Deleted(r), b, s)
  BY DEF Deleted, Listens, AtAddr, GatewayStates

LEMMA AnyEffect ==
    ASSUME NEW r \in GatewayStates, NEW any \in BOOLEAN
    PROVE  /\ [r EXCEPT !.any = any].sub = r.sub /\ [r EXCEPT !.any = any].any = any
           /\ \A b \in Addrs, s \in BOOLEAN :
                 Listens([r EXCEPT !.any = any], b, s) <=> Listens(r, b, s)
  <1>1. [r EXCEPT !.any = any].list = r.list
    BY DEF GatewayStates
  <1> QED
    BY <1>1, SameList DEF GatewayStates

LEMMA RemovedEffect ==
    ASSUME NEW r \in GatewayStates, NEW a \in Addrs,
           NEW n, n = Removed(r, a) \/ n = Unlisted(r, a)
    PROVE  /\ n.sub = r.sub /\ n.any = r.any
           /\ \A b \in Addrs, s \in BOOLEAN : Listens(n, b, s) <=> Listens(r, b, s) /\ b # a
  <1>1. n.list = r.list \ AtAddr(r, a) /\ n.sub = r.sub /\ n.any = r.any
    BY DEF Removed, Silent, Unlisted, GatewayStates
  <1> QED
    BY <1>1 DEF Listens, AtAddr

LEMMA StashedEffect ==
    ASSUME NEW r \in GatewayStates, NEW a \in Addrs, NEW secure \in BOOLEAN
    PROVE  /\ Stashed(r, a, secure).sub = r.sub /\ Stashed(r, a, secure).any = r.any
           /\ \A b \in Addrs, s \in BOOLEAN :
                 Listens(Stashed(r, a, secure), b, s) <=> Listens(r, b, s)
  <1> DEFINE l == [addr |-> a, secure |-> secure, active |-> FALSE]
  <1>1. Stashed(r, a, secure) = [r EXCEPT !.list = r.list \cup {l}]
    BY DEF Stashed, GatewayStates
  <1>2. l.active = FALSE
    OBVIOUS
  <1> HIDE DEF l
  <1> QED
    BY <1>1, <1>2 DEF Listens, AtAddr, GatewayStates

LEMMA ListeningEffect ==
    ASSUME NEW r \in GatewayStates, NEW a \in Addrs, NEW secure \in BOOLEAN, NEW ana
    PROVE  /\ Listening(r, a, secure, ana).sub = r.sub
           /\ Listening(r, a, secure, ana).any = r.any
           /\ \A b \in Addrs, s \in BOOLEAN :
                 Listens(Listening(r, a, secure, ana), b, s) <=>
                     Listens(r, b, s) \/ (b = a /\ s = secure)
  <1> DEFINE l == [addr |-> a, secure |-> secure, active |-> TRUE]
             n == Listening(r, a, secure, ana)
  <1>1. n.list = r.list \cup {l} /\ n.sub = r.sub /\ n.any = r.any
    BY DEF Listening, GatewayStates
  <1>2. l.active = TRUE /\ l.addr = a /\ l.secure = secure
    OBVIOUS
  <1> HIDE DEF l, n
  <1>3. \A b \in Addrs : AtAddr(n, b) = AtAddr(r, b) \cup (IF b = a THEN {l} ELSE {})
    BY <1>1, <1>2 DEF AtAddr
  <1>4. \A b \in Addrs, s \in BOOLEAN :
            Listens(n, b, s) <=> Listens(r, b, s) \/ (b = a /\ s = secure)
    BY <1>2, <1>3 DEF Listens
  <1> QED
    BY <1>1, <1>4 DEF n

LEMMA AnaEffect ==
    ASSUME NEW r \in GatewayStates, NEW said, NEW n, NEW at, NEW left, NEW b, NEW part,
           NEW awaited,
           \/ n = Told(r, said) \/ n = Set(r, said, at, awaited)
           \/ n = Stopped(r, said, at, left, b, part, awaited)
    PROVE  /\ n.sub = r.sub /\ n.any = r.any
           /\ \A a \in Addrs, s \in BOOLEAN : Listens(n, a, s) <=> Listens(r, a, s)
  <1>1. n.sub = r.sub /\ n.any = r.any /\ n.list = r.list
    BY DEF Told, Set, Stopped, GatewayStates
  <1> QED
    BY <1>1, SameList

LEMMA SameContent ==
    ASSUME NEW x \in Contents, NEW y \in Contents,
           x.sub = y.sub, x.any = y.any, x.lst = y.lst
    PROVE  x = y
  BY DEF Contents

\* What is removed of an empty content leaves it.
LEMMA RemovalsAreGrounded ==
    ASSUME NEW st \in Contents, Grounded(st)
    PROVE  /\ Grounded([st EXCEPT !.any = FALSE])
           /\ \A host \in Gateways \cup {Star}, a \in Addrs :
                 Grounded(WithoutListener(st, host, a))
  <1>1. CASE st.sub # None
    <2>1. [st EXCEPT !.any = FALSE].sub = st.sub
      BY DEF Contents
    <2>2. ASSUME NEW host, NEW a PROVE WithoutListener(st, host, a).sub = st.sub
      <3>1. \A lst : [st EXCEPT !.lst = lst].sub = st.sub
        BY DEF Contents
      <3> QED
        BY <3>1 DEF WithoutListener
    <2> QED
      BY <1>1, <2>1, <2>2 DEF Grounded
  <1>2. CASE st.sub = None
    <2>1. st = EmptyContent
      BY <1>2 DEF Grounded
    <2> DEFINE none == [g \in Gateways |-> NoListeners]
    <2>0. EmptyContent = [sub |-> None, any |-> FALSE, lst |-> none]
      BY DEF EmptyContent
    <2> HIDE DEF none
    <2>2. [st EXCEPT !.any = FALSE] = EmptyContent
      <3>1. [EmptyContent EXCEPT !.any = FALSE] = EmptyContent
        <4>1. /\ EmptyContent \in Contents /\ [EmptyContent EXCEPT !.any = FALSE] \in Contents
              /\ EmptyContent.any = FALSE
          BY <2>0, EmptyContentType DEF Contents
        <4> QED
          BY <4>1, SameContent DEF Contents
      <3> QED
        BY <2>1, <3>1
    <2>3. ASSUME NEW host \in Gateways \cup {Star}, NEW a \in Addrs
          PROVE  WithoutListener(st, host, a) = EmptyContent
      <3> DEFINE lst == [g \in Gateways |->
                            IF host \in {g, Star} THEN [st.lst[g] EXCEPT ![a] = None]
                            ELSE st.lst[g]]
      <3>1. \A g \in Gateways : st.lst[g] = NoListeners
        BY <2>1 DEF EmptyContent
      <3>2. [NoListeners EXCEPT ![a] = None] = NoListeners
        BY DEF NoListeners
      <3>3. lst = [g \in Gateways |-> NoListeners]
        BY <3>1, <3>2
      <3>4. [st EXCEPT !.lst = lst] = EmptyContent
        <4>1. [EmptyContent EXCEPT !.lst = none] = EmptyContent
          <5>1. /\ EmptyContent \in Contents /\ EmptyContent.lst = none
                /\ [EmptyContent EXCEPT !.lst = none] \in Contents
            BY <2>0, EmptyContentType DEF Contents
          <5> QED
            BY <5>1, SameContent DEF Contents
        <4> QED
          BY <2>1, <3>3, <4>1 DEF none
      <3> QED
        BY <2>1, <3>4 DEF WithoutListener
    <2> QED
      BY <2>2, <2>3 DEF Grounded
  <1> QED
    BY <1>1, <1>2

\* A locked request begins at a gateway that follows the OMAP, unless the
\* gateway is troubled.
LEMMA LockedFollows ==
    ASSUME ListenerTypeOK, VersionInv, FollowInv, ~outdated,
           NEW g \in Gateways, ~Behind(g)
    PROVE  /\ Grounded(omap) /\ update[g] = None
           /\ ~troubled[g] => Follows(gw[g], omap, g)
  BY NotBehind DEF FollowInv, GroundedInv, FollowsAt

\* What a request does to the gateway it also does to the OMAP.
LEMMA FollowSucceeds ==
    ASSUME ListenerTypeOK, VersionInv, FollowInv, NEW c \in Clients, req[c] \in Requests,
           ~Behind(req[c].gw), NEW mixed \in BOOLEAN, NEW r \in GatewayStates,
           NEW new, Succeeds(c, mixed, r, new),
           Grounded(omap) /\ Follows(gw[req[c].gw], omap, req[c].gw) /\ ~Outdated(req[c]) =>
               Grounded(new) /\ (~mixed => Follows(r, new, req[c].gw))
    PROVE  FollowInv'
  <1> DEFINE g == req[c].gw
  <1>1. SUFFICES ASSUME ~outdated'
                 PROVE  GroundedInv' /\ \A h \in Gateways : ~troubled'[h] => FollowsAt(h)'
    BY DEF FollowInv
  <1>2. g \in Gateways
    BY DEF Requests
  <1>3. /\ gw' = [gw EXCEPT ![g] = r] /\ update' = update
        /\ troubled' = [troubled EXCEPT ![g] = @ \/ mixed \/ Outdated(req[c])]
        /\ Write(g, new, Adds(req[c]))
        /\ ~outdated /\ (new = omap \/ (~troubled[g] /\ ~Outdated(req[c])))
    BY <1>1 DEF Succeeds
  <1> HIDE DEF g
  <1>4. /\ Grounded(omap) /\ update[g] = None
        /\ ~troubled[g] => Follows(gw[g], omap, g)
    BY <1>2, <1>3, LockedFollows DEF g
  <1>5. /\ local' = [local EXCEPT ![g] = [ver |-> local'[g].ver, st |-> new]]
        /\ omap' = new
    BY <1>2, <1>3, WriteKeepsVersions DEF Write, Adds, g
  <1>6. local'[g].st = new /\ \A h \in Gateways \ {g} : local'[h] = local[h]
    <2>1. local' = [local EXCEPT ![g] = [ver |-> local'[g].ver, st |-> new]]
      BY <1>5
    <2>2. [ver |-> local'[g].ver, st |-> new].st = new
      OBVIOUS
    <2> QED
      BY <1>2, <2>1, <2>2 DEF ListenerTypeOK
  <1>7. Grounded(new)
    BY <1>3, <1>4 DEF g
  <1>8. GroundedInv'
    <2>1. ASSUME NEW h \in Gateways
          PROVE  Grounded(local'[h].st) /\ (update'[h] # None => Grounded(update'[h].st))
      BY <1>3, <1>6, <1>7, <2>1 DEF FollowInv, GroundedInv
    <2> QED
      BY <1>5, <1>7, <2>1 DEF GroundedInv, Grounded
  <1>9. ASSUME NEW h \in Gateways, ~troubled'[h] PROVE FollowsAt(h)'
    <2>1. CASE h = g
      <3>1. ~troubled[g] /\ ~mixed /\ ~Outdated(req[c])
        BY <1>2, <1>3, <1>9, <2>1 DEF ListenerTypeOK
      <3>2. Follows(r, new, g)
        BY <1>4, <3>1 DEF g
      <3>3. gw'[g] = r
        BY <1>2, <1>3 DEF ListenerTypeOK
      <3> QED
        BY <1>3, <1>4, <1>6, <2>1, <3>2, <3>3 DEF FollowsAt
    <2>2. CASE h # g
      <3>1. /\ gw'[h] = gw[h] /\ local'[h] = local[h] /\ update'[h] = update[h]
            /\ ~troubled[h]
        BY <1>2, <1>3, <1>6, <1>9, <2>2 DEF ListenerTypeOK
      <3> QED
        BY <1>3, <3>1 DEF FollowInv, FollowsAt
    <2> QED
      BY <2>1, <2>2
  <1> QED
    BY <1>8, <1>9

\* A request that breaks leaves its gateway troubled.
LEMMA FollowBreaks ==
    ASSUME ListenerTypeOK, VersionInv, FollowInv, NEW c \in Clients, req[c] \in Requests,
           ~Behind(req[c].gw), NEW left \in SUBSET GatewayStates,
           NEW new, Breaks(c, left, new),
           Grounded(omap) => Grounded(new)
    PROVE  FollowInv'
  <1> DEFINE g == req[c].gw
  <1>1. SUFFICES ASSUME ~outdated'
                 PROVE  GroundedInv' /\ \A h \in Gateways : ~troubled'[h] => FollowsAt(h)'
    BY DEF FollowInv
  <1>2. g \in Gateways
    BY DEF Requests
  <1>3. /\ \E r \in left : gw' = [gw EXCEPT ![g] = r]
        /\ update' = update
        /\ troubled' = [troubled EXCEPT ![g] = TRUE]
        /\ Write(g, new, FALSE)
        /\ ~outdated
    BY <1>1 DEF Breaks
  <1> HIDE DEF g
  <1>4. Grounded(omap)
    BY <1>2, <1>3, LockedFollows DEF g
  <1>5. /\ local' = [local EXCEPT ![g] = [ver |-> local'[g].ver, st |-> new]]
        /\ omap' = new
    BY <1>2, <1>3, WriteKeepsVersions DEF Write, Adds, g
  <1>6. local'[g].st = new /\ \A h \in Gateways \ {g} : local'[h] = local[h]
    <2>1. local' = [local EXCEPT ![g] = [ver |-> local'[g].ver, st |-> new]]
      BY <1>5
    <2>2. [ver |-> local'[g].ver, st |-> new].st = new
      OBVIOUS
    <2> QED
      BY <1>2, <2>1, <2>2 DEF ListenerTypeOK
  <1>7. Grounded(new)
    BY <1>4
  <1>8. GroundedInv'
    <2>1. ASSUME NEW h \in Gateways
          PROVE  Grounded(local'[h].st) /\ (update'[h] # None => Grounded(update'[h].st))
      BY <1>3, <1>6, <1>7, <2>1 DEF FollowInv, GroundedInv
    <2> QED
      BY <1>5, <1>7, <2>1 DEF GroundedInv, Grounded
  <1>9. ASSUME NEW h \in Gateways, ~troubled'[h] PROVE FollowsAt(h)'
    <2>1. h # g
      BY <1>2, <1>3, <1>9 DEF ListenerTypeOK
    <2>2. /\ gw'[h] = gw[h] /\ local'[h] = local[h] /\ update'[h] = update[h]
          /\ ~troubled[h]
      BY <1>2, <1>3, <1>6, <1>9, <2>1 DEF ListenerTypeOK
    <2> QED
      BY <1>3, <2>2 DEF FollowInv, FollowsAt
  <1> QED
    BY <1>8, <1>9

\* what only a gateway's ANA states, or nothing that it follows, changes
LEMMA FollowSame ==
    ASSUME FollowInv, UNCHANGED <<omap, local, gw, update, troubled, outdated>>
    PROVE  FollowInv'
  BY DEF FollowInv, GroundedInv, FollowsAt

LEMMA RequestKeepsFollowing ==
    ASSUME ListenerTypeOK, VersionInv, FollowInv, NEW c \in Clients,
           CreateSubsystem(c) \/ DeleteSubsystem(c) \/ OpenToAny(c) \/ CloseToAny(c)
           \/ CreateListener(c) \/ DeleteListener(c)
    PROVE  FollowInv'
  <1> DEFINE q == req[c]
             g == q.gw
             r == gw[g]
  <1>1. req[c] # None /\ ~Behind(g)
    BY DEF CreateSubsystem, DeleteSubsystem, OpenToAny, CloseToAny, CreateListener,
       DeleteListener, Locked
  <1>2. /\ q \in Requests /\ g \in Gateways /\ q.inst \in Insts /\ q.ask \in AllAsks
        /\ r \in GatewayStates /\ omap \in Contents
    BY <1>1, LockedRequestType DEF ListenerTypeOK
  <1>3. Fails(c) => FollowInv'
    BY FollowSame DEF Fails, omapVars, historyVars
  <1>4. ~Outdated(q) => ~Refused(r, local[g].st, q.ask)
    BY DEF Outdated
  <1>5. q.inst # None /\ \A a \in Addrs : omap.lst[g][a] \in BOOLEAN \cup {None}
    BY <1>2, ListenerNone DEF Contents
  <1> HIDE DEF q, g, r
  <1>6. CASE CreateSubsystem(c)
    <2> DEFINE after == Created(r, q.inst)
               new == [omap EXCEPT !.sub = q.inst]
    <2>1. after \in GatewayStates /\ {r, after} \in SUBSET GatewayStates
      BY <1>2, EffectTypes
    <2>2. Fails(c) \/ Succeeds(c, FALSE, after, new) \/ Breaks(c, {r, after}, omap)
      BY <1>6, Zenon DEF CreateSubsystem, q, g, r
    <2>3. /\ new.sub = q.inst /\ new.any = omap.any /\ new.lst = omap.lst
      BY <1>2 DEF Contents
    <2>4. Follows(r, omap, g) => Grounded(new) /\ Follows(after, new, g)
      BY <1>2, <1>5, <2>3, CreatedEffect DEF Follows, Grounded
    <2> HIDE DEF after, new
    <2>5. CASE Succeeds(c, FALSE, after, new)
      BY <1>1, <1>2, <2>1, <2>4, <2>5, FollowSucceeds DEF q, g, r
    <2>6. CASE Breaks(c, {r, after}, omap)
      BY <1>1, <1>2, <2>1, <2>6, FollowBreaks DEF q, g
    <2> QED
      BY <1>3, <2>2, <2>5, <2>6
  <1>7. CASE DeleteSubsystem(c)
    <2> DEFINE after == Deleted(r)
    <2>1. after \in GatewayStates /\ {r} \in SUBSET GatewayStates /\ {after} \in SUBSET GatewayStates
      BY <1>2, EffectTypes
    <2>2. \/ r.sub = None /\ Succeeds(c, FALSE, r, EmptyContent)
          \/ Succeeds(c, FALSE, after, EmptyContent)
          \/ Breaks(c, {r}, EmptyContent)
          \/ Breaks(c, {after}, omap)
      BY <1>7, Zenon DEF DeleteSubsystem, q, g, r
    <2>3. /\ EmptyContent.sub = None /\ EmptyContent.any = FALSE
          /\ \A a \in Addrs : EmptyContent.lst[g][a] = None
      BY <1>2 DEF EmptyContent, NoListeners
    <2>4. Grounded(EmptyContent)
      BY DEF Grounded
    <2>5. Follows(after, EmptyContent, g)
      BY <1>2, <2>3, DeletedEffect, ListenerNone DEF Follows
    <2>6. r.sub = None /\ Grounded(omap) /\ Follows(r, omap, g) => Follows(r, EmptyContent, g)
      BY DEF Follows, Grounded
    <2> HIDE DEF after
    <2>7. CASE r.sub = None /\ Succeeds(c, FALSE, r, EmptyContent)
      BY <1>1, <1>2, <2>4, <2>6, <2>7, FollowSucceeds DEF q, g, r
    <2>8. CASE Succeeds(c, FALSE, after, EmptyContent)
      BY <1>1, <1>2, <2>1, <2>4, <2>5, <2>8, FollowSucceeds DEF q, g
    <2>9. CASE Breaks(c, {r}, EmptyContent)
      BY <1>1, <1>2, <2>1, <2>4, <2>9, FollowBreaks DEF q, g
    <2>10. CASE Breaks(c, {after}, omap)
      BY <1>1, <1>2, <2>1, <2>10, FollowBreaks DEF q, g
    <2> QED
      BY <2>2, <2>7, <2>8, <2>9, <2>10
  <1>8. CASE OpenToAny(c)
    <2> DEFINE after == [r EXCEPT !.any = TRUE]
               new == [omap EXCEPT !.any = TRUE]
    <2>1. after \in GatewayStates /\ {r, after} \in SUBSET GatewayStates
      BY <1>2, EffectTypes
    <2>2. \/ Fails(c)
          \/ r.sub # None /\ Succeeds(c, FALSE, after, new)
          \/ Breaks(c, {r, after}, omap)
      BY <1>8, Zenon DEF OpenToAny, q, g, r
    <2>3. new.sub = omap.sub /\ new.any = TRUE /\ new.lst = omap.lst
      BY <1>2 DEF Contents
    <2>4. Follows(r, omap, g) /\ r.sub # None => Grounded(new) /\ Follows(after, new, g)
      <3>1. /\ after.sub = r.sub /\ after.any = TRUE
            /\ \A b \in Addrs, s \in BOOLEAN : Listens(after, b, s) <=> Listens(r, b, s)
        BY <1>2, AnyEffect
      <3> HIDE DEF after, new
      <3>2. Follows(r, omap, g) => Follows(after, new, g)
        BY <2>3, <3>1 DEF Follows
      <3>3. Follows(r, omap, g) /\ r.sub # None => new.sub # None
        BY <2>3 DEF Follows
      <3> QED
        BY <3>2, <3>3 DEF Grounded
    <2> HIDE DEF after, new
    <2>5. CASE r.sub # None /\ Succeeds(c, FALSE, after, new)
      BY <1>1, <1>2, <2>1, <2>4, <2>5, FollowSucceeds DEF q, g, r
    <2>6. CASE Breaks(c, {r, after}, omap)
      BY <1>1, <1>2, <2>1, <2>6, FollowBreaks DEF q, g
    <2> QED
      BY <1>3, <2>2, <2>5, <2>6
  <1>9. CASE CloseToAny(c)
    <2> DEFINE after == [r EXCEPT !.any = FALSE]
               new == [omap EXCEPT !.any = FALSE]
    <2>1. after \in GatewayStates /\ {r} \in SUBSET GatewayStates /\ {after} \in SUBSET GatewayStates
      BY <1>2, EffectTypes
    <2>2. \/ r.sub = None /\ Succeeds(c, FALSE, r, new)
          \/ Succeeds(c, FALSE, after, new)
          \/ Breaks(c, {r}, new)
          \/ Breaks(c, {after}, omap)
      BY <1>9, Zenon DEF CloseToAny, q, g, r
    <2>3. new.sub = omap.sub /\ new.any = FALSE /\ new.lst = omap.lst
      BY <1>2 DEF Contents
    <2>4. Grounded(omap) => Grounded(new)
      BY <1>2, RemovalsAreGrounded
    <2>5. Follows(r, omap, g) => Follows(after, new, g)
      <3>1. /\ after.sub = r.sub /\ after.any = FALSE
            /\ \A b \in Addrs, s \in BOOLEAN : Listens(after, b, s) <=> Listens(r, b, s)
        BY <1>2, AnyEffect
      <3> HIDE DEF after, new
      <3> QED
        BY <2>3, <3>1 DEF Follows
    <2>6. r.sub = None /\ Grounded(omap) /\ Follows(r, omap, g) => Follows(r, new, g)
      <3>1. EmptyContent.any = FALSE
        BY DEF EmptyContent
      <3> QED
        BY <2>3, <3>1 DEF Follows, Grounded
    <2> HIDE DEF after, new
    <2>7. CASE r.sub = None /\ Succeeds(c, FALSE, r, new)
      BY <1>1, <1>2, <2>4, <2>6, <2>7, FollowSucceeds DEF q, g, r
    <2>8. CASE Succeeds(c, FALSE, after, new)
      BY <1>1, <1>2, <2>1, <2>4, <2>5, <2>8, FollowSucceeds DEF q, g, r
    <2>9. CASE Breaks(c, {r}, new)
      BY <1>1, <1>2, <2>1, <2>4, <2>9, FollowBreaks DEF q, g
    <2>10. CASE Breaks(c, {after}, omap)
      BY <1>1, <1>2, <2>1, <2>10, FollowBreaks DEF q, g
    <2> QED
      BY <2>2, <2>7, <2>8, <2>9, <2>10
  <1>10. CASE CreateListener(c)
    <2>1. /\ q.ask.op = "listen"
          /\ q.ask.host \in Gateways /\ q.ask.addr \in Addrs /\ q.ask.secure \in BOOLEAN
      BY <1>2, <1>10, AskFields DEF CreateListener, Locked, q
    <2> DEFINE a == q.ask.addr
               secure == q.ask.secure
               begun == {[p \in Groups |-> IF p \in set THEN FirstAna(r)[p] ELSE "inaccessible"]
                         : set \in SUBSET Groups} \cup {[p \in Groups |-> "optimized"]}
               broken == {Unset(Listening(r, a, secure, ana), a) : ana \in begun}
               new == [omap EXCEPT !.lst[q.ask.host][a] = secure]
               after == Listening(r, a, secure, FirstAna(r))
               stashed == Stashed(r, a, secure)
    <2>2. \/ Fails(c)
          \/ q.ask.host = g /\ AtAddr(r, a) = {} /\ Succeeds(c, FALSE, after, new)
          \/ Breaks(c, {r, after} \cup broken, omap)
          \/ q.ask.host # g /\ Succeeds(c, FALSE, stashed, new)
          \/ Breaks(c, {stashed}, omap)
      BY <1>10 DEF CreateListener, q, g, r
    <2>3. FirstAna(r) \in [Groups -> AnaStates]
      BY <1>2, FirstAnaType
    <2>4. \A ana \in [Groups -> AnaStates] :
              /\ Listening(r, a, secure, ana) \in GatewayStates
              /\ Unset(Listening(r, a, secure, ana), a) \in GatewayStates
      BY <1>2, <2>1, EffectTypes
    <2>5. begun \in SUBSET [Groups -> AnaStates]
      BY <2>3 DEF AnaStates
    <2> HIDE DEF begun
    <2>6. after \in GatewayStates /\ stashed \in GatewayStates
      BY <1>2, <2>1, <2>3, <2>4, EffectTypes
    <2>7. {r, after} \cup broken \in SUBSET GatewayStates
      <3>1. broken \in SUBSET GatewayStates
        BY <2>4, <2>5
      <3> HIDE DEF after, broken
      <3> QED
        BY <1>2, <2>6, <3>1
    <2>8. {stashed} \in SUBSET GatewayStates
      BY <2>6
    <2>9. ~Outdated(q) => r.sub # None
      BY <1>4, <2>1 DEF Refused, NoListening
    <2>10. /\ new.sub = omap.sub /\ new.any = omap.any
           /\ \A b \in Addrs : new.lst[g][b] =
                  IF q.ask.host = g /\ b = a THEN secure ELSE omap.lst[g][b]
      BY <1>2, <2>1 DEF Contents
    <2>11. Follows(r, omap, g) /\ ~Outdated(q) => Grounded(new)
      BY <2>9, <2>10 DEF Follows, Grounded
    <2>12. q.ask.host # g /\ Follows(r, omap, g) => Follows(stashed, new, g)
      BY <1>2, <2>1, <2>10, StashedEffect DEF Follows
    <2>13. q.ask.host = g /\ AtAddr(r, a) = {} /\ Follows(r, omap, g) => Follows(after, new, g)
      <3>1. AtAddr(r, a) = {} => \A s : ~Listens(r, a, s)
        BY DEF Listens
      <3>2. \A b \in Addrs, s \in BOOLEAN :
                Listens(after, b, s) <=> Listens(r, b, s) \/ (b = a /\ s = secure)
        BY <1>2, <2>1, ListeningEffect
      <3>3. after.sub = r.sub /\ after.any = r.any
        BY <1>2, <2>1, ListeningEffect
      <3> HIDE DEF after, new
      <3> QED
        BY <2>1, <2>10, <3>1, <3>2, <3>3 DEF Follows
    <2> HIDE DEF broken, new, after, stashed
    <2>14. CASE q.ask.host = g /\ AtAddr(r, a) = {} /\ Succeeds(c, FALSE, after, new)
      BY <1>1, <1>2, <2>6, <2>11, <2>13, <2>14, FollowSucceeds DEF q, g, r
    <2>15. CASE q.ask.host # g /\ Succeeds(c, FALSE, stashed, new)
      BY <1>1, <1>2, <2>6, <2>11, <2>12, <2>15, FollowSucceeds DEF q, g, r
    <2>16. CASE Breaks(c, {r, after} \cup broken, omap)
      BY <1>1, <1>2, <2>7, <2>16, FollowBreaks DEF q, g
    <2>17. CASE Breaks(c, {stashed}, omap)
      BY <1>1, <1>2, <2>8, <2>17, FollowBreaks DEF q, g
    <2> QED
      BY <1>3, <2>2, <2>14, <2>15, <2>16, <2>17
  <1>11. CASE DeleteListener(c)
    <2>1. q.ask.addr \in Addrs /\ q.ask.host \in Gateways \cup {Star}
      BY <1>2, <1>11, AskFields DEF DeleteListener, Locked, q
    <2> DEFINE a == q.ask.addr
               new == WithoutListener(omap, q.ask.host, a)
               after == Removed(r, a)
               left == {r, Unlisted(r, a)}
               mixed == \/ a \in Ipv6
                        \/ IsActive(r, a) /\ q.ask.host \notin {g, Star}
                        \/ Stays(r, a)
    <2>2. after \in GatewayStates /\ left \in SUBSET GatewayStates /\ {after} \in SUBSET GatewayStates
      BY <1>2, <2>1, EffectTypes
    <2>3. \/ Fails(c) \/ Succeeds(c, mixed, after, new)
          \/ Breaks(c, left, new) \/ Breaks(c, {after}, omap)
      BY <1>11 DEF DeleteListener, q, g, r
    <2>4. Grounded(omap) => Grounded(new)
      BY <1>2, <2>1, RemovalsAreGrounded
    <2>5. ~mixed /\ Follows(r, omap, g) => Follows(after, new, g)
      <3>1. SUFFICES ASSUME a \notin Ipv6, ~IsActive(r, a) \/ q.ask.host \in {g, Star},
                            Follows(r, omap, g)
                     PROVE  Follows(after, new, g)
        OBVIOUS
      <3>2. /\ new.sub = omap.sub /\ new.any = omap.any
            /\ \A b \in Addrs : new.lst[g][b] =
                  IF q.ask.host \in {g, Star} /\ b = a THEN None ELSE omap.lst[g][b]
        BY <1>2, <2>1, <3>1 DEF WithoutListener, Contents
      <3>3. ~IsActive(r, a) => \A s : ~Listens(r, a, s)
        BY DEF IsActive, Listens
      <3>4. \A b \in Addrs, s \in BOOLEAN : Listens(after, b, s) <=> Listens(r, b, s) /\ b # a
        BY <1>2, <2>1, RemovedEffect
      <3>5. after.sub = r.sub /\ after.any = r.any
        BY <1>2, <2>1, RemovedEffect
      <3> HIDE DEF new, after
      <3>6. \A s \in BOOLEAN : new.lst[g][a] # s
        BY <1>5, <2>1, <3>1, <3>2, <3>3, ListenerNone DEF Follows
      <3> QED
        BY <2>1, <3>1, <3>2, <3>4, <3>5, <3>6 DEF Follows
    <2>6. mixed \in BOOLEAN
      BY DEF IsActive, Stays, FindsActive
    <2> HIDE DEF new, after, left, mixed
    <2>7. CASE Succeeds(c, mixed, after, new)
      BY <1>1, <1>2, <2>2, <2>4, <2>5, <2>6, <2>7, FollowSucceeds DEF q, g, r
    <2>8. CASE Breaks(c, left, new)
      BY <1>1, <1>2, <2>2, <2>4, <2>8, FollowBreaks DEF q, g
    <2>9. CASE Breaks(c, {after}, omap)
      BY <1>1, <1>2, <2>2, <2>9, FollowBreaks DEF q, g
    <2> QED
      BY <1>3, <2>3, <2>7, <2>8, <2>9
  <1> QED
    BY SMTT(30), <1>6, <1>7, <1>8, <1>9, <1>10, <1>11

\* A call of update() takes its gateway further on the way to what the update
\* has read.
LEMMA FollowLeaves ==
    ASSUME ListenerTypeOK, FollowInv, NEW g \in Gateways, update[g] # None,
           NEW trouble \in BOOLEAN, NEW r \in GatewayStates, NEW u \in Updates,
           Leaves(g, trouble, r), update' = [update EXCEPT ![g] = u], u.st = update[g].st,
           ~trouble /\ LeadsTo(gw[g], update[g], g) => LeadsTo(r, u, g)
    PROVE  FollowInv'
  <1>1. SUFFICES ASSUME ~outdated'
                 PROVE  GroundedInv' /\ \A h \in Gateways : ~troubled'[h] => FollowsAt(h)'
    BY DEF FollowInv
  <1>2. /\ gw' = [gw EXCEPT ![g] = r]
        /\ troubled' = [troubled EXCEPT ![g] = @ \/ trouble]
        /\ omap' = omap /\ local' = local /\ ~outdated
    BY <1>1 DEF Leaves, omapVars
  <1>3. \A h \in Gateways \ {g} :
            gw'[h] = gw[h] /\ troubled'[h] = troubled[h] /\ update'[h] = update[h]
    BY <1>2 DEF ListenerTypeOK
  <1>4. update'[g] = u /\ u # None
    BY ListenerNone DEF ListenerTypeOK
  <1>5. GroundedInv'
    BY <1>2, <1>3, <1>4 DEF FollowInv, GroundedInv
  <1>6. ASSUME NEW h \in Gateways, ~troubled'[h] PROVE FollowsAt(h)'
    <2>1. CASE h = g
      <3>1. ~trouble /\ ~troubled[g]
        <4>1. troubled'[g] = (troubled[g] \/ trouble)
          BY <1>2 DEF ListenerTypeOK
        <4> QED
          BY <1>6, <2>1, <4>1
      <3>2. gw'[g] = r
        BY <1>2 DEF ListenerTypeOK
      <3>3. LeadsTo(gw[g], update[g], g)
        BY <1>2, <3>1 DEF FollowInv, FollowsAt
      <3> QED
        BY <1>4, <2>1, <3>1, <3>2, <3>3 DEF FollowsAt
    <2>2. CASE h # g
      BY <1>2, <1>3, <1>6, <2>2 DEF FollowInv, FollowsAt
    <2> QED
      BY <2>1, <2>2
  <1> QED
    BY <1>5, <1>6

LEMMA FollowDoes ==
    ASSUME ListenerTypeOK, FollowInv, NEW g \in Gateways, update[g] # None,
           NEW refused \in BOOLEAN, NEW r \in GatewayStates, NEW u \in Updates,
           Does(g, refused, r), update' = [update EXCEPT ![g] = u], u.st = update[g].st,
           ~refused /\ LeadsTo(gw[g], update[g], g) => LeadsTo(r, u, g)
    PROVE  FollowInv'
  <1> DEFINE n == IF refused THEN gw[g] ELSE r
  <1>1. Leaves(g, refused, n)
    BY DEF Does
  <1>2. n \in GatewayStates
    BY DEF ListenerTypeOK
  <1>3. ~refused /\ LeadsTo(gw[g], update[g], g) => LeadsTo(n, u, g)
    OBVIOUS
  <1> HIDE DEF n
  <1> QED
    BY <1>1, <1>2, <1>3, FollowLeaves

\* The plan of an update that leaves nothing out leads to its content.
LEMMA PlanLeads ==
    ASSUME NEW g \in Gateways, NEW r \in GatewayStates,
           NEW old \in Contents, NEW new \in Contents, Grounded(old), Grounded(new),
           Follows(r, old, g), ~LeavesOut(Plan(g, old, new), old, new),
           NEW u \in Updates, u.st = new,
           u.dellst = Plan(g, old, new).dellst, u.delany = Plan(g, old, new).delany,
           u.drop = Plan(g, old, new).drop, u.add = Plan(g, old, new).add,
           u.addany = Plan(g, old, new).addany, u.addlst = Plan(g, old, new).addlst
    PROVE  LeadsTo(r, u, g)
  <1> DEFINE changed == {e \in Entries(old) \cap Entries(new) :
                            old.lst[e[1]][e[2]] # new.lst[e[1]][e[2]]}
             own(es) == {a \in Addrs : <<g, a>> \in es}
             readd == old.sub # None /\ new.sub # None /\ old.sub # new.sub
             was(a) == old.lst[g][a]
             is(a) == new.lst[g][a]
  <1>1. /\ u.dellst = own(Grouped(Entries(old) \ Entries(new), changed))
        /\ u.addlst = own(Grouped(Entries(new) \ Entries(old), changed))
        /\ u.delany = CallIf(old.any /\ ~new.any) /\ u.addany = CallIf(~old.any /\ new.any)
        /\ u.drop = CallIf(readd \/ (old.sub # None /\ new.sub = None))
        /\ u.add = CallIf(readd \/ (old.sub = None /\ new.sub # None))
        /\ ~(changed # {} /\ Entries(old) # Entries(new))
        /\ ~(readd /\ (Entries(old) \cap Entries(new) # {} \/ (old.any /\ new.any)))
    BY DEF Plan, LeavesOut
  <1>2. /\ u.delany # {} <=> old.any /\ ~new.any
        /\ u.addany # {} <=> ~old.any /\ new.any
        /\ u.drop # {} <=> readd \/ (old.sub # None /\ new.sub = None)
        /\ u.add # {} <=> readd \/ (old.sub = None /\ new.sub # None)
    BY <1>1 DEF CallIf
  <1>3. \A a \in Addrs : /\ <<g, a>> \in Entries(old) <=> was(a) # None
                         /\ <<g, a>> \in Entries(new) <=> is(a) # None
                         /\ <<g, a>> \in changed <=>
                                was(a) # None /\ is(a) # None /\ was(a) # is(a)
    BY DEF Entries
  <1>4. /\ old.any \in BOOLEAN /\ new.any \in BOOLEAN
        /\ r.sub = old.sub /\ (r.any <=> old.any)
        /\ \A a \in Addrs, s \in BOOLEAN : Listens(r, a, s) <=> was(a) = s
        /\ \A s \in BOOLEAN : s # None
    BY ListenerNone DEF Follows, Contents
  <1>5. new.sub = None => ~new.any /\ \A a \in Addrs : is(a) = None
    BY DEF Grounded, EmptyContent, NoListeners
  <1>6. old.sub = None => ~old.any /\ \A a \in Addrs : was(a) = None
    BY DEF Grounded, EmptyContent, NoListeners
  <1>7. \A a \in Addrs \ u.addlst, s \in BOOLEAN :
            is(a) = s <=> (u.drop = {} /\ a \notin u.dellst /\ was(a) = s)
    <2> TAKE a \in Addrs \ u.addlst, s \in BOOLEAN
    <2>1. CASE changed = {}
      <3>1. /\ a \in u.dellst <=> was(a) # None /\ is(a) = None
            /\ ~(is(a) # None /\ was(a) = None)
            /\ was(a) # None /\ is(a) # None => was(a) = is(a)
        BY SMTT(30), <1>1, <1>3, <2>1 DEF Grouped
      <3>2. readd => ~(was(a) # None /\ is(a) # None)
        BY <1>1, <1>3
      <3> HIDE DEF changed, readd, was, is
      <3>3. CASE u.drop = {}
        BY <1>4, <3>1, <3>3
      <3>4. CASE u.drop # {}
        <4>1. is(a) = None
          BY <1>2, <1>5, <3>1, <3>2, <3>4 DEF readd
        <4> QED
          BY <1>4, <3>4, <4>1
      <3> QED
        BY <3>3, <3>4
    <2>2. CASE changed # {}
      <3>1. /\ Entries(old) = Entries(new) /\ ~readd
            /\ a \in u.dellst <=> <<g, a>> \in changed
            /\ <<g, a>> \notin changed
        BY <1>1, <2>2 DEF Grouped
      <3>2. was(a) = is(a) \/ (was(a) = None /\ is(a) = None)
        BY <1>3, <3>1
      <3>3. new.sub # None
        <4>1. PICK e \in Entries(new) : TRUE
          BY <2>2
        <4>2. new.lst[e[1]][e[2]] # None /\ e[1] \in Gateways /\ e[2] \in Addrs
          BY <4>1 DEF Entries
        <4>3. new = EmptyContent => new.lst[e[1]][e[2]] = None
          BY <4>2 DEF EmptyContent, NoListeners
        <4> QED
          BY <4>2, <4>3 DEF Grounded
      <3>4. u.drop = {}
        BY <1>2, <3>1, <3>3
      <3> QED
        BY SMTT(30), <3>1, <3>2, <3>4
    <2> QED
      BY <2>1, <2>2
  <1>8. u.add = {} => new.sub = IF u.drop # {} THEN None ELSE r.sub
    BY <1>2, <1>4
  <1>9. new.any <=> (u.addany # {} \/ (u.drop = {} /\ u.delany = {} /\ r.any))
    BY <1>1, <1>2, <1>4, <1>5
  <1> HIDE DEF was, is
  <1> QED
    BY <1>4, <1>7, <1>8, <1>9 DEF LeadsTo, was, is

LEMMA StartKeepsFollowing ==
    ASSUME ListenerTypeOK, VersionInv, FollowInv, NEW g \in Gateways, StartUpdate(g)
    PROVE  FollowInv'
  <1> DEFINE old == local[g].st
             p == Plan(g, old, omap)
             u == [ver |-> version, st |-> omap, dellst |-> p.dellst, delany |-> p.delany,
                   drop |-> p.drop, add |-> p.add, addany |-> p.addany, addlst |-> p.addlst]
  <1>1. SUFFICES ASSUME ~outdated'
                 PROVE  GroundedInv' /\ \A h \in Gateways : ~troubled'[h] => FollowsAt(h)'
    BY DEF FollowInv
  <1>2. /\ update[g] = None /\ update' = [update EXCEPT ![g] = u]
        /\ troubled' = [troubled EXCEPT ![g] = @ \/ LeavesOut(p, old, omap)]
        /\ omap' = omap /\ local' = local /\ gw' = gw /\ ~outdated
    BY <1>1 DEF StartUpdate, omapVars
  <1>3. old \in Contents /\ omap \in Contents /\ gw[g] \in GatewayStates /\ version \in Nat
    BY DEF ListenerTypeOK
  <1>4. u \in Updates /\ u # None
    <2>1. /\ p.dellst \in SUBSET Addrs /\ p.addlst \in SUBSET Addrs
          /\ p.delany \in Calls /\ p.drop \in Calls /\ p.add \in Calls /\ p.addany \in Calls
      BY <1>3, PlanType
    <2> HIDE DEF p
    <2> QED
      BY <1>3, <2>1, ListenerNone DEF Updates
  <1>5. /\ update'[g] = u
        /\ \A h \in Gateways \ {g} : update'[h] = update[h] /\ troubled'[h] = troubled[h]
    BY <1>2 DEF ListenerTypeOK
  <1>6. GroundedInv'
    <2>1. u.st = omap
      OBVIOUS
    <2> HIDE DEF u
    <2> QED
      BY <1>2, <1>5, <2>1 DEF FollowInv, GroundedInv
  <1>7. ASSUME NEW h \in Gateways, ~troubled'[h] PROVE FollowsAt(h)'
    <2>1. CASE h = g
      <3>1. ~troubled[g] /\ ~LeavesOut(p, old, omap)
        <4>1. troubled'[g] = (troubled[g] \/ LeavesOut(p, old, omap))
          BY <1>2 DEF ListenerTypeOK
        <4> QED
          BY <1>7, <2>1, <4>1
      <3>2. Follows(gw[g], old, g) /\ Grounded(old) /\ Grounded(omap)
        BY <1>2, <3>1 DEF FollowInv, FollowsAt, GroundedInv
      <3>3. /\ u.st = omap /\ u.dellst = p.dellst /\ u.delany = p.delany /\ u.drop = p.drop
            /\ u.add = p.add /\ u.addany = p.addany /\ u.addlst = p.addlst
        OBVIOUS
      <3> HIDE DEF u, old
      <3>4. LeadsTo(gw[g], u, g)
        BY <1>3, <1>4, <3>1, <3>2, <3>3, PlanLeads
      <3> QED
        BY <1>2, <1>4, <1>5, <2>1, <3>4 DEF FollowsAt
    <2>2. CASE h # g
      BY <1>2, <1>5, <1>7, <2>2 DEF FollowInv, FollowsAt
    <2> QED
      BY <2>1, <2>2
  <1> QED
    BY <1>6, <1>7

\* The calls of an update, one by one: each takes from what is left of the
\* update what it does to the gateway.
LEMMA UpdateKeepsFollowing ==
    ASSUME ListenerTypeOK, PlannedInv, VersionInv, FollowInv,
           NEW g \in Gateways, UpdateStep(g)
    PROVE  FollowInv'
  <1> DEFINE r == gw[g]
             u == update[g]
  <1>0. r \in GatewayStates /\ (u # None => u \in Updates)
    BY DEF ListenerTypeOK
  <1> HIDE DEF r, u
  <1>1. CASE UpdateDeleteListener(g)
    <2>1. PICK a \in u.dellst :
              /\ update' = [update EXCEPT ![g].dellst = @ \ {a}]
              /\ Leaves(g, TRUE, r) \/ Leaves(g, Stays(r, a), Removed(r, a))
      BY <1>1 DEF UpdateDeleteListener, r, u
    <2> DEFINE v == [u EXCEPT !.dellst = @ \ {a}]
    <2>2. u # None /\ u \in Updates /\ update' = [update EXCEPT ![g] = v]
      BY <1>0, <1>1, <2>1 DEF UpdateDeleteListener, Reached, u
    <2>3. /\ v \in Updates /\ v.st = u.st /\ v.dellst = u.dellst \ {a} /\ v.delany = u.delany
          /\ v.drop = u.drop /\ v.add = u.add /\ v.addany = u.addany /\ v.addlst = u.addlst
      BY <2>2 DEF Updates
    <2>4. a \in Addrs
      BY <2>1, <2>2 DEF Updates
    <2>5. Removed(r, a) \in GatewayStates
      BY <1>0, <2>4, EffectTypes
    <2>6. LeadsTo(r, u, g) => LeadsTo(Removed(r, a), v, g)
      <3> DEFINE n == Removed(r, a)
      <3>1. /\ n.sub = r.sub /\ n.any = r.any
            /\ \A b \in Addrs, s \in BOOLEAN : Listens(n, b, s) <=> Listens(r, b, s) /\ b # a
        BY <1>0, <2>4, RemovedEffect
      <3> HIDE DEF v, n
      <3> QED
        BY <2>1, <2>3, <3>1 DEF LeadsTo, n
    <2>7. Stays(r, a) \in BOOLEAN
      BY DEF Stays
    <2> HIDE DEF v
    <2> QED
      BY <1>0, <2>1, <2>2, <2>3, <2>5, <2>6, <2>7, FollowLeaves DEF r, u
  <1>2. CASE UpdateClose(g)
    <2> DEFINE v == [u EXCEPT !.delany = {}]
               after == [r EXCEPT !.any = FALSE]
    <2>1. /\ u # None /\ u \in Updates /\ update' = [update EXCEPT ![g] = v]
          /\ Does(g, r.sub = None, after)
      BY <1>0, <1>2 DEF UpdateClose, Reached, r, u
    <2>2. /\ v \in Updates /\ v.st = u.st /\ v.dellst = u.dellst /\ v.delany = {}
          /\ v.drop = u.drop /\ v.add = u.add /\ v.addany = u.addany /\ v.addlst = u.addlst
      BY <2>1 DEF Updates, Calls
    <2>3. after \in GatewayStates
      BY <1>0, EffectTypes
    <2>4. u.delany # {}
      BY <1>2 DEF UpdateClose, u
    <2>5. LeadsTo(r, u, g) => LeadsTo(after, v, g)
      <3>1. /\ after.sub = r.sub /\ after.any = FALSE
            /\ \A b \in Addrs, s \in BOOLEAN : Listens(after, b, s) <=> Listens(r, b, s)
        BY <1>0, AnyEffect
      <3> HIDE DEF v, after
      <3> QED
        BY <2>2, <2>4, <3>1 DEF LeadsTo
    <2> HIDE DEF v, after
    <2> QED
      BY <2>1, <2>2, <2>3, <2>5, FollowDoes DEF r, u
  <1>3. CASE UpdateDrop(g)
    <2> DEFINE v == [u EXCEPT !.drop = {}]
    <2>1. /\ u # None /\ u \in Updates /\ update' = [update EXCEPT ![g] = v]
          /\ Does(g, r.sub = None, Deleted(r)) /\ u.drop # {}
      BY <1>0, <1>3 DEF UpdateDrop, Reached, r, u
    <2>2. /\ v \in Updates /\ v.st = u.st /\ v.dellst = u.dellst /\ v.delany = u.delany
          /\ v.drop = {} /\ v.add = u.add /\ v.addany = u.addany /\ v.addlst = u.addlst
      BY <2>1 DEF Updates, Calls
    <2>3. Deleted(r) \in GatewayStates
      BY <1>0, EffectTypes
    <2>4. u.dellst = {} /\ u.delany = {}
      <3>1. u[Kinds[1]] = {} /\ u[Kinds[2]] = {}
        BY <1>3 DEF UpdateDrop, Reached, u
      <3> QED
        BY <3>1 DEF Kinds
    <2>5. LeadsTo(r, u, g) => LeadsTo(Deleted(r), v, g)
      <3>1. /\ Deleted(r).sub = None /\ Deleted(r).any = FALSE
            /\ \A b \in Addrs, s \in BOOLEAN : ~Listens(Deleted(r), b, s)
        BY <1>0, DeletedEffect
      <3> HIDE DEF v
      <3> QED
        BY <2>1, <2>2, <2>4, <3>1 DEF LeadsTo
    <2> HIDE DEF v
    <2> QED
      BY <2>1, <2>2, <2>3, <2>5, FollowDoes DEF r, u
  <1>4. CASE UpdateCreate(g)
    <2> DEFINE v == [u EXCEPT !.add = {}]
               after == Created(r, u.st.sub)
    <2>1. /\ u # None /\ u \in Updates /\ update' = [update EXCEPT ![g] = v]
          /\ Does(g, r.sub # None, after) /\ u.add # {}
      BY <1>0, <1>4 DEF UpdateCreate, Reached, r, u
    <2>2. /\ v \in Updates /\ v.st = u.st /\ v.dellst = u.dellst /\ v.delany = u.delany
          /\ v.drop = u.drop /\ v.add = {} /\ v.addany = u.addany /\ v.addlst = u.addlst
      BY <2>1 DEF Updates, Calls
    <2>3. after \in GatewayStates
      BY <1>0, <2>1 DEF Created, Updates, Contents, GatewayStates
    <2>4. u.drop = {}
      <3>1. u[Kinds[3]] = {}
        BY <1>4 DEF UpdateCreate, Reached, u
      <3> QED
        BY <3>1 DEF Kinds
    <2>5. LeadsTo(r, u, g) => LeadsTo(after, v, g)
      <3>1. /\ after.sub = u.st.sub /\ after.any = r.any
            /\ \A b \in Addrs, s \in BOOLEAN : Listens(after, b, s) <=> Listens(r, b, s)
        BY <1>0, CreatedEffect
      <3> HIDE DEF v, after
      <3> QED
        BY <2>2, <2>4, <3>1 DEF LeadsTo
    <2> HIDE DEF v, after
    <2> QED
      BY <2>1, <2>2, <2>3, <2>5, FollowDoes DEF r, u
  <1>5. CASE UpdateOpen(g)
    <2> DEFINE v == [u EXCEPT !.addany = {}]
               after == [r EXCEPT !.any = TRUE]
    <2>1. /\ u # None /\ u \in Updates /\ update' = [update EXCEPT ![g] = v]
          /\ Does(g, NoOpening(r), after) /\ u.addany # {}
      BY <1>0, <1>5 DEF UpdateOpen, Reached, r, u
    <2>2. /\ v \in Updates /\ v.st = u.st /\ v.dellst = u.dellst /\ v.delany = u.delany
          /\ v.drop = u.drop /\ v.add = u.add /\ v.addany = {} /\ v.addlst = u.addlst
      BY <2>1 DEF Updates, Calls
    <2>3. after \in GatewayStates /\ NoOpening(r) \in BOOLEAN
      BY <1>0, EffectTypes DEF NoOpening, HasSecure
    <2>4. u.drop = {} /\ u.delany = {}
      <3>1. u[Kinds[2]] = {} /\ u[Kinds[3]] = {}
        BY <1>5 DEF UpdateOpen, Reached, u
      <3> QED
        BY <3>1 DEF Kinds
    <2>5. LeadsTo(r, u, g) => LeadsTo(after, v, g)
      <3>1. /\ after.sub = r.sub /\ after.any = TRUE
            /\ \A b \in Addrs, s \in BOOLEAN : Listens(after, b, s) <=> Listens(r, b, s)
        BY <1>0, AnyEffect
      <3> HIDE DEF v, after
      <3> QED
        BY <2>1, <2>2, <2>4, <3>1 DEF LeadsTo
    <2> HIDE DEF v, after
    <2> QED
      BY <2>1, <2>2, <2>3, <2>5, FollowDoes DEF r, u
  <1>6. CASE UpdateCreateListener(g)
    <2>1. PICK a \in u.addlst :
              /\ update' = [update EXCEPT ![g].addlst = @ \ {a}]
              /\ Does(g, \/ NoListening(r, u.st.lst[g][a])
                         \/ AtAddr(r, a) # {} \/ SpdkRefuses(r, a),
                      Listening(r, a, u.st.lst[g][a], FirstAna(r)))
      BY <1>6 DEF UpdateCreateListener, r, u
    <2> DEFINE v == [u EXCEPT !.addlst = @ \ {a}]
               secure == u.st.lst[g][a]
               refused == NoListening(r, secure) \/ AtAddr(r, a) # {} \/ SpdkRefuses(r, a)
               after == Listening(r, a, secure, FirstAna(r))
    <2>2. u # None /\ u \in Updates /\ update' = [update EXCEPT ![g] = v]
      BY <1>0, <1>6, <2>1 DEF UpdateCreateListener, Reached, u
    <2>3. /\ v \in Updates /\ v.st = u.st /\ v.dellst = u.dellst /\ v.delany = u.delany
          /\ v.drop = u.drop /\ v.add = u.add /\ v.addany = u.addany
          /\ v.addlst = u.addlst \ {a}
      BY <2>2 DEF Updates
    <2>4. a \in Addrs
      BY <2>1, <2>2 DEF Updates
    <2>5. secure \in BOOLEAN
      <3>1. secure # None
        BY <2>1, <2>2 DEF PlannedInv, u
      <3> QED
        BY <2>2, <2>4, <3>1 DEF Updates, Contents
    <2>6. after \in GatewayStates /\ refused \in BOOLEAN
      BY <1>0, <2>4, <2>5, EffectTypes, FirstAnaType DEF NoListening, SpdkRefuses
    <2>7. u.drop = {} /\ u.dellst = {}
      <3>1. u[Kinds[1]] = {} /\ u[Kinds[3]] = {}
        BY <1>6 DEF UpdateCreateListener, Reached, u
      <3> QED
        BY <3>1 DEF Kinds
    <2>8. ~refused /\ LeadsTo(r, u, g) => LeadsTo(after, v, g)
      <3>1. /\ after.sub = r.sub /\ after.any = r.any
            /\ \A b \in Addrs, s \in BOOLEAN :
                  Listens(after, b, s) <=> Listens(r, b, s) \/ (b = a /\ s = secure)
        BY <1>0, <2>4, <2>5, ListeningEffect
      <3>2. ~refused => \A s : ~Listens(r, a, s)
        BY DEF Listens
      <3>3. u.st.lst[g][a] = secure
        OBVIOUS
      <3> HIDE DEF v, after, refused, secure
      <3> QED
        BY <2>1, <2>3, <2>4, <2>7, <3>1, <3>2, <3>3 DEF LeadsTo
    <2>9. Does(g, refused, after)
      BY <2>1
    <2> HIDE DEF v, after, refused, secure
    <2> QED
      BY <2>2, <2>3, <2>6, <2>8, <2>9, FollowDoes DEF r, u
  <1>7. CASE UpdateEnd(g)
    <2>1. /\ u # None /\ u \in Updates /\ update' = [update EXCEPT ![g] = None]
          /\ local' = [local EXCEPT ![g] = [ver |-> u.ver, st |-> u.st]]
          /\ omap' = omap /\ gw' = gw /\ troubled' = troubled /\ outdated' = outdated
      BY <1>0, <1>7 DEF UpdateEnd, Reached, u, omapVars, historyVars
    <2>2. /\ u.dellst = {} /\ u.delany = {} /\ u.drop = {}
          /\ u.add = {} /\ u.addany = {} /\ u.addlst = {}
      <3>1. \A k \in 1..6 : u[Kinds[k]] = {}
        BY <1>7 DEF UpdateEnd, Reached, u
      <3> QED
        BY <3>1 DEF Kinds
    <2>3. LeadsTo(r, u, g) => Follows(r, u.st, g)
      BY <2>2 DEF LeadsTo, Follows
    <2>4. /\ update'[g] = None /\ local'[g].st = u.st
          /\ \A h \in Gateways \ {g} : update'[h] = update[h] /\ local'[h] = local[h]
      BY <2>1 DEF ListenerTypeOK
    <2>5. ~outdated => GroundedInv'
      <3>1. ASSUME ~outdated PROVE Grounded(omap)
        BY <3>1 DEF FollowInv, GroundedInv
      <3>2. ASSUME ~outdated, NEW h \in Gateways
            PROVE  Grounded(local'[h].st) /\ (update'[h] # None => Grounded(update'[h].st))
        BY <2>1, <2>4, <3>2 DEF FollowInv, GroundedInv, u
      <3> QED
        BY <2>1, <3>1, <3>2 DEF GroundedInv, Grounded
    <2>6. ASSUME ~outdated, NEW h \in Gateways, ~troubled[h] PROVE FollowsAt(h)'
      <3>1. FollowsAt(h)
        BY <2>6 DEF FollowInv
      <3> QED
        BY <2>1, <2>3, <2>4, <3>1 DEF FollowsAt, r, u
    <2> QED
      BY <2>1, <2>5, <2>6 DEF FollowInv
  <1> QED
    BY <1>1, <1>2, <1>3, <1>4, <1>5, <1>6, <1>7, StartKeepsFollowing DEF UpdateStep

LEMMA AnaKeepsFollowing ==
    ASSUME ListenerTypeOK, FollowInv, NEW g \in Gateways, SetAnaState(g)
    PROVE  FollowInv'
  <1> DEFINE r == gw[g]
             active == {a \in Addrs : IsActive(r, a)}
  <1>1. PICK said \in [Groups -> AnaStates] :
            \/ /\ gw' = [gw EXCEPT ![g] =
                     IF r.sub = None THEN Told(r, said)
                     ELSE Set(r, said, active, r.list # {})]
               /\ UNCHANGED <<faults, troubled>>
            \/ /\ faults' = faults + 1
               /\ troubled' = [troubled EXCEPT ![g] = TRUE]
               /\ \E reached \in SUBSET active, b \in active,
                     part \in SUBSET Groups, awaited \in BOOLEAN :
                     /\ b \notin reached
                     /\ gw' = [gw EXCEPT ![g] =
                           Stopped(r, said, reached, active \ reached, b, part, awaited)]
    BY SetAnaStateCases
  <1>2. r \in GatewayStates
    BY DEF ListenerTypeOK
  <1>3. UNCHANGED <<omap, local, update, outdated>>
    BY DEF SetAnaState, omapVars
  <1>4. troubled' = troubled \/ troubled' = [troubled EXCEPT ![g] = TRUE]
    BY <1>1
  <1> HIDE DEF active
  <1>5. PICK n : /\ gw' = [gw EXCEPT ![g] = n]
                 /\ n.sub = r.sub /\ n.any = r.any
                 /\ \A b \in Addrs, s \in BOOLEAN : Listens(n, b, s) <=> Listens(r, b, s)
    <2> HIDE DEF r
    <2>1. ASSUME NEW n, gw' = [gw EXCEPT ![g] = n],
                 \/ n = Told(r, said) \/ \E awaited : n = Set(r, said, active, awaited)
                 \/ \E reached, b, part, awaited :
                       n = Stopped(r, said, reached, active \ reached, b, part, awaited)
          PROVE  \E m : /\ gw' = [gw EXCEPT ![g] = m]
                        /\ m.sub = r.sub /\ m.any = r.any
                        /\ \A a \in Addrs, s \in BOOLEAN : Listens(m, a, s) <=> Listens(r, a, s)
      <3>1. /\ n.sub = r.sub /\ n.any = r.any
            /\ \A a \in Addrs, s \in BOOLEAN : Listens(n, a, s) <=> Listens(r, a, s)
        BY <1>2, <2>1, AnaEffect
      <3> QED
        BY <2>1, <3>1
    <2>2. CASE gw' = [gw EXCEPT ![g] = IF r.sub = None THEN Told(r, said)
                                       ELSE Set(r, said, active, r.list # {})]
      BY <2>1, <2>2
    <2>3. CASE \E reached \in SUBSET active, b \in active,
                  part \in SUBSET Groups, awaited \in BOOLEAN :
                  /\ b \notin reached
                  /\ gw' = [gw EXCEPT ![g] =
                        Stopped(r, said, reached, active \ reached, b, part, awaited)]
      <3>1. PICK reached, b, part, awaited :
                gw' = [gw EXCEPT ![g] =
                   Stopped(r, said, reached, active \ reached, b, part, awaited)]
        BY <2>3
      <3> QED
        BY <2>1, <3>1
    <2> QED
      BY <1>1, <2>2, <2>3 DEF r
  <1>6. gw'[g] = n /\ \A h \in Gateways \ {g} : gw'[h] = gw[h]
    BY <1>5 DEF ListenerTypeOK
  <1>7. \A h \in Gateways : ~troubled'[h] => ~troubled[h]
    BY <1>4 DEF ListenerTypeOK
  <1>8. \A h \in Gateways : FollowsAt(h) => FollowsAt(h)'
    BY <1>3, <1>5, <1>6 DEF FollowsAt, Follows, LeadsTo
  <1> QED
    BY <1>3, <1>7, <1>8 DEF FollowInv, GroundedInv

LEMMA CrashKeepsFollowing ==
    ASSUME ListenerTypeOK, FollowInv, NEW g \in Gateways, Crash(g)
    PROVE  FollowInv'
  <1>1. /\ gw'[g] = NewGateway /\ local'[g].st = EmptyContent /\ update'[g] = None
        /\ \A h \in Gateways \ {g} :
              /\ gw'[h] = gw[h] /\ local'[h] = local[h] /\ update'[h] = update[h]
              /\ troubled'[h] = troubled[h]
        /\ omap' = omap /\ outdated' = outdated
    BY DEF Crash, ListenerTypeOK, omapVars
  <1>2. Follows(NewGateway, EmptyContent, g) /\ Grounded(EmptyContent)
    BY ListenerNone
    DEF Follows, Grounded, Listens, AtAddr, NewGateway, EmptyContent, NoListeners
  <1>3. ~outdated => GroundedInv'
    BY <1>1, <1>2 DEF FollowInv, GroundedInv
  <1>4. ASSUME ~outdated, NEW h \in Gateways, ~troubled'[h] PROVE FollowsAt(h)'
    <2>1. CASE h = g
      BY <1>1, <1>2, <2>1 DEF FollowsAt
    <2>2. CASE h # g
      BY <1>1, <1>4, <2>2 DEF FollowInv, FollowsAt
    <2> QED
      BY <2>1, <2>2
  <1> QED
    BY <1>1, <1>3, <1>4 DEF FollowInv

\* The gateways begin with what another run has left.
LEMMA InitFollows == ListenerInit => VersionInv /\ FollowInv
  <1> SUFFICES ASSUME ListenerInit PROVE VersionInv /\ FollowInv
    OBVIOUS
  <1>1. omap \in Contents /\ Grounded(omap)
    BY ListenerStarts DEF ListenerInit, Grounded
  <1>2. ASSUME NEW g \in Gateways PROVE Follows(Serving(g, omap), omap, g)
    <2> DEFINE at == {a \in Addrs : omap.lst[g][a] # None}
               n == Serving(g, omap)
    <2>1. /\ n.list = {[addr |-> a, secure |-> omap.lst[g][a], active |-> TRUE] : a \in at}
          /\ n.sub = omap.sub /\ n.any = omap.any
      BY DEF Serving, NewGateway
    <2> HIDE DEF n
    <2>2. ASSUME NEW a \in Addrs, NEW s \in BOOLEAN
          PROVE  Listens(n, a, s) <=> omap.lst[g][a] = s
      <3>1. ASSUME Listens(n, a, s) PROVE omap.lst[g][a] = s
        <4>1. PICK l \in n.list : l.addr = a /\ l.secure = s
          BY <3>1 DEF Listens, AtAddr
        <4>2. PICK b \in at : l = [addr |-> b, secure |-> omap.lst[g][b], active |-> TRUE]
          BY <2>1, <4>1
        <4>3. l.addr = b /\ l.secure = omap.lst[g][b]
          BY <4>2
        <4> QED
          BY <4>1, <4>3
      <3>2. ASSUME omap.lst[g][a] = s PROVE Listens(n, a, s)
        <4> DEFINE l == [addr |-> a, secure |-> omap.lst[g][a], active |-> TRUE]
        <4>1. l \in n.list
          BY <2>1, <3>2, ListenerNone
        <4>2. l.addr = a /\ l.secure = s /\ l.active
          BY <3>2
        <4> HIDE DEF l
        <4> QED
          BY <4>1, <4>2 DEF Listens, AtAddr
      <3> QED
        BY <3>1, <3>2
    <2> QED
      BY <2>1, <2>2 DEF Follows, n
  <1>3. /\ version = 2 /\ outdated = FALSE
        /\ \A g \in Gateways : /\ local[g].ver = 2 /\ local[g].st = omap
                               /\ gw[g] = Serving(g, omap) /\ update[g] = None
    BY DEF ListenerInit
  <1> QED
    BY <1>1, <1>2, <1>3 DEF VersionInv, FollowInv, GroundedInv, FollowsAt

LEMMA FollowInvariant ==
    ListenerSpec => [](ListenerTypeOK /\ PlannedInv /\ SaneInv /\ VersionInv /\ FollowInv)
  <1>1. ListenerInit => VersionInv /\ FollowInv
    BY InitFollows
  <1>2. ASSUME ListenerTypeOK, PlannedInv, VersionInv, FollowInv, [ListenerNext]_listenerVars
        PROVE  VersionInv' /\ FollowInv'
    <2>1. VersionInv'
      BY <1>2, VersionsStay
    <2>2. CASE UNCHANGED listenerVars
      <3>1. UNCHANGED <<omap, local, gw, update, troubled, outdated>>
        BY <2>2 DEF listenerVars, omapVars, historyVars
      <3>2. FollowInv'
        BY <1>2, <3>1, FollowSame
      <3> QED
        BY <2>1, <3>2
    <2>3. ASSUME NEW c \in Clients, Ask(c) \/ Check(c) \/ Retry(c)
          PROVE  FollowInv'
      BY <1>2, <2>3, FollowSame DEF Ask, Check, Retry, omapVars, historyVars
    <2> QED
      BY <1>2, <2>1, <2>2, <2>3, RequestKeepsFollowing, AnaKeepsFollowing,
         UpdateKeepsFollowing, CrashKeepsFollowing DEF ListenerNext
  <1> QED
    BY <1>1, <1>2, SaneInvariant, PTL DEF ListenerSpec

\* When all is answered and the gateways are up to date, SPDK at each gateway
\* whose calls have succeeded listens exactly where the OMAP says its host
\* does, with a secure channel where it says so, and the subsystem is open to
\* any host when the OMAP says so (create_listener, delete_listener, add_host,
\* remove_host and update()).
THEOREM ListenersFollow == ListenerSpec => []ListenersFollowAtRest
  <1>1. ListenerTypeOK /\ SaneInv /\ VersionInv /\ FollowInv => ListenersFollowAtRest
    <2> SUFFICES ASSUME ListenerTypeOK, SaneInv, VersionInv, FollowInv, AtRest, ~outdated,
                        NEW g \in Gateways, ~troubled[g]
                 PROVE  /\ gw[g].sub = omap.sub /\ gw[g].any = omap.any
                        /\ \A a \in Addrs :
                              /\ gw[g].spdk[a] # None <=> omap.lst[g][a] # None
                              /\ a \in gw[g].secure <=> omap.lst[g][a] = TRUE
                              /\ {l.secure : l \in {l \in AtAddr(gw[g], a) : l.active}} =
                                     {omap.lst[g][a]} \ {None}
      BY Zenon DEF ListenersFollowAtRest
    <2> DEFINE r == gw[g]
    <2>1. Follows(r, omap, g)
      BY LockedFollows DEF AtRest
    <2>2. r \in GatewayStates /\ omap \in Contents
      BY DEF ListenerTypeOK
    <2>3. r.sub = omap.sub /\ r.any = omap.any
      BY <2>1, <2>2 DEF Follows, GatewayStates, Contents
    <2>4. Sane(r) /\ r.missed = {}
      BY DEF SaneInv
    <2> HIDE DEF r
    <2>5. ASSUME NEW a \in Addrs
          PROVE  /\ r.spdk[a] # None <=> omap.lst[g][a] # None
                 /\ a \in r.secure <=> omap.lst[g][a] = TRUE
                 /\ {l.secure : l \in {l \in AtAddr(r, a) : l.active}} =
                        {omap.lst[g][a]} \ {None}
      <3>1. ASSUME NEW l \in AtAddr(r, a), l.active
            PROVE  l.secure = omap.lst[g][a] /\ l.secure \in BOOLEAN
        <4>1. l.secure \in BOOLEAN
          BY <2>2, <3>1 DEF GatewayStates, AtAddr
        <4>2. Listens(r, a, l.secure)
          BY <3>1 DEF Listens
        <4> QED
          BY <2>1, <4>1, <4>2 DEF Follows
      <3>2. ASSUME omap.lst[g][a] # None
            PROVE  \E l \in AtAddr(r, a) : l.active /\ l.secure = omap.lst[g][a]
        <4>1. omap.lst[g][a] \in BOOLEAN
          BY <2>2, <3>2 DEF Contents
        <4> QED
          BY <2>1, <4>1 DEF Follows, Listens
      <3>3. {l.secure : l \in {l \in AtAddr(r, a) : l.active}} = {omap.lst[g][a]} \ {None}
        BY <3>1, <3>2, ListenerNone
      <3>4. \A l \in AtAddr(r, a) : l.active =>
                r.spdk[a] # None /\ (l.secure <=> a \in r.secure)
        BY <2>4 DEF Sane, AtAddr
      <3>5. r.spdk[a] # None => \E l \in AtAddr(r, a) : l.active
        BY <2>4 DEF Sane, IsActive
      <3>6. a \in r.secure => r.spdk[a] # None
        BY <2>4 DEF Sane
      <3>7. omap.lst[g][a] \in BOOLEAN => omap.lst[g][a] # None
        BY ListenerNone
      <3>8. r.spdk[a] # None <=> omap.lst[g][a] # None
        BY <3>1, <3>2, <3>4, <3>5, <3>7
      <3>9. a \in r.secure <=> omap.lst[g][a] = TRUE
        <4>1. ASSUME a \in r.secure PROVE omap.lst[g][a] = TRUE
          BY <3>1, <3>4, <3>5, <3>6, <4>1
        <4>2. ASSUME omap.lst[g][a] = TRUE PROVE a \in r.secure
          BY <3>1, <3>2, <3>4, <4>2, ListenerNone
        <4> QED
          BY <4>1, <4>2
      <3> QED
        BY <3>3, <3>8, <3>9
    <2> QED
      BY <2>3, <2>5 DEF r
  <1> QED
    BY <1>1, FollowInvariant, PTL

=============================================================================

---------------------------- MODULE AccessProofs ----------------------------
(***************************************************************************)
(* Proofs about Access for every set of gateways, clients, hosts and keys, *)
(* every limit and every number of requests, faults and crashes.           *)
(***************************************************************************)
EXTENDS Access, FiniteSetTheorems, TLAPS

(***************************************************************************)
(* Type correctness                                                        *)
(***************************************************************************)
SpdkEntries == [psk : Psks \cup {NoKey}, key : MaybeKeys, ctrl : MaybeKeys]

LEMMA EmptyTypes ==
    EmptyContent \in Contents /\ NewGateway \in GatewayStates /\ NoTodo \in [Hosts -> MaybeKeys]
  BY DEF EmptyContent, Contents, NoHosts, NewGateway, GatewayStates, MaybeKeys, NoTodo

\* the fields of a gateway
LEMMA GatewayFields ==
    ASSUME NEW r \in GatewayStates
    PROVE  /\ r.sub \in Insts \cup {None} /\ r.key \in MaybeKeys
           /\ r.hosts \in [HostKeys -> SpdkEntries \cup {None}]
           /\ \A h \in HostKeys : r.hosts[h] # None =>
                 /\ r.hosts[h] \in SpdkEntries
                 /\ r.hosts[h].psk \in Psks \cup {NoKey}
                 /\ r.hosts[h].key \in MaybeKeys /\ r.hosts[h].ctrl \in MaybeKeys
  BY DEF GatewayStates, SpdkEntries

\* the fields of a content
LEMMA ContentFields ==
    ASSUME NEW st \in Contents
    PROVE  /\ st.sub # None => st.sub \in [inst : Insts, key : MaybeKeys]
           /\ st.sub # None => st.sub.inst \in Insts /\ st.sub.key \in MaybeKeys
           /\ st.hosts \in [HostKeys -> HostEntries \cup {None}]
           /\ \A h \in HostKeys : st.hosts[h] # None =>
                 /\ st.hosts[h] \in HostEntries
                 /\ st.hosts[h].psk \in Psks \cup {NoKey} /\ st.hosts[h].key \in MaybeKeys
  BY DEF Contents, HostEntries

\* What the calls make of a gateway is a gateway.
LEMMA CreatedType ==
    ASSUME NEW r \in GatewayStates, NEW inst \in Insts, NEW key \in MaybeKeys
    PROVE  Created(r, inst, key) \in GatewayStates
  BY DEF Created, GatewayStates

LEMMA AllowedFields ==
    ASSUME NEW r \in GatewayStates, NEW h \in HostKeys, NEW psk \in Psks \cup {NoKey},
           NEW key \in MaybeKeys, NEW ctrl \in MaybeKeys
    PROVE  /\ Allowed(r, h, psk, key, ctrl) \in GatewayStates
           /\ Allowed(r, h, psk, key, ctrl).sub = r.sub
           /\ Allowed(r, h, psk, key, ctrl).key = r.key
           /\ \A k \in HostKeys :
                 k # h => Allowed(r, h, psk, key, ctrl).hosts[k] = r.hosts[k]
           /\ Allowed(r, h, psk, key, ctrl).hosts[h] # None
           /\ Allowed(r, h, psk, key, ctrl).hosts[h].psk = psk
           /\ Allowed(r, h, psk, key, ctrl).hosts[h].key = key
           /\ Allowed(r, h, psk, key, ctrl).hosts[h].ctrl = IF key = NoKey THEN NoKey ELSE ctrl
  <1> DEFINE c == IF key = NoKey THEN NoKey ELSE ctrl
             e == [psk |-> psk, key |-> key, ctrl |-> c]
             n == Allowed(r, h, psk, key, ctrl)
  <1>1. c \in MaybeKeys
    BY DEF MaybeKeys
  <1>2. e \in SpdkEntries /\ e.psk = psk /\ e.key = key /\ e.ctrl = c
    BY <1>1 DEF SpdkEntries
  <1>3. n = [r EXCEPT !.hosts[h] = e]
    BY DEF Allowed
  <1>4. None \notin SpdkEntries
    BY AccessNone DEF SpdkEntries
  <1> HIDE DEF c, e, n
  <1>5. [r.hosts EXCEPT ![h] = e] \in [HostKeys -> SpdkEntries \cup {None}]
    BY <1>2, GatewayFields
  <1>6. n = [r EXCEPT !.hosts = [r.hosts EXCEPT ![h] = e]]
    BY <1>3 DEF GatewayStates
  <1>7. n \in GatewayStates
    BY <1>5, <1>6 DEF GatewayStates, SpdkEntries
  <1>8. /\ n.sub = r.sub /\ n.key = r.key
        /\ n.hosts = [r.hosts EXCEPT ![h] = e]
    BY <1>6 DEF GatewayStates
  <1>9. n.hosts[h] = e /\ \A k \in HostKeys : k # h => n.hosts[k] = r.hosts[k]
    BY <1>8, GatewayFields
  <1> QED
    BY <1>2, <1>4, <1>7, <1>8, <1>9 DEF n, c

LEMMA AllowedType ==
    ASSUME NEW r \in GatewayStates, NEW h \in HostKeys, NEW psk \in Psks \cup {NoKey},
           NEW key \in MaybeKeys, NEW ctrl \in MaybeKeys
    PROVE  Allowed(r, h, psk, key, ctrl) \in GatewayStates
  BY AllowedFields

LEMMA AllowedOthers ==
    ASSUME NEW r \in GatewayStates, NEW h \in HostKeys, NEW psk, NEW key, NEW ctrl
    PROVE  /\ Allowed(r, h, psk, key, ctrl).sub = r.sub
           /\ Allowed(r, h, psk, key, ctrl).key = r.key
           /\ \A k \in HostKeys :
                 k # h => Allowed(r, h, psk, key, ctrl).hosts[k] = r.hosts[k]
  BY GatewayFields DEF Allowed, GatewayStates

LEMMA DisallowedFields ==
    ASSUME NEW r \in GatewayStates, NEW h \in HostKeys
    PROVE  /\ Disallowed(r, h) \in GatewayStates
           /\ Disallowed(r, h).sub = r.sub /\ Disallowed(r, h).key = r.key
           /\ \A k \in HostKeys :
                 Disallowed(r, h).hosts[k] = IF k = h THEN None ELSE r.hosts[k]
  BY DEF Disallowed, GatewayStates

\* a new key of the subsystem, in the table alone or with SPDK's hosts
Rekeyed(r, key) ==
    [r EXCEPT !.key = key,
              !.hosts = [h \in HostKeys |->
                 IF h \in Keyed(r) THEN [@[h] EXCEPT !.ctrl = key] ELSE @[h]]]

LEMMA KeyFields ==
    ASSUME NEW r \in GatewayStates, NEW key \in MaybeKeys
    PROVE  /\ [r EXCEPT !.key = key] \in GatewayStates
           /\ [r EXCEPT !.key = key].sub = r.sub
           /\ [r EXCEPT !.key = key].key = key
           /\ [r EXCEPT !.key = key].hosts = r.hosts
  BY DEF GatewayStates

LEMMA RekeyedFields ==
    ASSUME NEW r \in GatewayStates, NEW key \in MaybeKeys
    PROVE  /\ Rekeyed(r, key) \in GatewayStates
           /\ Rekeyed(r, key).sub = r.sub /\ Rekeyed(r, key).key = key
           /\ \A h \in HostKeys \ Keyed(r) : Rekeyed(r, key).hosts[h] = r.hosts[h]
           /\ \A h \in Keyed(r) : /\ Rekeyed(r, key).hosts[h] # None
                                  /\ Rekeyed(r, key).hosts[h].psk = r.hosts[h].psk
                                  /\ Rekeyed(r, key).hosts[h].key = r.hosts[h].key
                                  /\ Rekeyed(r, key).hosts[h].ctrl = key
  <1> DEFINE hosts == [h \in HostKeys |->
                          IF h \in Keyed(r) THEN [r.hosts[h] EXCEPT !.ctrl = key] ELSE r.hosts[h]]
  <1>1. Keyed(r) \subseteq HostKeys /\ \A h \in Keyed(r) : r.hosts[h] # None
    BY DEF Keyed, Known, HostKeys
  <1>2. \A e \in SpdkEntries : /\ [e EXCEPT !.ctrl = key] \in SpdkEntries
                               /\ [e EXCEPT !.ctrl = key].psk = e.psk
                               /\ [e EXCEPT !.ctrl = key].key = e.key
                               /\ [e EXCEPT !.ctrl = key].ctrl = key
    BY DEF SpdkEntries
  <1>3. hosts \in [HostKeys -> SpdkEntries \cup {None}]
    BY <1>1, <1>2, GatewayFields
  <1>4. Rekeyed(r, key) = [r EXCEPT !.key = key, !.hosts = hosts]
    BY DEF Rekeyed
  <1>5. None \notin SpdkEntries
    BY AccessNone DEF SpdkEntries
  <1>6. \A h \in Keyed(r) : hosts[h] = [r.hosts[h] EXCEPT !.ctrl = key] /\ r.hosts[h] \in SpdkEntries
    BY <1>1, GatewayFields
  <1>7. \A h \in HostKeys \ Keyed(r) : hosts[h] = r.hosts[h]
    OBVIOUS
  <1> HIDE DEF hosts
  <1>8. /\ Rekeyed(r, key) \in GatewayStates
        /\ Rekeyed(r, key).sub = r.sub /\ Rekeyed(r, key).key = key
        /\ Rekeyed(r, key).hosts = hosts
    BY <1>3, <1>4 DEF GatewayStates, SpdkEntries
  <1>9. ASSUME NEW h \in Keyed(r)
        PROVE  /\ hosts[h] # None /\ hosts[h].psk = r.hosts[h].psk
               /\ hosts[h].key = r.hosts[h].key /\ hosts[h].ctrl = key
    <2>1. hosts[h] = [r.hosts[h] EXCEPT !.ctrl = key] /\ r.hosts[h] \in SpdkEntries
      BY <1>6
    <2> QED
      BY <1>2, <1>5, <2>1
  <1> QED
    BY <1>7, <1>8, <1>9

(***************************************************************************)
(* What an update plans                                                    *)
(***************************************************************************)
Has(st) == {h \in HostKeys : st.hosts[h] # None}
PskChanged(old, new) ==
    {h \in Has(old) \cap Has(new) : old.hosts[h].psk # new.hosts[h].psk}
KeyChanged(old, new) ==
    {h \in ((Has(old) \cap Has(new)) \ PskChanged(old, new)) \cap Hosts :
        old.hosts[h].key # new.hosts[h].key}
Readd(old, new) == old.sub # None /\ new.sub # None /\ old.sub.inst # new.sub.inst

LEMMA PlanFields ==
    ASSUME NEW old, NEW new
    PROVE  /\ Plan(old, new).delhost = Grouped(Has(old) \ Has(new), PskChanged(old, new))
           /\ Plan(old, new).addhost = Grouped(Has(new) \ Has(old), PskChanged(old, new))
           /\ Plan(old, new).drop =
                 CallIf(Readd(old, new) \/ (old.sub # None /\ new.sub = None))
           /\ Plan(old, new).add =
                 CallIf(Readd(old, new) \/ (old.sub = None /\ new.sub # None))
           /\ Plan(old, new).subkey =
                 CallIf(/\ old.sub # None /\ new.sub # None /\ ~Readd(old, new)
                        /\ old.sub.key # new.sub.key)
           /\ Plan(old, new).hostkey = KeyChanged(old, new)
  BY DEF Plan, Has, PskChanged, Readd, KeyChanged

LEMMA CallIfFields ==
    ASSUME NEW wanted \in BOOLEAN
    PROVE  CallIf(wanted) \in Calls /\ (CallIf(wanted) # {} <=> wanted)
  BY DEF CallIf, Calls

\* An update adds only what the content it has read has.
Planned(u) ==
    /\ \A h \in u.addhost \cup u.hostkey : u.st.hosts[h] # None
    /\ u.add # {} \/ u.subkey # {} => u.st.sub # None
PlannedInv == \A g \in Gateways : update[g] # None => Planned(update[g])

\* what StartUpdate makes of the plan
PlannedUpdate(ver, old, new) ==
    LET p == Plan(old, new)
    IN  [ver |-> ver, st |-> new, delhost |-> p.delhost, drop |-> p.drop, add |-> p.add,
         addhost |-> p.addhost, subkey |-> p.subkey, hostkey |-> p.hostkey]

LEMMA PlannedUpdateType ==
    ASSUME NEW ver \in Nat, NEW old \in Contents, NEW new \in Contents
    PROVE  /\ PlannedUpdate(ver, old, new) \in Updates
           /\ Planned(PlannedUpdate(ver, old, new))
  <1> DEFINE p == Plan(old, new)
             u == PlannedUpdate(ver, old, new)
  <1>1. /\ p.delhost \in SUBSET HostKeys /\ p.addhost \in SUBSET HostKeys
        /\ p.hostkey \in SUBSET Hosts
        /\ p.drop \in Calls /\ p.add \in Calls /\ p.subkey \in Calls
        /\ \A h \in p.addhost \cup p.hostkey : new.hosts[h] # None
        /\ p.add # {} \/ p.subkey # {} => new.sub # None
    <2>1. /\ (Readd(old, new) \/ (old.sub # None /\ new.sub = None)) \in BOOLEAN
          /\ (Readd(old, new) \/ (old.sub = None /\ new.sub # None)) \in BOOLEAN
          /\ (/\ old.sub # None /\ new.sub # None /\ ~Readd(old, new)
              /\ old.sub.key # new.sub.key) \in BOOLEAN
      BY DEF Readd
    <2>2. /\ p.drop \in Calls /\ p.add \in Calls /\ p.subkey \in Calls
          /\ p.add # {} \/ p.subkey # {} => new.sub # None
      <3>1. /\ p.drop = CallIf(Readd(old, new) \/ (old.sub # None /\ new.sub = None))
            /\ p.add = CallIf(Readd(old, new) \/ (old.sub = None /\ new.sub # None))
            /\ p.subkey = CallIf(/\ old.sub # None /\ new.sub # None /\ ~Readd(old, new)
                                 /\ old.sub.key # new.sub.key)
        BY PlanFields
      <3> HIDE DEF p
      <3> QED
        BY <2>1, <3>1, CallIfFields DEF Readd
    <2>3. /\ p.delhost \in SUBSET HostKeys /\ p.addhost \in SUBSET HostKeys
          /\ p.hostkey \in SUBSET Hosts
          /\ \A h \in p.addhost \cup p.hostkey : new.hosts[h] # None
      <3>1. /\ p.delhost = Grouped(Has(old) \ Has(new), PskChanged(old, new))
            /\ p.addhost = Grouped(Has(new) \ Has(old), PskChanged(old, new))
            /\ p.hostkey = KeyChanged(old, new)
        BY PlanFields
      <3> HIDE DEF p
      <3> QED
        BY <3>1 DEF Grouped, Has, PskChanged, KeyChanged
    <2> QED
      BY <2>2, <2>3
  <1> HIDE DEF p
  <1>2. u = [ver |-> ver, st |-> new, delhost |-> p.delhost, drop |-> p.drop, add |-> p.add,
             addhost |-> p.addhost, subkey |-> p.subkey, hostkey |-> p.hostkey]
    BY DEF PlannedUpdate, p
  <1>3. u \in Updates
    BY <1>1, <1>2 DEF Updates
  <1>4. Planned(u)
    BY <1>1, <1>2 DEF Planned
  <1> QED
    BY <1>3, <1>4

LEMMA UpdateFields ==
    ASSUME NEW u \in Updates
    PROVE  /\ u.ver \in Nat /\ u.st \in Contents
           /\ u.delhost \in SUBSET HostKeys /\ u.addhost \in SUBSET HostKeys
           /\ u.hostkey \in SUBSET Hosts
  BY DEF Updates

\* A call of an update: what it makes of the gateway, and what is left.
UpdateCall(g, r, u) ==
    /\ update[g] # None
    /\ update' = [update EXCEPT ![g] = u]
    /\ gw' = [gw EXCEPT ![g] = r]
    /\ r \in GatewayStates /\ u \in Updates
    /\ u.ver = update[g].ver /\ u.st = update[g].st
    /\ u.delhost \subseteq update[g].delhost /\ u.addhost \subseteq update[g].addhost
    /\ u.hostkey \subseteq update[g].hostkey
    /\ u.add \subseteq update[g].add /\ u.subkey \subseteq update[g].subkey
    /\ u.drop \subseteq update[g].drop
    /\ \E refused \in BOOLEAN : troubled' = [troubled EXCEPT ![g] = @ \/ refused]
    /\ UNCHANGED <<omapVars, local, req, budgetVars>>

\* the calls left of an update, after one of them
LEMMA LeftFields ==
    ASSUME NEW u \in Updates
    PROVE  /\ \A h : /\ [u EXCEPT !.delhost = @ \ {h}] \in Updates
                     /\ [u EXCEPT !.addhost = @ \ {h}] \in Updates
                     /\ [u EXCEPT !.hostkey = @ \ {h}] \in Updates
           /\ [u EXCEPT !.drop = {}] \in Updates
           /\ [u EXCEPT !.add = {}] \in Updates
           /\ [u EXCEPT !.subkey = {}] \in Updates
  BY DEF Updates, Calls

\* what a call leaves, whether it is refused or not
LEMMA DoesCall ==
    ASSUME NEW g \in Gateways, update[g] # None, NEW refused \in BOOLEAN, NEW r, NEW u,
           (IF refused THEN gw[g] ELSE r) \in GatewayStates, u \in Updates,
           update' = [update EXCEPT ![g] = u], Does(g, refused, r),
           u.ver = update[g].ver, u.st = update[g].st,
           u.delhost \subseteq update[g].delhost, u.addhost \subseteq update[g].addhost,
           u.hostkey \subseteq update[g].hostkey, u.add \subseteq update[g].add,
           u.subkey \subseteq update[g].subkey, u.drop \subseteq update[g].drop
    PROVE  UpdateCall(g, IF refused THEN gw[g] ELSE r, u)
  BY DEF UpdateCall, Does

LEMMA UpdateStepCalls ==
    ASSUME AccessTypeOK, PlannedInv, NEW g \in Gateways, UpdateStep(g),
           ~StartUpdate(g), ~UpdateEnd(g)
    PROVE  \E r, u : UpdateCall(g, r, u)
  <1> DEFINE r == gw[g]
             u == update[g]
  <1>1. u # None
    BY DEF UpdateStep, UpdateRemoveHost, UpdateDrop, UpdateCreate, UpdateAddHost,
       UpdateSubsystemKey, UpdateHostKey, Reached
  <1>2. /\ r \in GatewayStates /\ u \in Updates /\ Planned(u)
    BY <1>1 DEF AccessTypeOK, PlannedInv
  <1> HIDE DEF r, u
  <1>3. CASE UpdateRemoveHost(g)
    <2>1. PICK h \in u.delhost :
              /\ update' = [update EXCEPT ![g].delhost = @ \ {h}]
              /\ Does(g, r.sub = None, Disallowed(r, h))
      BY <1>3 DEF UpdateRemoveHost, r, u
    <2> DEFINE v == [u EXCEPT !.delhost = @ \ {h}]
               n == Disallowed(r, h)
    <2>2. n \in GatewayStates
      BY <1>2, <2>1, UpdateFields, DisallowedFields
    <2>3. v \in Updates
      BY <1>2, LeftFields
    <2>4. update' = [update EXCEPT ![g] = v]
      BY <2>1 DEF u
    <2>5. /\ v.ver = u.ver /\ v.st = u.st /\ v.delhost \subseteq u.delhost
          /\ v.addhost = u.addhost /\ v.hostkey = u.hostkey /\ v.add = u.add
          /\ v.subkey = u.subkey /\ v.drop = u.drop
      BY <1>2 DEF Updates
    <2> HIDE DEF n, v
    <2> QED
      BY <1>1, <1>2, <2>1, <2>2, <2>3, <2>4, <2>5, DoesCall DEF r, u, n
  <1>4. CASE UpdateDrop(g)
    <2> DEFINE v == [u EXCEPT !.drop = {}]
    <2>1. update' = [update EXCEPT ![g] = v] /\ Does(g, r.sub = None, NewGateway)
      BY <1>4 DEF UpdateDrop, r, u
    <2>2. NewGateway \in GatewayStates /\ v \in Updates
      BY <1>2, LeftFields, EmptyTypes
    <2>3. /\ v.ver = u.ver /\ v.st = u.st /\ v.delhost = u.delhost
          /\ v.addhost = u.addhost /\ v.hostkey = u.hostkey /\ v.add = u.add
          /\ v.subkey = u.subkey /\ v.drop \subseteq u.drop
      BY <1>2 DEF Updates
    <2> HIDE DEF v
    <2> QED
      BY <1>1, <1>2, <2>1, <2>2, <2>3, DoesCall DEF r, u
  <1>5. CASE UpdateCreate(g)
    <2> DEFINE v == [u EXCEPT !.add = {}]
               n == Created(r, u.st.sub.inst, u.st.sub.key)
    <2>1. update' = [update EXCEPT ![g] = v] /\ Does(g, r.sub # None, n) /\ u.add # {}
      BY <1>5 DEF UpdateCreate, r, u
    <2>2. u.st.sub.inst \in Insts /\ u.st.sub.key \in MaybeKeys
      BY <1>2, <2>1, UpdateFields, ContentFields DEF Planned
    <2>3. n \in GatewayStates /\ v \in Updates
      BY <1>2, <2>2, LeftFields, CreatedType
    <2>4. /\ v.ver = u.ver /\ v.st = u.st /\ v.delhost = u.delhost
          /\ v.addhost = u.addhost /\ v.hostkey = u.hostkey /\ v.add \subseteq u.add
          /\ v.subkey = u.subkey /\ v.drop = u.drop
      BY <1>2 DEF Updates
    <2> HIDE DEF n, v
    <2> QED
      BY <1>1, <1>2, <2>1, <2>3, <2>4, DoesCall DEF r, u
  <1>6. CASE UpdateAddHost(g)
    <2>1. PICK h \in u.addhost :
              /\ update' = [update EXCEPT ![g].addhost = @ \ {h}]
              /\ Does(g, NotAddable(r, h, u.st.hosts[h].key) \/ SpdkRefuses(r, h),
                      Allowed(r, h, u.st.hosts[h].psk, u.st.hosts[h].key, r.key))
      BY <1>6 DEF UpdateAddHost, r, u
    <2> DEFINE v == [u EXCEPT !.addhost = @ \ {h}]
               n == Allowed(r, h, u.st.hosts[h].psk, u.st.hosts[h].key, r.key)
               refused == NotAddable(r, h, u.st.hosts[h].key) \/ SpdkRefuses(r, h)
    <2>2. /\ h \in HostKeys /\ u.st.hosts[h].psk \in Psks \cup {NoKey}
          /\ u.st.hosts[h].key \in MaybeKeys /\ r.key \in MaybeKeys
      BY <1>2, <2>1, UpdateFields, ContentFields, GatewayFields DEF Planned
    <2>3. n \in GatewayStates
      BY <1>2, <2>2, AllowedType
    <2>4. v \in Updates
      BY <1>2, LeftFields
    <2>5. update' = [update EXCEPT ![g] = v]
      BY <2>1 DEF u
    <2>6. /\ v.ver = u.ver /\ v.st = u.st /\ v.delhost = u.delhost
          /\ v.addhost \subseteq u.addhost /\ v.hostkey = u.hostkey /\ v.add = u.add
          /\ v.subkey = u.subkey /\ v.drop = u.drop
      BY <1>2 DEF Updates
    <2>7. refused \in BOOLEAN
      BY DEF NotAddable, SpdkRefuses
    <2> HIDE DEF n, v, refused
    <2>8. Does(g, refused, n)
      BY <2>1 DEF n, refused
    <2> QED
      BY <1>1, <1>2, <2>3, <2>4, <2>5, <2>6, <2>7, <2>8, DoesCall DEF r, u
  <1>7. CASE UpdateSubsystemKey(g)
    <2> DEFINE v == [u EXCEPT !.subkey = {}]
               n == Rekeyed(r, u.st.sub.key)
    <2>1. update' = [update EXCEPT ![g] = v] /\ Does(g, FALSE, n) /\ u.subkey # {}
      BY <1>7 DEF UpdateSubsystemKey, Rekeyed, r, u
    <2>2. u.st.sub.key \in MaybeKeys
      BY <1>2, <2>1, UpdateFields, ContentFields DEF Planned
    <2>3. n \in GatewayStates /\ v \in Updates
      BY <1>2, <2>2, LeftFields, RekeyedFields
    <2>4. /\ v.ver = u.ver /\ v.st = u.st /\ v.delhost = u.delhost
          /\ v.addhost = u.addhost /\ v.hostkey = u.hostkey /\ v.add = u.add
          /\ v.subkey \subseteq u.subkey /\ v.drop = u.drop
      BY <1>2 DEF Updates
    <2> HIDE DEF n, v
    <2> QED
      BY <1>1, <1>2, <2>1, <2>3, <2>4, DoesCall DEF r, u
  <1>8. CASE UpdateHostKey(g)
    <2>1. PICK h \in u.hostkey :
              /\ update' = [update EXCEPT ![g].hostkey = @ \ {h}]
              /\ Does(g, NotKeyable(r, u.st.hosts[h].key) \/ r.hosts[h] = None,
                      WithKey(r, h, u.st.hosts[h].key, r.key))
      BY <1>8 DEF UpdateHostKey, r, u
    <2> DEFINE v == [u EXCEPT !.hostkey = @ \ {h}]
               n == WithKey(r, h, u.st.hosts[h].key, r.key)
               refused == NotKeyable(r, u.st.hosts[h].key) \/ r.hosts[h] = None
    <2>2. /\ h \in HostKeys /\ u.st.hosts[h].key \in MaybeKeys /\ r.key \in MaybeKeys
          /\ r.hosts[h] # None => r.hosts[h].psk \in Psks \cup {NoKey}
      BY <1>2, <2>1, UpdateFields, ContentFields, GatewayFields DEF Planned, HostKeys
    <2>3. (IF refused THEN r ELSE n) \in GatewayStates
      BY <1>2, <2>2, AllowedFields DEF WithKey
    <2>4. v \in Updates
      BY <1>2, LeftFields
    <2>5. update' = [update EXCEPT ![g] = v]
      BY <2>1 DEF u
    <2>6. /\ v.ver = u.ver /\ v.st = u.st /\ v.delhost = u.delhost
          /\ v.addhost = u.addhost /\ v.hostkey \subseteq u.hostkey /\ v.add = u.add
          /\ v.subkey = u.subkey /\ v.drop = u.drop
      BY <1>2 DEF Updates
    <2>7. refused \in BOOLEAN
      BY DEF NotKeyable
    <2> HIDE DEF n, v, refused
    <2>8. Does(g, refused, n)
      BY <2>1 DEF n, refused
    <2> QED
      BY <1>1, <1>2, <2>3, <2>4, <2>5, <2>6, <2>7, <2>8, DoesCall DEF r, u
  <1> QED
    BY SMTT(30), <1>3, <1>4, <1>5, <1>6, <1>7, <1>8 DEF UpdateStep

(***************************************************************************)
(* What a request does                                                     *)
(***************************************************************************)
\* Only a change of the subsystem's key has hosts to do, and it holds on to one
\* of them until it is done.
Wellformed(q) ==
    /\ q.host = None => \A h \in Hosts : q.todo[h] = NoKey
    /\ ~q.waiting => q.host = None
    /\ q.host # None => q.ask.op = "subkey"
RequestInv == \A c \in Clients : req[c] # None => Wellformed(req[c])

\* the fields of a request
LEMMA RequestFields ==
    ASSUME NEW q \in Requests
    PROVE  /\ q.gw \in Gateways /\ q.inst \in Insts /\ q.ctrl \in MaybeKeys
           /\ q.psk \in Psks \cup {NoKey} /\ q.host \in Hosts \cup {None}
           /\ q.todo \in [Hosts -> MaybeKeys]
           /\ q.ask.op = "create" => q.ask.serial \in {0, None} /\ q.ask.key \in MaybeKeys
           /\ q.ask.op = "add" => /\ q.ask.host \in HostKeys /\ q.ask.key \in MaybeKeys
                                  /\ q.ask.psk \in Psks \cup {NoKey}
                                  /\ q.ask.host = Star => q.ask.psk = NoKey /\ q.ask.key = NoKey
           /\ q.ask.op = "remove" => q.ask.host \in HostKeys
           /\ q.ask.op = "hostkey" => q.ask.host \in Hosts /\ q.ask.key \in MaybeKeys
           /\ q.ask.op = "subkey" => q.ask.key \in MaybeKeys
  <1>1. /\ q.gw \in Gateways /\ q.inst \in Insts /\ q.ctrl \in MaybeKeys
        /\ q.psk \in Psks \cup {NoKey} /\ q.host \in Hosts \cup {None}
        /\ q.todo \in [Hosts -> MaybeKeys] /\ q.ask \in AllAsks
    BY DEF Requests
  <1> HIDE DEF Requests
  <1>2. \A ask \in AllAsks :
           /\ ask.op = "create" => ask.serial \in {0, None} /\ ask.key \in MaybeKeys
           /\ ask.op = "add" => /\ ask.host \in HostKeys /\ ask.key \in MaybeKeys
                                /\ ask.psk \in Psks \cup {NoKey}
                                /\ ask.host = Star => ask.psk = NoKey /\ ask.key = NoKey
           /\ ask.op = "remove" => ask.host \in HostKeys
           /\ ask.op = "hostkey" => ask.host \in Hosts /\ ask.key \in MaybeKeys
           /\ ask.op = "subkey" => ask.key \in MaybeKeys
    BY AccessKeys DEF AllAsks, MaybeKeys, HostKeys
  <1> QED
    BY <1>1, <1>2

\* the request of the next host
NextRequest(q, r, h, passed) ==
    [q EXCEPT !.waiting = TRUE, !.host = h, !.ctrl = r.key,
              !.psk = IF r.hosts[h] = None THEN NoKey ELSE r.hosts[h].psk,
              !.todo = [k \in Hosts |-> IF k = h \/ k \in passed THEN NoKey ELSE @[k]],
              !.ask.key = q.todo[h]]

LEMMA NextRequestType ==
    ASSUME NEW q \in Requests, NEW r \in GatewayStates, NEW h \in Hosts, NEW passed \in SUBSET Hosts,
           q.ask.op = "subkey"
    PROVE  /\ NextRequest(q, r, h, passed) \in Requests
           /\ NextRequest(q, r, h, passed).gw = q.gw
           /\ NextRequest(q, r, h, passed).host = h
           /\ NextRequest(q, r, h, passed).waiting
           /\ NextRequest(q, r, h, passed).ask.op = "subkey"
  <1> DEFINE psk == IF r.hosts[h] = None THEN NoKey ELSE r.hosts[h].psk
             todo == [k \in Hosts |-> IF k = h \/ k \in passed THEN NoKey ELSE q.todo[k]]
             ask == [q.ask EXCEPT !.key = q.todo[h]]
  <1>1. psk \in Psks \cup {NoKey} /\ r.key \in MaybeKeys
    BY GatewayFields DEF HostKeys
  <1>2. todo \in [Hosts -> MaybeKeys]
    BY RequestFields DEF MaybeKeys
  <1>3. ask \in AllAsks /\ ask.op = "subkey"
    <2>1. q.todo[h] \in MaybeKeys
      BY RequestFields
    <2>2. q.ask \in [op : {"subkey"}, key : Keys \cup {NoKey}]
      BY DEF Requests, AllAsks
    <2>3. ask \in [op : {"subkey"}, key : Keys \cup {NoKey}]
      BY <2>1, <2>2 DEF MaybeKeys
    <2> QED
      BY <2>3 DEF AllAsks
  <1>4. NextRequest(q, r, h, passed) =
            [q EXCEPT !.waiting = TRUE, !.host = h, !.ctrl = r.key, !.psk = psk,
                      !.todo = todo, !.ask = ask]
    BY DEF NextRequest
  <1> DEFINE n == NextRequest(q, r, h, passed)
  <1> HIDE DEF psk, ask, todo, n
  <1>5. q = [gw |-> q.gw, ask |-> q.ask, inst |-> q.inst, waiting |-> q.waiting,
             ctrl |-> q.ctrl, psk |-> q.psk, host |-> q.host, todo |-> q.todo]
    BY DEF Requests
  <1>6. n = [gw |-> q.gw, ask |-> ask, inst |-> q.inst, waiting |-> TRUE,
             ctrl |-> r.key, psk |-> psk, host |-> h, todo |-> todo]
    BY <1>4, <1>5 DEF n
  <1>7. q.gw \in Gateways /\ q.inst \in Insts
    BY DEF Requests
  <1>8. /\ n \in Requests /\ n.gw = q.gw /\ n.host = h /\ n.waiting
        /\ n.ask = ask /\ n.todo = todo
    BY <1>1, <1>2, <1>3, <1>6, <1>7 DEF Requests
  <1> QED
    BY <1>3, <1>8 DEF n, todo

LEMMA NextHostFields ==
    ASSUME NEW q, NEW r, NEW st
    PROVE  NextHost(q, r, st) =
               LET left == {h \in Hosts : q.todo[h] # NoKey}
                   fit == {h \in left : st.hosts[h] # None}
               IN  IF fit = {} THEN {None}
                   ELSE {NextRequest(q, r, h, passed) :
                            h \in fit, passed \in SUBSET (left \ fit)}
  BY DEF NextHost, NextRequest

LEMMA NextHostType ==
    ASSUME NEW q \in Requests, q.ask.op = "subkey", NEW r \in GatewayStates, NEW st,
           NEW n \in NextHost(q, r, st)
    PROVE  \/ n = None
           \/ n \in Requests /\ Wellformed(n) /\ n.gw = q.gw
  <1>0. \A h \in Hosts : \A passed \in SUBSET Hosts :
           /\ NextRequest(q, r, h, passed) \in Requests
           /\ NextRequest(q, r, h, passed).gw = q.gw
           /\ NextRequest(q, r, h, passed).host = h
           /\ NextRequest(q, r, h, passed).waiting
           /\ NextRequest(q, r, h, passed).ask.op = "subkey"
    <2> TAKE h \in Hosts
    <2> TAKE passed \in SUBSET Hosts
    <2> QED
      BY NextRequestType
  <1>1. \/ n = None
        \/ \E h \in Hosts : \E passed \in SUBSET Hosts : n = NextRequest(q, r, h, passed)
    BY NextHostFields
  <1>2. CASE \E h \in Hosts : \E passed \in SUBSET Hosts : n = NextRequest(q, r, h, passed)
    <2>1. PICK h \in Hosts : \E passed \in SUBSET Hosts : n = NextRequest(q, r, h, passed)
      BY <1>2
    <2>2. PICK passed \in SUBSET Hosts : n = NextRequest(q, r, h, passed)
      BY <2>1
    <2>3. /\ n \in Requests /\ n.gw = q.gw /\ n.host = h /\ n.waiting
          /\ n.ask.op = "subkey"
      BY <1>0, <2>1, <2>2
    <2>4. h # None
      BY AccessNone
    <2> QED
      BY <2>3, <2>4 DEF Wellformed
  <1> QED
    BY <1>1, <1>2

\* What every request with the lock does, as far as the types and the versions
\* go.
RequestEffect(c) ==
    LET g == req[c].gw
    IN  /\ \E n \in Requests \cup {None} :
              /\ n # None => Wellformed(n) /\ n.gw = g
              /\ req' = [req EXCEPT ![c] = n]
        /\ \E r \in GatewayStates : gw' = [gw EXCEPT ![g] = r]
        /\ \/ UNCHANGED <<omapVars, local>>
           \/ ~Behind(g) /\ \E new \in Contents : Write(g, new)
        /\ troubled' \in [Gateways -> BOOLEAN]
        /\ \A k \in Gateways : k # g => troubled'[k] = troubled[k]
        /\ faults' \in Nat
        /\ UNCHANGED <<update, requests, crashes>>

LEMMA OutdatedType == \A q : Outdated(q) \in BOOLEAN
  BY DEF Outdated, Refused

LEMMA SucceedsEffect ==
    ASSUME AccessTypeOK, NEW c \in Clients, req[c] \in Requests, ~Behind(req[c].gw),
           NEW r \in GatewayStates, NEW new \in Contents, Succeeds(c, r, new),
           NEW n \in Requests \cup {None}, n # None => Wellformed(n) /\ n.gw = req[c].gw,
           req' = [req EXCEPT ![c] = n]
    PROVE  RequestEffect(c)
  <1>1. /\ Outdated(req[c]) \in BOOLEAN /\ faults \in Nat
        /\ troubled \in [Gateways -> BOOLEAN] /\ req[c].gw \in Gateways
    BY OutdatedType DEF AccessTypeOK, Requests
  <1>2. /\ gw' = [gw EXCEPT ![req[c].gw] = r] /\ Write(req[c].gw, new)
        /\ troubled' = [troubled EXCEPT ![req[c].gw] = @ \/ Outdated(req[c])]
        /\ UNCHANGED <<update, budgetVars>>
    BY DEF Succeeds
  <1> HIDE DEF Outdated
  <1>3. /\ troubled' \in [Gateways -> BOOLEAN]
        /\ \A k \in Gateways : k # req[c].gw => troubled'[k] = troubled[k]
    BY <1>1, <1>2
  <1> QED
    BY <1>1, <1>2, <1>3 DEF RequestEffect, budgetVars

LEMMA BreaksEffect ==
    ASSUME AccessTypeOK, NEW c \in Clients, req[c] \in Requests,
           NEW r \in GatewayStates, Breaks(c, r)
    PROVE  RequestEffect(c)
  <1>1. /\ req[c].gw \in Gateways /\ faults \in Nat
        /\ troubled \in [Gateways -> BOOLEAN]
    BY DEF AccessTypeOK, Requests
  <1>2. /\ faults' = faults + 1 /\ gw' = [gw EXCEPT ![req[c].gw] = r]
        /\ troubled' = [troubled EXCEPT ![req[c].gw] = TRUE]
        /\ req' = [req EXCEPT ![c] = None]
        /\ UNCHANGED <<omapVars, local, update, requests, crashes>>
    BY DEF Breaks, Answer
  <1> QED
    <2>1. /\ faults' \in Nat /\ troubled' \in [Gateways -> BOOLEAN]
          /\ \A k \in Gateways : k # req[c].gw => troubled'[k] = troubled[k]
      BY <1>1, <1>2
    <2>2. \E n \in Requests \cup {None} :
              /\ n # None => Wellformed(n) /\ n.gw = req[c].gw
              /\ req' = [req EXCEPT ![c] = n]
      BY <1>2
    <2> QED
      BY <1>2, <2>1, <2>2 DEF RequestEffect, omapVars

LEMMA FailsEffect ==
    ASSUME AccessTypeOK, NEW c \in Clients, req[c] \in Requests, Fails(c)
    PROVE  RequestEffect(c)
  <1>1. /\ gw' = [gw EXCEPT ![req[c].gw] = gw[req[c].gw]] /\ gw[req[c].gw] \in GatewayStates
    BY DEF Fails, AccessTypeOK, Requests
  <1> QED
    BY <1>1 DEF RequestEffect, Fails, Answer, AccessTypeOK, budgetVars

LEMMA RemovalEffect ==
    ASSUME AccessTypeOK, NEW c \in Clients, req[c] \in Requests, ~Behind(req[c].gw),
           NEW can \in BOOLEAN, NEW r \in GatewayStates, NEW new \in Contents,
           Removal(c, can, r, new)
    PROVE  RequestEffect(c)
  <1>0. req[c].gw \in Gateways /\ gw[req[c].gw] \in GatewayStates
    BY DEF AccessTypeOK, Requests
  <1>1. CASE Effect(c, r, new)
    BY <1>1, SucceedsEffect, BreaksEffect DEF Effect, Answer
  <1>2. CASE Succeeds(c, gw[req[c].gw], new) /\ Answer(c)
    BY <1>0, <1>2, SucceedsEffect DEF Answer
  <1>3. CASE /\ faults' = faults + 1
             /\ Write(req[c].gw, new)
             /\ troubled' = [troubled EXCEPT ![req[c].gw] = TRUE]
             /\ Answer(c)
             /\ UNCHANGED <<gw, update, requests, crashes>>
    <2>1. gw' = [gw EXCEPT ![req[c].gw] = gw[req[c].gw]]
      BY <1>3 DEF AccessTypeOK
    <2>2. /\ faults' \in Nat /\ troubled' \in [Gateways -> BOOLEAN]
          /\ \A k \in Gateways : k # req[c].gw => troubled'[k] = troubled[k]
      BY <1>0, <1>3 DEF AccessTypeOK
    <2> QED
      BY <1>0, <1>3, <2>1, <2>2 DEF RequestEffect, Answer
  <1> QED
    BY <1>1, <1>2, <1>3 DEF Removal

\* the contents the requests write
LEMMA WrittenTypes ==
    ASSUME omap \in Contents
    PROVE  /\ \A e \in [inst : Insts, key : MaybeKeys] : [omap EXCEPT !.sub = e] \in Contents
           /\ \A h \in HostKeys : \A e \in HostEntries \cup {None} :
                 [omap EXCEPT !.hosts[h] = e] \in Contents
  BY DEF Contents

\* what every request with the lock starts from
LEMMA LockedFields ==
    ASSUME AccessTypeOK, NEW c \in Clients, req[c] # None
    PROVE  /\ req[c] \in Requests /\ req[c].gw \in Gateways
           /\ gw[req[c].gw] \in GatewayStates
           /\ local[req[c].gw].st \in Contents /\ local[req[c].gw].ver \in Nat
           /\ omap \in Contents
  BY DEF AccessTypeOK, Requests

LEMMA CreateSubsystemEffect ==
    ASSUME AccessTypeOK, NEW c \in Clients, CreateSubsystem(c)
    PROVE  RequestEffect(c)
  <1> DEFINE q == req[c]
             r == gw[q.gw]
             inst == IF q.ask.serial = None THEN q.inst ELSE q.ask.serial
             e == [inst |-> inst, key |-> q.ask.key]
  <1>1. /\ Locked(c, "create")
        /\ Fails(c) \/ Effect(c, Created(r, inst, q.ask.key), [omap EXCEPT !.sub = e])
    BY DEF CreateSubsystem
  <1>2. /\ q \in Requests /\ r \in GatewayStates /\ omap \in Contents
        /\ ~Behind(q.gw) /\ q.ask.op = "create"
    BY <1>1, LockedFields DEF Locked
  <1>3. inst \in Insts /\ q.ask.key \in MaybeKeys
    BY <1>2, RequestFields, AccessBounds DEF Insts
  <1>4. e \in [inst : Insts, key : MaybeKeys]
    BY <1>3
  <1> HIDE DEF inst, e
  <1>5. Created(r, inst, q.ask.key) \in GatewayStates
    BY <1>2, <1>3, CreatedType
  <1>6. [omap EXCEPT !.sub = e] \in Contents
    BY <1>2, <1>4, WrittenTypes
  <1>7. CASE Effect(c, Created(r, inst, q.ask.key), [omap EXCEPT !.sub = e])
    BY <1>2, <1>5, <1>6, <1>7, SucceedsEffect, BreaksEffect DEF Effect, Answer
  <1> QED
    BY <1>1, <1>2, <1>7, FailsEffect

LEMMA DeleteSubsystemEffect ==
    ASSUME AccessTypeOK, NEW c \in Clients, DeleteSubsystem(c)
    PROVE  RequestEffect(c)
  <1>1. Locked(c, "delete") /\ Removal(c, gw[req[c].gw].sub # None, NewGateway, EmptyContent)
    BY DEF DeleteSubsystem
  <1>2. req[c] \in Requests /\ ~Behind(req[c].gw)
    BY <1>1, LockedFields DEF Locked
  <1> QED
    BY <1>1, <1>2, EmptyTypes, RemovalEffect

LEMMA AddHostEffect ==
    ASSUME AccessTypeOK, NEW c \in Clients, AddHost(c)
    PROVE  RequestEffect(c)
  <1> DEFINE q == req[c]
             r == gw[q.gw]
             h == q.ask.host
             e == [psk |-> q.ask.psk, key |-> q.ask.key]
             after == Allowed(r, h, q.ask.psk, q.ask.key, q.ctrl)
             new == [omap EXCEPT !.hosts[h] = e]
  <1>1. Locked(c, "add") /\ (Fails(c) \/ Effect(c, after, new))
    BY DEF AddHost
  <1>2. /\ q \in Requests /\ r \in GatewayStates /\ omap \in Contents
        /\ ~Behind(q.gw) /\ q.ask.op = "add"
    BY <1>1, LockedFields DEF Locked
  <1>3. /\ h \in HostKeys /\ q.ask.key \in MaybeKeys /\ q.ask.psk \in Psks \cup {NoKey}
        /\ q.ctrl \in MaybeKeys
    BY <1>2, RequestFields
  <1>4. e \in HostEntries
    BY <1>3 DEF HostEntries
  <1>5. new \in Contents
    BY <1>2, <1>3, <1>4, WrittenTypes
  <1>6. after \in GatewayStates
    BY <1>2, <1>3, AllowedFields
  <1> HIDE DEF after, new
  <1>7. CASE Effect(c, after, new)
    BY <1>2, <1>5, <1>6, <1>7, SucceedsEffect, BreaksEffect DEF Effect, Answer
  <1> QED
    BY <1>1, <1>2, <1>7, FailsEffect

LEMMA RemoveHostEffect ==
    ASSUME AccessTypeOK, NEW c \in Clients, RemoveHost(c)
    PROVE  RequestEffect(c)
  <1> DEFINE q == req[c]
             r == gw[q.gw]
             h == q.ask.host
             new == [omap EXCEPT !.hosts[h] = None]
  <1>1. /\ Locked(c, "remove")
        /\ Fails(c) \/ Removal(c, r.sub # None, Disallowed(r, h), new)
    BY DEF RemoveHost
  <1>2. /\ q \in Requests /\ r \in GatewayStates /\ omap \in Contents
        /\ ~Behind(q.gw) /\ q.ask.op = "remove"
    BY <1>1, LockedFields DEF Locked
  <1>3. h \in HostKeys
    BY <1>2, RequestFields
  <1>4. new \in Contents
    BY <1>2, <1>3, WrittenTypes
  <1>5. Disallowed(r, h) \in GatewayStates
    BY <1>2, <1>3, DisallowedFields
  <1> HIDE DEF new
  <1>6. CASE Removal(c, r.sub # None, Disallowed(r, h), new)
    BY <1>2, <1>4, <1>5, <1>6, RemovalEffect
  <1> QED
    BY <1>1, <1>2, <1>6, FailsEffect

LEMMA ChangeHostKeyEffect ==
    ASSUME AccessTypeOK, NEW c \in Clients, ChangeHostKey(c)
    PROVE  RequestEffect(c)
  <1> DEFINE q == req[c]
             r == gw[q.gw]
             h == q.ask.host
             e == [psk |-> q.psk, key |-> q.ask.key]
             after == WithKey(r, h, q.ask.key, q.ctrl)
             new == [omap EXCEPT !.hosts[h] = e]
  <1>1. Locked(c, "hostkey") /\ (Fails(c) \/ (SpdkHas(r, h) /\ Effect(c, after, new)))
    BY DEF ChangeHostKey
  <1>2. /\ q \in Requests /\ r \in GatewayStates /\ omap \in Contents
        /\ ~Behind(q.gw) /\ q.ask.op = "hostkey"
    BY <1>1, LockedFields DEF Locked
  <1>3. /\ h \in HostKeys /\ q.ask.key \in MaybeKeys /\ q.psk \in Psks \cup {NoKey}
        /\ q.ctrl \in MaybeKeys
    BY <1>2, RequestFields DEF HostKeys
  <1>4. e \in HostEntries
    BY <1>3 DEF HostEntries
  <1>5. new \in Contents
    BY <1>2, <1>3, <1>4, WrittenTypes
  <1>6. SpdkHas(r, h) => after \in GatewayStates
    <2>1. SpdkHas(r, h) => r.hosts[h].psk \in Psks \cup {NoKey}
      BY <1>2, <1>3, GatewayFields DEF SpdkHas
    <2> QED
      BY <1>2, <1>3, <2>1, AllowedFields DEF WithKey
  <1> HIDE DEF after, new
  <1>7. CASE SpdkHas(r, h) /\ Effect(c, after, new)
    BY <1>2, <1>5, <1>6, <1>7, SucceedsEffect, BreaksEffect DEF Effect, Answer
  <1> QED
    BY <1>1, <1>2, <1>7, FailsEffect

LEMMA ChangeSubsystemKeyEffect ==
    ASSUME AccessTypeOK, NEW c \in Clients, ChangeSubsystemKey(c)
    PROVE  RequestEffect(c)
  <1> DEFINE q == req[c]
             r == gw[q.gw]
             key == q.ask.key
             st == local[q.gw].st
             e == [inst |-> st.sub.inst, key |-> key]
             new == [omap EXCEPT !.sub = e]
             todo == [h \in Hosts |-> IF h \in Keyed(r) THEN r.hosts[h].key ELSE NoKey]
             after == [r EXCEPT !.key = key]
             p == [q EXCEPT !.todo = todo]
  <1>1. /\ Locked(c, "subkey")
        /\ \/ Fails(c)
           \/ /\ st.sub # None
              /\ \/ /\ Succeeds(c, after, new)
                    /\ \E next \in NextHost(p, after, new) : req' = [req EXCEPT ![c] = next]
                 \/ Breaks(c, r)
    BY DEF ChangeSubsystemKey
  <1>2. /\ q \in Requests /\ r \in GatewayStates /\ omap \in Contents /\ st \in Contents
        /\ ~Behind(q.gw) /\ q.ask.op = "subkey"
    BY <1>1, LockedFields DEF Locked
  <1>3. key \in MaybeKeys
    BY <1>2, RequestFields
  <1>4. todo \in [Hosts -> MaybeKeys]
    BY <1>2, GatewayFields DEF MaybeKeys, Keyed, Known, HostKeys
  <1> HIDE DEF todo
  <1>5. p \in Requests /\ p.ask.op = "subkey" /\ p.gw = q.gw
    BY <1>2, <1>4 DEF Requests
  <1> HIDE DEF p
  <1>6. after \in GatewayStates
    BY <1>2, <1>3, KeyFields
  <1>7. CASE /\ st.sub # None /\ Succeeds(c, after, new)
             /\ \E next \in NextHost(p, after, new) : req' = [req EXCEPT ![c] = next]
    <2>1. st.sub.inst \in Insts
      BY <1>2, <1>7, ContentFields
    <2>2. e \in [inst : Insts, key : MaybeKeys]
      BY <1>3, <2>1
    <2>3. new \in Contents
      BY <1>2, <2>2, WrittenTypes
    <2> HIDE DEF after, new
    <2>4. PICK next \in NextHost(p, after, new) : req' = [req EXCEPT ![c] = next]
      BY <1>7
    <2>5. next \in Requests \cup {None} /\ (next # None => Wellformed(next) /\ next.gw = q.gw)
      BY <1>5, <1>6, <2>4, NextHostType
    <2> QED
      BY <1>2, <1>6, <1>7, <2>3, <2>4, <2>5, SucceedsEffect
  <1>8. CASE Breaks(c, r)
    BY <1>2, <1>8, BreaksEffect
  <1> QED
    BY SMTT(30), <1>1, <1>2, <1>7, <1>8, FailsEffect

\* The host that is passed over keeps its entry, and the next one has its turn.
LEMMA PassesOverEffect ==
    ASSUME AccessTypeOK, NEW c \in Clients, req[c] # None, req[c].ask.op = "subkey",
           NEW n \in GatewayStates, PassesOver(c, n), faults' \in Nat
    PROVE  RequestEffect(c)
  <1> DEFINE q == req[c]
             g == q.gw
  <1>1. /\ \E next \in NextHost(q, n, local[g].st) : req' = [req EXCEPT ![c] = next]
        /\ gw' = [gw EXCEPT ![g] = n]
        /\ troubled' = [troubled EXCEPT ![g] = TRUE]
        /\ UNCHANGED <<omapVars, local, update, requests, crashes>>
    BY DEF PassesOver
  <1>2. q \in Requests /\ g \in Gateways
    BY LockedFields
  <1>3. PICK next \in NextHost(q, n, local[g].st) : req' = [req EXCEPT ![c] = next]
    BY <1>1
  <1>4. next \in Requests \cup {None} /\ (next # None => Wellformed(next) /\ next.gw = g)
    BY <1>2, <1>3, NextHostType
  <1>5. /\ troubled' \in [Gateways -> BOOLEAN]
        /\ \A k \in Gateways : k # g => troubled'[k] = troubled[k]
    BY <1>1, <1>2 DEF AccessTypeOK
  <1> QED
    BY <1>1, <1>3, <1>4, <1>5 DEF RequestEffect

LEMMA ChangeKeyOfHostEffect ==
    ASSUME AccessTypeOK, RequestInv, NEW c \in Clients, ChangeKeyOfHost(c)
    PROVE  RequestEffect(c)
  <1> DEFINE q == req[c]
             g == q.gw
             r == gw[g]
             h == q.host
             e == [psk |-> q.psk, key |-> q.ask.key]
             after == WithKey(r, h, q.ask.key, q.ctrl)
             new == [omap EXCEPT !.hosts[h] = e]
  <1>1. /\ q # None /\ q.host # None
        /\ \/ PassesOver(c, r) /\ UNCHANGED faults
           \/ /\ ~Behind(g) /\ SpdkHas(r, h)
              /\ Succeeds(c, after, new)
              /\ \E next \in NextHost(q, after, new) : req' = [req EXCEPT ![c] = next]
           \/ /\ SpdkHas(r, h) /\ faults' = faults + 1
              /\ \E n \in {r, after} : PassesOver(c, n)
    BY DEF ChangeKeyOfHost
  <1>2. /\ q \in Requests /\ g \in Gateways /\ r \in GatewayStates /\ omap \in Contents
        /\ q.ask.op = "subkey"
    BY <1>1, LockedFields DEF RequestInv, Wellformed
  <1>3. /\ h \in Hosts /\ h \in HostKeys /\ q.ask.key \in MaybeKeys /\ q.psk \in Psks \cup {NoKey}
        /\ q.ctrl \in MaybeKeys
    BY <1>1, <1>2, RequestFields DEF HostKeys
  <1>4. e \in HostEntries
    BY <1>3 DEF HostEntries
  <1>5. new \in Contents
    BY <1>2, <1>3, <1>4, WrittenTypes
  <1>6. SpdkHas(r, h) => after \in GatewayStates
    <2>1. SpdkHas(r, h) => r.hosts[h].psk \in Psks \cup {NoKey}
      BY <1>2, <1>3, GatewayFields DEF SpdkHas
    <2> QED
      BY <1>2, <1>3, <2>1, AllowedFields DEF WithKey
  <1>7. faults \in Nat
    BY DEF AccessTypeOK
  <1> HIDE DEF after, new
  <1>8. CASE PassesOver(c, r) /\ UNCHANGED faults
    BY <1>1, <1>2, <1>7, <1>8, PassesOverEffect
  <1>9. CASE /\ ~Behind(g) /\ SpdkHas(r, h)
             /\ Succeeds(c, after, new)
             /\ \E next \in NextHost(q, after, new) : req' = [req EXCEPT ![c] = next]
    <2>1. PICK next \in NextHost(q, after, new) : req' = [req EXCEPT ![c] = next]
      BY <1>9
    <2>2. next \in Requests \cup {None} /\ (next # None => Wellformed(next) /\ next.gw = g)
      BY <1>2, <1>6, <1>9, <2>1, NextHostType
    <2> QED
      BY <1>2, <1>5, <1>6, <1>9, <2>1, <2>2, SucceedsEffect
  <1>10. CASE /\ SpdkHas(r, h) /\ faults' = faults + 1
              /\ \E n \in {r, after} : PassesOver(c, n)
    <2>1. PICK n \in {r, after} : PassesOver(c, n)
      BY <1>10
    <2>2. n \in GatewayStates /\ faults' \in Nat
      BY <1>2, <1>6, <1>7, <1>10
    <2> QED
      BY <1>1, <1>2, <2>1, <2>2, PassesOverEffect
  <1> QED
    BY <1>1, <1>8, <1>9, <1>10

LEMMA HasLockEffect ==
    ASSUME AccessTypeOK, RequestInv, NEW c \in Clients, HasLock(c)
    PROVE  req[c] # None /\ RequestEffect(c)
  <1>1. req[c] # None
    BY DEF HasLock, CreateSubsystem, DeleteSubsystem, AddHost, RemoveHost, ChangeHostKey,
       ChangeSubsystemKey, ChangeKeyOfHost, Locked
  <1>2. RequestEffect(c)
    BY CreateSubsystemEffect, DeleteSubsystemEffect, AddHostEffect, RemoveHostEffect,
       ChangeHostKeyEffect, ChangeSubsystemKeyEffect, ChangeKeyOfHostEffect DEF HasLock
  <1> QED
    BY SMTT(30), <1>1, <1>2

(***************************************************************************)
(* The versions: nobody is ahead of the OMAP, who has its version has its  *)
(* content, and an update has read something newer than what it replaces.  *)
(***************************************************************************)
VersionInv ==
    /\ version >= 2
    /\ \A g \in Gateways :
          /\ local[g].ver <= version
          /\ local[g].ver = version => local[g].st = omap
          /\ update[g] # None =>
                /\ local[g].ver < update[g].ver /\ update[g].ver <= version
                /\ update[g].ver = version => update[g].st = omap

SaneInv == AccessTypeOK /\ PlannedInv /\ RequestInv /\ VersionInv

\* a gateway that is not behind has the OMAP's content, and no update to do
LEMMA NotBehind ==
    ASSUME SaneInv, NEW g \in Gateways, ~Behind(g)
    PROVE  local[g].ver = version /\ local[g].st = omap /\ update[g] = None
  <1>1. local[g].ver \in Nat /\ version \in Nat
    BY DEF SaneInv, AccessTypeOK
  <1>2. update[g] # None => update[g].ver \in Nat
    BY UpdateFields DEF SaneInv, AccessTypeOK
  <1>3. local[g].ver = version
    BY <1>1 DEF SaneInv, VersionInv, Behind
  <1> QED
    BY <1>1, <1>2, <1>3 DEF SaneInv, VersionInv

\* What a content serves has the form of a gateway's state.
LEMMA ServingType ==
    ASSUME NEW st \in Contents
    PROVE  Serving(st) \in GatewayStates
  <1> DEFINE key == IF st.sub = None THEN NoKey ELSE st.sub.key
             sub == IF st.sub = None THEN None ELSE st.sub.inst
             entry(h) == [psk |-> st.hosts[h].psk, key |-> st.hosts[h].key,
                          ctrl |-> IF st.hosts[h].key = NoKey THEN NoKey ELSE key]
             hosts == [h \in HostKeys |-> IF st.hosts[h] = None THEN None ELSE entry(h)]
  <1>1. key \in MaybeKeys /\ sub \in Insts \cup {None}
    BY ContentFields DEF MaybeKeys
  <1>2. Serving(st) = [sub |-> sub, key |-> key, hosts |-> hosts]
    BY DEF Serving
  <1> HIDE DEF key, sub
  <1>3. \A h \in HostKeys : st.hosts[h] # None => entry(h) \in SpdkEntries
    <2> SUFFICES ASSUME NEW h \in HostKeys, st.hosts[h] # None
                 PROVE  entry(h) \in SpdkEntries
      OBVIOUS
    <2>1. st.hosts[h].psk \in Psks \cup {NoKey} /\ st.hosts[h].key \in MaybeKeys
      BY ContentFields
    <2> QED
      BY <1>1, <2>1 DEF SpdkEntries, MaybeKeys
  <1> HIDE DEF entry
  <1>4. hosts \in [HostKeys -> SpdkEntries \cup {None}]
    BY <1>3
  <1> QED
    BY <1>1, <1>2, <1>4 DEF GatewayStates, SpdkEntries

LEMMA SaneInit == AccessInit => SaneInv
  <1> SUFFICES ASSUME AccessInit PROVE SaneInv
    OBVIOUS
  <1>1. omap \in Contents /\ (omap.sub = None => omap = EmptyContent)
    BY AccessStarts DEF AccessInit
  <1>2. Serving(omap) \in GatewayStates
    BY <1>1, ServingType
  <1>3. AccessTypeOK
    BY <1>1, <1>2 DEF AccessInit, AccessTypeOK
  <1>4. PlannedInv /\ RequestInv
    BY DEF AccessInit, PlannedInv, RequestInv
  <1>5. VersionInv
    BY DEF AccessInit, VersionInv
  <1> QED
    BY <1>3, <1>4, <1>5 DEF SaneInv

LEMMA SaneRequestEffect ==
    ASSUME SaneInv, NEW c \in Clients, req[c] # None, RequestEffect(c)
    PROVE  SaneInv'
  <1> DEFINE g == req[c].gw
  <1>1. g \in Gateways /\ AccessTypeOK
    BY LockedFields DEF SaneInv
  <1>2. /\ (req \in [Clients -> Requests \cup {None}])' /\ RequestInv'
    <2>1. PICK n \in Requests \cup {None} :
              (n # None => Wellformed(n)) /\ req' = [req EXCEPT ![c] = n]
      BY DEF RequestEffect
    <2>2. (req \in [Clients -> Requests \cup {None}])'
      BY <2>1 DEF SaneInv, AccessTypeOK
    <2>3. RequestInv'
      BY <2>1, <1>1 DEF SaneInv, AccessTypeOK, RequestInv
    <2> QED
      BY <2>2, <2>3
  <1>3. (gw \in [Gateways -> GatewayStates] /\ troubled \in [Gateways -> BOOLEAN])'
    BY <1>1 DEF RequestEffect, AccessTypeOK
  <1>4. UNCHANGED <<update, requests, crashes>>
    BY DEF RequestEffect
  <1>5. PlannedInv'
    BY <1>4 DEF SaneInv, PlannedInv
  <1>6. CASE UNCHANGED <<omapVars, local>>
    <2>1. AccessTypeOK'
      BY <1>1, <1>2, <1>3, <1>4, <1>6 DEF AccessTypeOK, RequestEffect, omapVars
    <2>2. VersionInv'
      BY <1>4, <1>6 DEF SaneInv, VersionInv, omapVars
    <2> QED
      BY <1>2, <1>5, <2>1, <2>2 DEF SaneInv
  <1>7. CASE ~Behind(g) /\ \E new \in Contents : Write(g, new)
    <2>1. PICK new \in Contents : Write(g, new)
      BY <1>7
    <2>2. update[g] = None
      BY <1>1, <1>7, NotBehind
    <2>3. /\ omap' = new /\ version' = version + 1 /\ version \in Nat
          /\ local' = [local EXCEPT ![g] = [ver |-> version + 1, st |-> new]]
      BY <1>1, <2>1 DEF Write, AccessTypeOK
    <2>4. local' \in [Gateways -> [ver : Nat, st : Contents]]
      BY <1>1, <2>3 DEF AccessTypeOK
    <2>5. AccessTypeOK'
      BY <1>1, <1>2, <1>3, <1>4, <2>3, <2>4 DEF AccessTypeOK, RequestEffect
    <2>6. VersionInv'
      <3>1. version' >= 2
        BY <2>3 DEF SaneInv, VersionInv
      <3>2. ASSUME NEW k \in Gateways
            PROVE  /\ local'[k].ver <= version'
                   /\ local'[k].ver = version' => local'[k].st = omap'
                   /\ update'[k] # None =>
                         /\ local'[k].ver < update'[k].ver /\ update'[k].ver <= version'
                         /\ update'[k].ver = version' => update'[k].st = omap'
        <4>1. /\ local[k].ver \in Nat /\ local[k].ver <= version
              /\ update[k] # None => /\ update[k].ver \in Nat
                                     /\ local[k].ver < update[k].ver
                                     /\ update[k].ver <= version
          BY <1>1, UpdateFields DEF SaneInv, VersionInv, AccessTypeOK
        <4>2. CASE k = g
          BY <1>1, <1>4, <2>2, <2>3, <4>2 DEF AccessTypeOK
        <4>3. CASE k # g
          <5>1. local'[k] = local[k] /\ update'[k] = update[k]
            BY <1>1, <1>4, <2>3, <4>3 DEF AccessTypeOK
          <5> QED
            BY <2>3, <4>1, <5>1
        <4> QED
          BY <4>2, <4>3
      <3> QED
        BY <3>1, <3>2 DEF VersionInv
    <2> QED
      BY <1>2, <1>5, <2>5, <2>6 DEF SaneInv
  <1> QED
    BY <1>6, <1>7 DEF RequestEffect

\* The requests that do not have it only change what is remembered of them.
LEMMA AskType ==
    ASSUME SaneInv, NEW c \in Clients, Ask(c)
    PROVE  SaneInv'
  <1>1. PICK g \in Gateways, ask \in Asks :
            req' = [req EXCEPT ![c] =
               [gw |-> g, ask |-> ask, inst |-> requests', waiting |-> FALSE,
                ctrl |-> NoKey, psk |-> NoKey, host |-> None, todo |-> NoTodo]]
    BY DEF Ask
  <1> DEFINE n == [gw |-> g, ask |-> ask, inst |-> requests', waiting |-> FALSE,
                   ctrl |-> NoKey, psk |-> NoKey, host |-> None, todo |-> NoTodo]
  <1>2. requests \in Nat /\ requests' = requests + 1 /\ requests < MaxRequests
    BY DEF Ask, SaneInv, AccessTypeOK
  <1>3. requests' \in Insts
    BY <1>2, AccessBounds DEF Insts
  <1>4. n \in Requests /\ Wellformed(n)
    BY <1>1, <1>3, EmptyTypes, AccessAsks DEF Requests, MaybeKeys, Wellformed, NoTodo
  <1> HIDE DEF n
  <1>5. UNCHANGED <<omap, version, local, gw, update, faults, crashes, troubled>>
    BY DEF Ask, omapVars
  <1>6. req' = [req EXCEPT ![c] = n]
    BY <1>1 DEF n
  <1>7. AccessTypeOK'
    BY <1>2, <1>4, <1>5, <1>6 DEF SaneInv, AccessTypeOK
  <1>8. RequestInv'
    BY <1>4, <1>6 DEF SaneInv, AccessTypeOK, RequestInv
  <1> QED
    BY <1>5, <1>7, <1>8 DEF SaneInv, PlannedInv, VersionInv

\* what Check makes of a request it lets pass
LEMMA CheckedType ==
    ASSUME NEW q \in Requests, Wellformed(q), ~q.waiting, NEW ctrl \in MaybeKeys,
           NEW psk \in Psks \cup {NoKey}
    PROVE  LET n == [q EXCEPT !.waiting = TRUE, !.ctrl = ctrl, !.psk = psk]
           IN  n \in Requests /\ Wellformed(n)
  BY DEF Requests, Wellformed

LEMMA CheckType ==
    ASSUME SaneInv, NEW c \in Clients, Check(c)
    PROVE  SaneInv'
  <1> DEFINE q == req[c]
             r == gw[q.gw]
             psk == FoundPsk(r, q.ask)
  <1>1. /\ q # None /\ ~q.waiting
        /\ \/ req' = [req EXCEPT ![c] = None]
           \/ req' = [req EXCEPT ![c].waiting = TRUE, ![c].ctrl = r.key, ![c].psk = psk]
        /\ UNCHANGED <<omap, version, local, gw, update, requests, faults, crashes,
                       troubled>>
    BY DEF Check, Answer, omapVars, budgetVars
  <1>2. q \in Requests /\ r \in GatewayStates /\ Wellformed(q)
    BY <1>1, LockedFields DEF SaneInv, RequestInv
  <1>3. r.key \in MaybeKeys /\ psk \in Psks \cup {NoKey}
    <2>1. q.ask.op = "hostkey" => q.ask.host \in HostKeys
      BY <1>2, RequestFields DEF HostKeys
    <2> QED
      BY <1>2, <2>1, GatewayFields DEF FoundPsk
  <1> HIDE DEF psk
  <1>4. \E n \in Requests \cup {None} :
            (n # None => Wellformed(n)) /\ req' = [req EXCEPT ![c] = n]
    <2>1. CASE req' = [req EXCEPT ![c] = None]
      BY <2>1
    <2>2. CASE req' = [req EXCEPT ![c].waiting = TRUE, ![c].ctrl = r.key, ![c].psk = psk]
      <3> DEFINE n == [q EXCEPT !.waiting = TRUE, !.ctrl = r.key, !.psk = psk]
      <3>1. n \in Requests /\ Wellformed(n)
        BY <1>1, <1>2, <1>3, CheckedType
      <3>2. req' = [req EXCEPT ![c] = n]
        BY <2>2
      <3> QED
        BY <3>1, <3>2
    <2> QED
      BY <1>1, <2>1, <2>2
  <1>5. AccessTypeOK' /\ RequestInv'
    <2>1. PICK n \in Requests \cup {None} :
              (n # None => Wellformed(n)) /\ req' = [req EXCEPT ![c] = n]
      BY <1>4
    <2> QED
      BY <1>1, <2>1 DEF SaneInv, AccessTypeOK, RequestInv
  <1> QED
    BY <1>1, <1>5 DEF SaneInv, PlannedInv, VersionInv

LEMMA RetryType ==
    ASSUME SaneInv, NEW c \in Clients, Retry(c)
    PROVE  SaneInv'
  <1> DEFINE q == req[c]
             n == [q EXCEPT !.waiting = FALSE, !.ctrl = NoKey, !.psk = NoKey]
  <1>1. /\ q # None /\ q.host = None
        /\ req' = [req EXCEPT ![c] = n]
        /\ UNCHANGED <<omap, version, local, gw, update, requests, faults, crashes,
                       troubled>>
    BY DEF Retry, omapVars, budgetVars
  <1>2. q \in Requests /\ Wellformed(q)
    BY <1>1, LockedFields DEF SaneInv, RequestInv
  <1>3. n \in Requests /\ Wellformed(n)
    BY <1>1, <1>2 DEF Requests, Wellformed, MaybeKeys
  <1> HIDE DEF n
  <1>4. AccessTypeOK' /\ RequestInv'
    BY <1>1, <1>3 DEF SaneInv, AccessTypeOK, RequestInv
  <1> QED
    BY <1>1, <1>4 DEF SaneInv, PlannedInv, VersionInv

LEMMA StartUpdateType ==
    ASSUME SaneInv, NEW g \in Gateways, StartUpdate(g)
    PROVE  SaneInv'
  <1> DEFINE u == PlannedUpdate(version, local[g].st, omap)
  <1>1. /\ Behind(g) /\ update' = [update EXCEPT ![g] = u]
        /\ troubled' = [troubled EXCEPT ![g] = @ \/ LeavesOut(local[g].st, omap)]
        /\ UNCHANGED <<omap, version, local, gw, req, requests, faults, crashes>>
    BY DEF StartUpdate, PlannedUpdate, omapVars, budgetVars
  <1>2. /\ version \in Nat /\ local[g].st \in Contents /\ omap \in Contents
        /\ local[g].ver \in Nat
    BY DEF SaneInv, AccessTypeOK
  <1>3. u \in Updates /\ Planned(u)
    BY <1>2, PlannedUpdateType
  <1>4. u.ver = version /\ u.st = omap
    BY DEF PlannedUpdate
  <1> HIDE DEF u
  <1>5. troubled' \in [Gateways -> BOOLEAN]
    <2>1. LeavesOut(local[g].st, omap) \in BOOLEAN
      BY DEF LeavesOut
    <2> HIDE DEF LeavesOut
    <2> QED
      BY <1>1, <2>1 DEF SaneInv, AccessTypeOK
  <1>6. AccessTypeOK'
    BY <1>1, <1>3, <1>5 DEF SaneInv, AccessTypeOK
  <1>7. PlannedInv' /\ RequestInv'
    BY <1>1, <1>3 DEF SaneInv, AccessTypeOK, PlannedInv, RequestInv
  <1>8. VersionInv'
    BY <1>1, <1>2, <1>4 DEF SaneInv, AccessTypeOK, VersionInv, Behind
  <1> QED
    BY <1>6, <1>7, <1>8 DEF SaneInv

LEMMA UpdateCallType ==
    ASSUME SaneInv, NEW g \in Gateways, NEW r, NEW u, UpdateCall(g, r, u)
    PROVE  SaneInv'
  <1>1. /\ update[g] # None /\ update' = [update EXCEPT ![g] = u]
        /\ gw' = [gw EXCEPT ![g] = r]
        /\ UNCHANGED <<omap, version, local, req, requests, faults, crashes>>
    BY DEF UpdateCall, omapVars, budgetVars
  <1>2. r \in GatewayStates /\ u \in Updates
    BY DEF UpdateCall
  <1>3. Planned(u)
    BY <1>1 DEF SaneInv, PlannedInv, Planned, UpdateCall
  <1>4. u.ver = update[g].ver /\ u.st = update[g].st
    BY DEF UpdateCall
  <1>5. AccessTypeOK'
    <2>1. troubled' \in [Gateways -> BOOLEAN]
      BY DEF UpdateCall, SaneInv, AccessTypeOK
    <2> QED
      BY <1>1, <1>2, <2>1 DEF SaneInv, AccessTypeOK
  <1>6. PlannedInv' /\ RequestInv'
    BY <1>1, <1>3 DEF SaneInv, AccessTypeOK, PlannedInv, RequestInv
  <1>7. VersionInv'
    BY <1>1, <1>4 DEF SaneInv, AccessTypeOK, VersionInv
  <1> QED
    BY <1>5, <1>6, <1>7 DEF SaneInv

LEMMA UpdateEndType ==
    ASSUME SaneInv, NEW g \in Gateways, UpdateEnd(g)
    PROVE  SaneInv'
  <1>1. /\ update[g] # None
        /\ local' = [local EXCEPT ![g] = [ver |-> update[g].ver, st |-> update[g].st]]
        /\ update' = [update EXCEPT ![g] = None]
        /\ UNCHANGED <<omap, version, gw, req, requests, faults, crashes, troubled>>
    BY DEF UpdateEnd, Reached, omapVars, budgetVars
  <1>2. update[g].ver \in Nat /\ update[g].st \in Contents
    BY <1>1, UpdateFields DEF SaneInv, AccessTypeOK
  <1>3. AccessTypeOK'
    BY <1>1, <1>2 DEF SaneInv, AccessTypeOK
  <1>4. PlannedInv' /\ RequestInv'
    BY <1>1 DEF SaneInv, AccessTypeOK, PlannedInv, RequestInv
  <1>5. VersionInv'
    BY <1>1 DEF SaneInv, AccessTypeOK, VersionInv
  <1> QED
    BY <1>3, <1>4, <1>5 DEF SaneInv

LEMMA CrashType ==
    ASSUME SaneInv, NEW g \in Gateways, Crash(g)
    PROVE  SaneInv'
  <1>1. /\ gw' = [gw EXCEPT ![g] = NewGateway]
        /\ local' = [local EXCEPT ![g] = [ver |-> 1, st |-> EmptyContent]]
        /\ update' = [update EXCEPT ![g] = None]
        /\ req' = [c \in Clients |-> IF req[c] # None /\ req[c].gw = g THEN None ELSE req[c]]
        /\ troubled' = [troubled EXCEPT ![g] = FALSE]
        /\ crashes' = crashes + 1
        /\ UNCHANGED <<omap, version, requests, faults>>
    BY DEF Crash, omapVars
  <1>2. AccessTypeOK'
    BY <1>1, EmptyTypes DEF SaneInv, AccessTypeOK
  <1>3. PlannedInv' /\ RequestInv'
    BY <1>1 DEF SaneInv, AccessTypeOK, PlannedInv, RequestInv
  <1>4. VersionInv'
    BY <1>1 DEF SaneInv, AccessTypeOK, VersionInv
  <1> QED
    BY <1>2, <1>3, <1>4 DEF SaneInv

LEMMA SaneNext == SaneInv /\ [AccessNext]_accessVars => SaneInv'
  <1> SUFFICES ASSUME SaneInv, [AccessNext]_accessVars PROVE SaneInv'
    OBVIOUS
  <1>1. ASSUME NEW c \in Clients, HasLock(c) PROVE SaneInv'
    BY <1>1, HasLockEffect, SaneRequestEffect DEF SaneInv
  <1>2. ASSUME NEW g \in Gateways, UpdateStep(g) PROVE SaneInv'
    BY <1>2, StartUpdateType, UpdateEndType, UpdateStepCalls, UpdateCallType DEF SaneInv
  <1>3. CASE UNCHANGED accessVars
    BY <1>3 DEF accessVars, omapVars, budgetVars, SaneInv, AccessTypeOK, PlannedInv,
       RequestInv, VersionInv
  <1> QED
    BY <1>1, <1>2, <1>3, AskType, CheckType, RetryType, CrashType DEF AccessNext, HasLock

\* Every variable keeps its type (AccessTypeOK): what is written to the OMAP, to
\* a gateway's local state and to its SPDK has the form of an entry, and an
\* update() never reads the key or the PSK of an entry that is not there.
THEOREM AccessTypeCorrect == AccessSpec => []AccessTypeOK
  <1>1. SaneInv => AccessTypeOK
    BY DEF SaneInv
  <1> QED
    BY <1>1, SaneInit, SaneNext, PTL DEF AccessSpec

(***************************************************************************)
(* What a gateway r has next to a content st                               *)
(***************************************************************************)
\* SPDK has no hosts of a subsystem it does not know.
Bare(r) == r.sub = None => \A h \in HostKeys : r.hosts[h] = None

\* A content that is open to any host has no key for that.
StarHasNoKey(st) == st.hosts[Star] # None => st.hosts[Star].key = NoKey

SubOf(st) == IF st.sub = None THEN None ELSE st.sub.inst
KeyOf(st) == IF st.sub = None THEN NoKey ELSE st.sub.key

\* A host's controller key is the subsystem's, but for the hosts a request has
\* still to bring it to.
Current(r, h, pending) ==
    IF r.hosts[h].key = NoKey THEN r.hosts[h].ctrl = NoKey
    ELSE h \in pending \/ r.hosts[h].ctrl = r.key
FollowsAt(r, st, h, pending) ==
    /\ r.hosts[h] # None <=> st.hosts[h] # None
    /\ r.hosts[h] # None => /\ r.hosts[h].psk = st.hosts[h].psk
                            /\ r.hosts[h].key = st.hosts[h].key
                            /\ Current(r, h, pending)
Follows(r, st, pending) ==
    /\ r.sub = SubOf(st) /\ r.key = KeyOf(st)
    /\ \A h \in HostKeys : FollowsAt(r, st, h, pending)

\* the fields of what the requests write
LEMMA WrittenSub ==
    ASSUME NEW st \in Contents, NEW e
    PROVE  /\ [st EXCEPT !.sub = e].sub = e
           /\ [st EXCEPT !.sub = e].hosts = st.hosts
  BY DEF Contents

LEMMA WrittenHost ==
    ASSUME NEW st \in Contents, NEW h \in HostKeys, NEW e
    PROVE  /\ [st EXCEPT !.hosts[h] = e].sub = st.sub
           /\ \A k \in HostKeys :
                 [st EXCEPT !.hosts[h] = e].hosts[k] = IF k = h THEN e ELSE st.hosts[k]
  BY DEF Contents

LEMMA WrittenStar ==
    ASSUME NEW st \in Contents, StarHasNoKey(st), NEW h \in HostKeys, NEW e,
           h = Star /\ e # None => e.key = NoKey
    PROVE  StarHasNoKey([st EXCEPT !.hosts[h] = e])
  <1>1. Star \in HostKeys
    BY DEF HostKeys
  <1> QED
    BY <1>1, WrittenHost DEF StarHasNoKey

\* a table that another one agrees with
LEMMA FollowsFields ==
    ASSUME NEW r \in GatewayStates, NEW st \in Contents, NEW pending, Bare(r),
           Follows(r, st, pending)
    PROVE  /\ r.sub = None <=> st.sub = None
           /\ st.sub = None => \A h \in HostKeys : st.hosts[h] = None
           /\ Known(r) = {h \in Hosts : st.hosts[h] # None}
  <1>1. st.sub # None => st.sub.inst \in Insts
    BY ContentFields
  <1>2. r.sub = None <=> st.sub = None
    BY <1>1, AccessNone DEF Follows, SubOf
  <1>3. \A h \in HostKeys : r.hosts[h] # None <=> st.hosts[h] # None
    BY DEF Follows, FollowsAt
  <1> QED
    BY <1>2, <1>3 DEF Bare, Known, HostKeys

\* With fewer hosts to come a host's key has to be right already.
LEMMA FollowsPending ==
    ASSUME NEW r, NEW st, NEW old, NEW new, Follows(r, st, old),
           \A h \in Hosts : h \in old /\ r.hosts[h] # None => h \in new \/ r.hosts[h].ctrl = r.key,
           old \subseteq Hosts
    PROVE  Follows(r, st, new)
  BY DEF Follows, FollowsAt, Current

\* create_subsystem
LEMMA CreatedFollows ==
    ASSUME NEW r \in GatewayStates, NEW st \in Contents, NEW inst \in Insts,
           NEW key \in MaybeKeys, r.sub = None, NEW pending
    PROVE  LET n == Created(r, inst, key)
               new == [st EXCEPT !.sub = [inst |-> inst, key |-> key]]
           IN  /\ Bare(n)
               /\ Bare(r) /\ Follows(r, st, pending) => Follows(n, new, pending)
  <1> DEFINE n == Created(r, inst, key)
             e == [inst |-> inst, key |-> key]
             new == [st EXCEPT !.sub = e]
             k == IF key = NoKey THEN r.key ELSE key
  <1>1. n.sub = inst /\ n.key = k /\ n.hosts = r.hosts
    BY DEF Created, GatewayStates
  <1>2. new.sub = e /\ new.hosts = st.hosts
    BY WrittenSub
  <1>3. inst # None
    BY AccessNone
  <1>4. e # None /\ e.inst = inst /\ e.key = key
    <2>1. e \in [inst : Insts, key : MaybeKeys]
      OBVIOUS
    <2> QED
      BY <2>1, AccessNone
  <1> HIDE DEF n, e, new
  <1>5. Bare(n)
    BY <1>1, <1>3 DEF Bare
  <1>6. ASSUME Bare(r), Follows(r, st, pending)
        PROVE  Follows(n, new, pending)
    <2>1. st.sub = None
      BY <1>6, FollowsFields
    <2>2. \A h \in HostKeys : st.hosts[h] = None /\ r.hosts[h] = None
      BY <1>6 DEF Bare, Follows, FollowsAt
    <2>3. r.key = NoKey
      BY <1>6, <2>1 DEF Follows, KeyOf
    <2>4. n.sub = SubOf(new) /\ n.key = KeyOf(new)
      BY <1>1, <1>2, <1>4, <2>3 DEF SubOf, KeyOf
    <2>5. \A h \in HostKeys : FollowsAt(n, new, h, pending)
      BY <1>1, <1>2, <2>2 DEF FollowsAt
    <2> QED
      BY <2>4, <2>5 DEF Follows
  <1> QED
    BY <1>5, <1>6 DEF n, e, new

\* delete_subsystem
LEMMA DeletedFollows ==
    ASSUME NEW pending
    PROVE  /\ Bare(NewGateway) /\ StarHasNoKey(EmptyContent)
           /\ Follows(NewGateway, EmptyContent, pending)
  <1>1. /\ NewGateway.sub = None /\ NewGateway.key = NoKey
        /\ \A h \in HostKeys : NewGateway.hosts[h] = None
    BY DEF NewGateway, NoHosts
  <1>2. EmptyContent.sub = None /\ \A h \in HostKeys : EmptyContent.hosts[h] = None
    BY DEF EmptyContent, NoHosts
  <1>3. Star \in HostKeys
    BY DEF HostKeys
  <1> QED
    BY <1>1, <1>2, <1>3 DEF Bare, StarHasNoKey, Follows, FollowsAt, SubOf, KeyOf

\* Without the subsystem there is nothing to delete.
LEMMA NothingDeleted ==
    ASSUME NEW r \in GatewayStates, NEW st \in Contents, r.sub = None, Bare(r), NEW pending,
           Follows(r, st, pending)
    PROVE  /\ Follows(r, EmptyContent, pending)
           /\ \A h \in HostKeys : Follows(r, [st EXCEPT !.hosts[h] = None], pending)
  <1>1. \A h \in HostKeys : r.hosts[h] = None
    BY DEF Bare
  <1>2. EmptyContent.sub = None /\ \A h \in HostKeys : EmptyContent.hosts[h] = None
    BY DEF EmptyContent, NoHosts
  <1>3. st.sub = None /\ \A h \in HostKeys : st.hosts[h] = None
    BY FollowsFields
  <1>4. r.key = NoKey
    BY <1>3 DEF Follows, KeyOf
  <1>5. Follows(r, EmptyContent, pending)
    BY <1>1, <1>2, <1>4 DEF Follows, FollowsAt, SubOf, KeyOf
  <1>6. ASSUME NEW h \in HostKeys
        PROVE  Follows(r, [st EXCEPT !.hosts[h] = None], pending)
    <2> DEFINE new == [st EXCEPT !.hosts[h] = None]
    <2>1. new.sub = None /\ \A k \in HostKeys : new.hosts[k] = None
      BY <1>3, WrittenHost
    <2> HIDE DEF new
    <2>2. Follows(r, new, pending)
      BY <1>1, <1>4, <2>1 DEF Follows, FollowsAt, SubOf, KeyOf
    <2> QED
      BY <2>2 DEF new
  <1> QED
    BY <1>5, <1>6

\* A host written on both sides.
LEMMA AllowedBare ==
    ASSUME NEW r \in GatewayStates, NEW h \in HostKeys, NEW psk, NEW key, NEW ctrl,
           r.sub # None
    PROVE  Bare(Allowed(r, h, psk, key, ctrl))
  BY AllowedOthers DEF Bare

LEMMA AllowedFollows ==
    ASSUME NEW r \in GatewayStates, NEW st \in Contents, NEW h \in HostKeys,
           NEW psk \in Psks \cup {NoKey}, NEW key \in MaybeKeys, NEW pending,
           Follows(r, st, pending)
    PROVE  Follows(Allowed(r, h, psk, key, r.key),
                   [st EXCEPT !.hosts[h] = [psk |-> psk, key |-> key]], pending \ {h})
  <1> DEFINE n == Allowed(r, h, psk, key, r.key)
             e == [psk |-> psk, key |-> key]
             new == [st EXCEPT !.hosts[h] = e]
  <1>0. r.key \in MaybeKeys
    BY GatewayFields
  <1>1. /\ n.sub = r.sub /\ n.key = r.key
        /\ \A k \in HostKeys : k # h => n.hosts[k] = r.hosts[k]
        /\ n.hosts[h] # None /\ n.hosts[h].psk = psk /\ n.hosts[h].key = key
        /\ n.hosts[h].ctrl = IF key = NoKey THEN NoKey ELSE r.key
    BY <1>0, AllowedFields
  <1>2. new.sub = st.sub /\ \A k \in HostKeys : new.hosts[k] = IF k = h THEN e ELSE st.hosts[k]
    BY WrittenHost
  <1>3. e # None /\ e.psk = psk /\ e.key = key
    <2>1. e \in HostEntries
      BY DEF HostEntries
    <2> QED
      BY <2>1, AccessNone
  <1> HIDE DEF n, e, new
  <1>4. n.sub = SubOf(new) /\ n.key = KeyOf(new)
    BY <1>1, <1>2 DEF Follows, SubOf, KeyOf
  <1>5. FollowsAt(n, new, h, pending \ {h})
    BY <1>1, <1>2, <1>3 DEF FollowsAt, Current
  <1>6. \A k \in HostKeys : k # h => FollowsAt(n, new, k, pending \ {h})
    BY <1>1, <1>2 DEF Follows, FollowsAt, Current
  <1>7. Follows(n, new, pending \ {h})
    BY <1>4, <1>5, <1>6 DEF Follows
  <1> QED
    BY <1>7 DEF n, e, new

LEMMA DisallowedFollows ==
    ASSUME NEW r \in GatewayStates, NEW st \in Contents, NEW h \in HostKeys, NEW pending
    PROVE  LET n == Disallowed(r, h)
               new == [st EXCEPT !.hosts[h] = None]
           IN  /\ Bare(r) => Bare(n)
               /\ Follows(r, st, pending) => Follows(n, new, pending)
  <1> DEFINE n == Disallowed(r, h)
             new == [st EXCEPT !.hosts[h] = None]
  <1>1. /\ n.sub = r.sub /\ n.key = r.key
        /\ \A k \in HostKeys : n.hosts[k] = IF k = h THEN None ELSE r.hosts[k]
    BY DisallowedFields
  <1>2. /\ new.sub = st.sub
        /\ \A k \in HostKeys : new.hosts[k] = IF k = h THEN None ELSE st.hosts[k]
    BY WrittenHost
  <1> HIDE DEF n, new
  <1>3. Bare(r) => Bare(n)
    BY <1>1 DEF Bare
  <1>4. Follows(r, st, pending) => Follows(n, new, pending)
    BY <1>1, <1>2 DEF Follows, FollowsAt, Current, SubOf, KeyOf
  <1> QED
    BY <1>3, <1>4 DEF n, new

\* change_subsystem_key, before the hosts: they have all to be done
LEMMA KeyFollows ==
    ASSUME NEW r \in GatewayStates, NEW st \in Contents, NEW key \in MaybeKeys,
           NEW pending, NEW new, st.sub # None
    PROVE  LET n == [r EXCEPT !.key = key]
               k == [st EXCEPT !.sub = [inst |-> st.sub.inst, key |-> key]]
           IN  /\ Bare(r) => Bare(n)
               /\ StarHasNoKey(st) => StarHasNoKey(k)
               /\ Follows(r, st, pending) /\ StarHasNoKey(st) /\ Keyed(r) \subseteq new
                  => Follows(n, k, new)
  <1> DEFINE n == [r EXCEPT !.key = key]
             e == [inst |-> st.sub.inst, key |-> key]
             k == [st EXCEPT !.sub = e]
  <1>1. n.sub = r.sub /\ n.key = key /\ n.hosts = r.hosts
    BY KeyFields
  <1>2. k.sub = e /\ k.hosts = st.hosts
    BY WrittenSub
  <1>3. e.inst = st.sub.inst /\ e.key = key
    OBVIOUS
  <1>4. e # None
    <2>1. st.sub.inst \in Insts
      BY ContentFields
    <2>2. e \in [inst : Insts, key : MaybeKeys]
      BY <2>1
    <2> QED
      BY <2>2, AccessNone
  <1> HIDE DEF n, e, k
  <1>5. (Bare(r) => Bare(n)) /\ (StarHasNoKey(st) => StarHasNoKey(k))
    BY <1>1, <1>2 DEF Bare, StarHasNoKey
  <1>6. ASSUME Follows(r, st, pending), StarHasNoKey(st), Keyed(r) \subseteq new
        PROVE  Follows(n, k, new)
    <2>1. \A h \in HostKeys : FollowsAt(r, st, h, pending)
      BY <1>6 DEF Follows
    <2>2. n.sub = SubOf(k) /\ n.key = KeyOf(k)
      BY <1>1, <1>2, <1>3, <1>4, <1>6 DEF Follows, SubOf, KeyOf
    <2>3. ASSUME NEW h \in HostKeys
          PROVE  FollowsAt(n, k, h, new)
      <3>1. n.hosts[h] = r.hosts[h] /\ k.hosts[h] = st.hosts[h] /\ FollowsAt(r, st, h, pending)
        BY <1>1, <1>2, <2>1
      <3>2. r.hosts[h] # None /\ r.hosts[h].key # NoKey => h \in new
        <4>1. CASE h \in Hosts
          BY <1>6, <4>1 DEF Keyed, Known
        <4>2. CASE h = Star
          BY <1>6, <2>1, <3>1, <4>2 DEF StarHasNoKey, FollowsAt
        <4> QED
          BY <4>1, <4>2 DEF HostKeys
      <3> QED
        BY <3>1, <3>2 DEF FollowsAt, Current
    <2> QED
      BY <2>2, <2>3 DEF Follows
  <1> QED
    BY <1>5, <1>6 DEF n, e, k

(***************************************************************************)
(* What an update u has still to do on a gateway r                         *)
(***************************************************************************)
\* the subsystem and its key
Leads(r, u) ==
    /\ u.add = {} /\ u.drop = {} => r.sub = SubOf(u.st)
    /\ u.add = {} /\ u.drop # {} => u.st.sub = None
    /\ u.drop # {} \/ u.delhost # {} => r.sub # None
    /\ u.add # {} /\ u.drop = {} => r.sub = None /\ r.key = NoKey
    /\ u.subkey # {} => u.add = {} /\ u.drop = {}
    /\ u.add = {} /\ u.drop = {} /\ u.subkey = {} => r.key = KeyOf(u.st)

\* a host: one to add is not there any more when its turn comes, one not to be
\* added is right, but for its keys
LeadsAt(r, u, h, pending) ==
    IF h \in u.addhost
    THEN /\ u.drop # {} \/ h \in u.delhost \/ r.hosts[h] = None
         /\ h \notin u.hostkey
    ELSE /\ u.st.hosts[h] # None <=> u.drop = {} /\ h \notin u.delhost /\ r.hosts[h] # None
         /\ u.st.hosts[h] # None =>
               /\ r.hosts[h].psk = u.st.hosts[h].psk
               /\ h \in u.hostkey \/ r.hosts[h].key = u.st.hosts[h].key
               /\ IF r.hosts[h].key = NoKey THEN r.hosts[h].ctrl = NoKey
                  ELSE u.subkey # {} \/ h \in pending \/ r.hosts[h].ctrl = r.key
LeadsTo(r, u, pending) == Leads(r, u) /\ \A h \in HostKeys : LeadsAt(r, u, h, pending)

(***************************************************************************)
(* The invariant.  A process that met no fault, no outdated check and no   *)
(* refusal has what its local state says, or is on its way to what its     *)
(* update has read.  Hosts wait for the subsystem's new key as long as     *)
(* their request is under way.                                             *)
(***************************************************************************)
Waits(q, g, h) == q # None /\ q.gw = g /\ (q.host = h \/ q.todo[h] # NoKey)
Pending(g) == {h \in Hosts : \E c \in Clients : Waits(req[c], g, h)}

StarAt(g) ==
    /\ StarHasNoKey(local[g].st)
    /\ update[g] # None => StarHasNoKey(update[g].st)
FollowedAt(g) ==
    ~troubled[g] => IF update[g] = None THEN Follows(gw[g], local[g].st, Pending(g))
                    ELSE LeadsTo(gw[g], update[g], Pending(g))
GatewayInv(g) == Bare(gw[g]) /\ StarAt(g) /\ FollowedAt(g)
KeptInv == StarHasNoKey(omap) /\ \A g \in Gateways : GatewayInv(g)

\* What a step of one process leaves of the others.
LEMMA OthersKept ==
    ASSUME NEW k \in Gateways, GatewayInv(k), gw'[k] = gw[k], local'[k] = local[k],
           update'[k] = update[k], troubled'[k] = troubled[k], Pending(k)' = Pending(k)
    PROVE  GatewayInv(k)'
  BY DEF GatewayInv, StarAt, FollowedAt

\* the hosts that wait after a step of a request
LEMMA PendingFields ==
    ASSUME AccessTypeOK, NEW c \in Clients, NEW n, req' = [req EXCEPT ![c] = n], NEW g
    PROVE  /\ (\A h \in Hosts : Waits(n, g, h) <=> Waits(req[c], g, h)) => Pending(g)' = Pending(g)
           /\ \A h \in Pending(g) : h \in Pending(g)' \/ Waits(req[c], g, h)
           /\ \A h \in Hosts : Waits(n, g, h) => h \in Pending(g)'
  <1>1. req'[c] = n /\ \A d \in Clients : d # c => req'[d] = req[d]
    BY DEF AccessTypeOK
  <1>2. Pending(g)' = {h \in Hosts : \E d \in Clients : Waits(req'[d], g, h)}
    BY DEF Pending, Waits
  <1>3. Pending(g) = {h \in Hosts : \E d \in Clients : Waits(req[d], g, h)}
    BY DEF Pending
  <1> QED
    BY <1>1, <1>2, <1>3

\* What a request with the lock leaves at its gateway.
Kept(g) ==
    /\ Bare(gw'[g])
    /\ ~troubled'[g] => update[g] = None /\ Follows(gw'[g], local'[g].st, Pending(g)')
    /\ StarHasNoKey(omap') /\ StarHasNoKey(local'[g].st)

\* what a gateway that is not behind starts from
LEMMA LockedKept ==
    ASSUME SaneInv, KeptInv, NEW g \in Gateways, ~Behind(g)
    PROVE  /\ Bare(gw[g]) /\ update[g] = None /\ local[g].st = omap
           /\ StarHasNoKey(omap)
           /\ ~troubled[g] => Follows(gw[g], omap, Pending(g))
  BY NotBehind DEF KeptInv, GatewayInv, FollowedAt

LEMMA SucceedsKept ==
    ASSUME SaneInv, KeptInv, NEW c \in Clients, req[c] # None, NEW g, g = req[c].gw,
           ~Behind(g), NEW r \in GatewayStates, NEW new \in Contents, Succeeds(c, r, new), Bare(r),
           StarHasNoKey(new),
           ~Outdated(req[c]) /\ Follows(gw[g], omap, Pending(g)) =>
               Follows(r, new, Pending(g)')
    PROVE  Kept(g)
  <1>1. /\ g \in Gateways /\ gw \in [Gateways -> GatewayStates]
        /\ local \in [Gateways -> [ver : Nat, st : Contents]]
        /\ troubled \in [Gateways -> BOOLEAN]
    BY LockedFields DEF SaneInv, AccessTypeOK
  <1>2. /\ gw' = [gw EXCEPT ![g] = r]
        /\ omap' = new /\ local' = [local EXCEPT ![g] = [ver |-> version + 1, st |-> new]]
        /\ troubled' = [troubled EXCEPT ![g] = @ \/ Outdated(req[c])]
    BY DEF Succeeds, Write
  <1>3. Outdated(req[c]) \in BOOLEAN
    BY OutdatedType
  <1> HIDE DEF Outdated
  <1>4. gw'[g] = r /\ local'[g].st = new /\ (troubled'[g] = (troubled[g] \/ Outdated(req[c])))
    BY <1>1, <1>2, <1>3
  <1>5. /\ update[g] = None
        /\ ~troubled[g] => Follows(gw[g], omap, Pending(g))
    BY <1>1, LockedKept
  <1> QED
    BY <1>1, <1>2, <1>4, <1>5 DEF Kept

LEMMA BreaksKept ==
    ASSUME SaneInv, KeptInv, NEW c \in Clients, req[c] # None, NEW g, g = req[c].gw,
           NEW r \in GatewayStates, Breaks(c, r), Bare(r)
    PROVE  Kept(g)
  <1>1. /\ g \in Gateways /\ gw \in [Gateways -> GatewayStates]
        /\ troubled \in [Gateways -> BOOLEAN]
    BY LockedFields DEF SaneInv, AccessTypeOK
  <1>2. /\ gw' = [gw EXCEPT ![g] = r] /\ troubled' = [troubled EXCEPT ![g] = TRUE]
        /\ omap' = omap /\ local' = local
    BY DEF Breaks, omapVars
  <1>3. gw'[g] = r /\ troubled'[g]
    BY <1>1, <1>2
  <1>4. StarHasNoKey(omap) /\ StarHasNoKey(local[g].st)
    BY <1>1 DEF KeptInv, GatewayInv, StarAt
  <1> QED
    BY <1>2, <1>3, <1>4 DEF Kept

\* An answer to a request that no host waits for changes nothing for the hosts.
LEMMA AnswerPending ==
    ASSUME SaneInv, NEW c \in Clients, req[c] # None, NEW g, req[c].host = None, Answer(c)
    PROVE  Pending(g)' = Pending(g)
  <1>1. \A h \in Hosts : req[c].todo[h] = NoKey
    BY DEF SaneInv, RequestInv, Wellformed
  <1>2. \A h \in Hosts : ~Waits(req[c], g, h) /\ ~Waits(None, g, h)
    BY <1>1, AccessNone DEF Waits
  <1>3. req' = [req EXCEPT ![c] = None] /\ AccessTypeOK
    BY DEF Answer, SaneInv
  <1> QED
    BY <1>2, <1>3, PendingFields

LEMMA FailsKept ==
    ASSUME SaneInv, KeptInv, NEW c \in Clients, req[c] # None, NEW g, g = req[c].gw, req[c].host = None,
           ~Behind(g), Fails(c)
    PROVE  Kept(g)
  <1>1. g \in Gateways
    BY LockedFields DEF SaneInv
  <1>2. /\ gw' = gw /\ local' = local /\ omap' = omap /\ troubled' = troubled
        /\ Answer(c)
    BY DEF Fails, omapVars
  <1>3. Pending(g)' = Pending(g)
    BY <1>2, AnswerPending
  <1> QED
    BY <1>1, <1>2, <1>3, LockedKept DEF Kept

LEMMA RemovalKept ==
    ASSUME SaneInv, KeptInv, NEW c \in Clients, req[c] # None, NEW g, g = req[c].gw,
           req[c].host = None, ~Behind(g), NEW can \in BOOLEAN, NEW r \in GatewayStates,
           NEW new \in Contents, Removal(c, can, r, new), Bare(r), StarHasNoKey(new),
           \A pending : Follows(gw[g], omap, pending) =>
              Follows(r, new, pending) /\ (~can => Follows(gw[g], new, pending))
    PROVE  Kept(g)
  <1>1. g \in Gateways /\ gw[g] \in GatewayStates
    BY LockedFields DEF SaneInv
  <1>2. Bare(gw[g])
    BY <1>1, LockedKept
  <1>3. CASE Succeeds(c, r, new) /\ Answer(c)
    <2>1. Pending(g)' = Pending(g)
      BY <1>3, AnswerPending
    <2> QED
      BY <1>3, <2>1, SucceedsKept
  <1>4. CASE Breaks(c, r)
    BY <1>4, BreaksKept
  <1>5. CASE ~can /\ Succeeds(c, gw[g], new) /\ Answer(c)
    <2>1. Pending(g)' = Pending(g)
      BY <1>5, AnswerPending
    <2> QED
      BY <1>1, <1>2, <1>5, <2>1, SucceedsKept
  <1>6. CASE /\ Write(g, new)
             /\ troubled' = [troubled EXCEPT ![g] = TRUE]
             /\ UNCHANGED <<gw, update, requests, crashes>>
    <2>1. omap' = new /\ local' = [local EXCEPT ![g] = [ver |-> version + 1, st |-> new]]
      BY <1>6 DEF Write
    <2>2. troubled'[g] /\ local'[g].st = new /\ gw'[g] = gw[g]
      BY <1>1, <1>6, <2>1 DEF SaneInv, AccessTypeOK
    <2> QED
      BY <1>2, <2>1, <2>2 DEF Kept
  <1>7. \/ Succeeds(c, r, new) /\ Answer(c)
        \/ Breaks(c, r)
        \/ ~can /\ Succeeds(c, gw[g], new) /\ Answer(c)
        \/ /\ Write(g, new)
           /\ troubled' = [troubled EXCEPT ![g] = TRUE]
           /\ UNCHANGED <<gw, update, requests, crashes>>
    BY DEF Removal, Effect
  <1> QED
    BY <1>3, <1>4, <1>5, <1>6, <1>7

\* what the requests with the lock, but the change of a host's key after that
\* of its subsystem, start from
LEMMA LockedStart ==
    ASSUME SaneInv, KeptInv, NEW c \in Clients, NEW op, Locked(c, op)
    PROVE  /\ req[c] # None /\ req[c].host = None /\ ~Behind(req[c].gw) /\ req[c].ask.op = op
           /\ req[c] \in Requests /\ req[c].gw \in Gateways
           /\ gw[req[c].gw] \in GatewayStates /\ omap \in Contents
           /\ local[req[c].gw].st = omap /\ Bare(gw[req[c].gw]) /\ StarHasNoKey(omap)
  <1>1. req[c] # None /\ req[c].host = None /\ ~Behind(req[c].gw) /\ req[c].ask.op = op
    BY DEF Locked
  <1>2. /\ req[c] \in Requests /\ req[c].gw \in Gateways
        /\ gw[req[c].gw] \in GatewayStates /\ omap \in Contents
    BY <1>1, LockedFields DEF SaneInv
  <1> QED
    BY <1>1, <1>2, LockedKept

LEMMA CreateSubsystemKept ==
    ASSUME SaneInv, KeptInv, NEW c \in Clients, CreateSubsystem(c), NEW g, g = req[c].gw
    PROVE  Kept(g)
  <1> DEFINE q == req[c]
             r == gw[g]
             inst == IF q.ask.serial = None THEN q.inst ELSE q.ask.serial
             e == [inst |-> inst, key |-> q.ask.key]
             after == Created(r, inst, q.ask.key)
             new == [omap EXCEPT !.sub = e]
  <1>1. /\ Locked(c, "create")
        /\ Fails(c) \/ (r.sub = None /\ Effect(c, after, new))
    BY DEF CreateSubsystem
  <1>2. /\ q # None /\ q.host = None /\ ~Behind(g) /\ q.ask.op = "create" /\ q \in Requests
        /\ r \in GatewayStates /\ omap \in Contents /\ Bare(r) /\ StarHasNoKey(omap)
    BY <1>1, LockedStart
  <1>3. inst \in Insts /\ q.ask.key \in MaybeKeys
    BY <1>2, RequestFields, AccessBounds DEF Insts
  <1>4. e \in [inst : Insts, key : MaybeKeys]
    BY <1>3
  <1>5. after \in GatewayStates /\ new \in Contents
    BY <1>2, <1>3, <1>4, CreatedType, WrittenTypes
  <1>6. ASSUME r.sub = None, NEW pending
        PROVE  /\ Bare(after)
               /\ Follows(r, omap, pending) => Follows(after, new, pending)
    BY <1>2, <1>3, <1>6, CreatedFollows
  <1>7. StarHasNoKey(new)
    BY <1>2, WrittenSub DEF StarHasNoKey
  <1> HIDE DEF after, new, e, inst
  <1>8. CASE r.sub = None /\ Succeeds(c, after, new) /\ Answer(c)
    <2>1. Pending(g)' = Pending(g)
      BY <1>2, <1>8, AnswerPending
    <2>2. Follows(r, omap, Pending(g)) => Follows(after, new, Pending(g))
      BY <1>6, <1>8
    <2> QED
      BY <1>2, <1>5, <1>6, <1>7, <1>8, <2>1, <2>2, SucceedsKept
  <1>9. CASE r.sub = None /\ Breaks(c, after)
    BY <1>2, <1>5, <1>6, <1>9, BreaksKept
  <1> QED
    BY <1>1, <1>2, <1>8, <1>9, FailsKept DEF Effect

LEMMA DeleteSubsystemKept ==
    ASSUME SaneInv, KeptInv, NEW c \in Clients, DeleteSubsystem(c), NEW g, g = req[c].gw
    PROVE  Kept(g)
  <1> DEFINE r == gw[g]
  <1>1. Locked(c, "delete") /\ Removal(c, r.sub # None, NewGateway, EmptyContent)
    BY DEF DeleteSubsystem
  <1>2. /\ req[c] # None /\ req[c].host = None /\ ~Behind(g)
        /\ r \in GatewayStates /\ omap \in Contents /\ Bare(r)
    BY <1>1, LockedStart
  <1>3. Bare(NewGateway) /\ StarHasNoKey(EmptyContent)
    BY DeletedFollows
  <1>4. ASSUME NEW pending, Follows(r, omap, pending)
        PROVE  /\ Follows(NewGateway, EmptyContent, pending)
               /\ ~(r.sub # None) => Follows(r, EmptyContent, pending)
    BY <1>2, <1>4, DeletedFollows, NothingDeleted
  <1> QED
    BY <1>1, <1>2, <1>3, <1>4, EmptyTypes, RemovalKept

LEMMA AddHostKept ==
    ASSUME SaneInv, KeptInv, NEW c \in Clients, AddHost(c), NEW g, g = req[c].gw
    PROVE  Kept(g)
  <1> DEFINE q == req[c]
             r == gw[g]
             h == q.ask.host
             psk == q.ask.psk
             key == q.ask.key
             e == [psk |-> psk, key |-> key]
             after == Allowed(r, h, psk, key, q.ctrl)
             new == [omap EXCEPT !.hosts[h] = e]
  <1>1. Locked(c, "add") /\ (Fails(c) \/ (r.sub # None /\ Effect(c, after, new)))
    BY DEF AddHost, SpdkRefuses
  <1>2. /\ q # None /\ q.host = None /\ ~Behind(g) /\ q.ask.op = "add" /\ q \in Requests
        /\ r \in GatewayStates /\ omap \in Contents /\ Bare(r) /\ local[g].st = omap
        /\ StarHasNoKey(omap)
    BY <1>1, LockedStart
  <1>3. /\ h \in HostKeys /\ key \in MaybeKeys /\ psk \in Psks \cup {NoKey}
        /\ q.ctrl \in MaybeKeys /\ (h = Star => key = NoKey)
    BY <1>2, RequestFields
  <1>4. e \in HostEntries
    BY <1>3 DEF HostEntries
  <1>5. after \in GatewayStates /\ new \in Contents
    <2>1. after \in GatewayStates
      <3> HIDE DEF after
      <3> QED
        BY <1>2, <1>3, AllowedType DEF after
    <2>2. new \in Contents
      BY <1>2, <1>3, <1>4, WrittenTypes
    <2> QED
      BY <2>1, <2>2
  <1>6. (r.sub # None => Bare(after)) /\ StarHasNoKey(new)
    BY <1>2, <1>3, AllowedBare, WrittenStar
  <1>7. ASSUME ~Outdated(q), Follows(r, omap, Pending(g))
        PROVE  Follows(after, new, Pending(g))
    <2>1. q.ctrl = r.key
      BY <1>2, <1>7 DEF Outdated
    <2>2. Follows(after, new, Pending(g) \ {h})
      BY <1>2, <1>3, <1>7, <2>1, AllowedFollows
    <2>3. Pending(g) \ {h} \subseteq Hosts
      BY DEF Pending
    <2> HIDE DEF after, new
    <2> QED
      BY <2>2, <2>3, FollowsPending
  <1> HIDE DEF after, new
  <1>8. CASE r.sub # None /\ Succeeds(c, after, new) /\ Answer(c)
    <2>1. Pending(g)' = Pending(g)
      BY <1>2, <1>8, AnswerPending
    <2> QED
      BY <1>2, <1>5, <1>6, <1>7, <1>8, <2>1, SucceedsKept
  <1>9. CASE r.sub # None /\ Breaks(c, after)
    BY <1>2, <1>5, <1>6, <1>9, BreaksKept
  <1> QED
    BY <1>1, <1>2, <1>8, <1>9, FailsKept DEF Effect

LEMMA RemoveHostKept ==
    ASSUME SaneInv, KeptInv, NEW c \in Clients, RemoveHost(c), NEW g, g = req[c].gw
    PROVE  Kept(g)
  <1> DEFINE q == req[c]
             r == gw[g]
             h == q.ask.host
             after == Disallowed(r, h)
             new == [omap EXCEPT !.hosts[h] = None]
  <1>1. Locked(c, "remove") /\ (Fails(c) \/ Removal(c, r.sub # None, after, new))
    BY DEF RemoveHost
  <1>2. /\ q # None /\ q.host = None /\ ~Behind(g) /\ q.ask.op = "remove" /\ q \in Requests
        /\ r \in GatewayStates /\ omap \in Contents /\ Bare(r) /\ StarHasNoKey(omap)
    BY <1>1, LockedStart
  <1>3. h \in HostKeys
    BY <1>2, RequestFields
  <1>4. after \in GatewayStates /\ new \in Contents
    BY <1>2, <1>3, DisallowedFields, WrittenTypes
  <1>5. Bare(after) /\ StarHasNoKey(new)
    BY <1>2, <1>3, DisallowedFollows, WrittenStar
  <1>6. ASSUME NEW pending, Follows(r, omap, pending)
        PROVE  Follows(after, new, pending) /\ (~(r.sub # None) => Follows(r, new, pending))
    BY <1>2, <1>3, <1>6, DisallowedFollows, NothingDeleted
  <1> HIDE DEF after, new
  <1>7. CASE Removal(c, r.sub # None, after, new)
    BY <1>2, <1>4, <1>5, <1>6, <1>7, RemovalKept
  <1> QED
    BY <1>1, <1>2, <1>7, FailsKept

\* Both changes of a host's key write what they have found of it.
LEMMA RekeyKept ==
    ASSUME SaneInv, KeptInv, NEW r \in GatewayStates, Bare(r), NEW h \in Hosts,
           NEW psk \in Psks \cup {NoKey}, NEW key \in MaybeKeys, NEW ctrl \in MaybeKeys,
           SpdkHas(r, h)
    PROVE  LET after == WithKey(r, h, key, ctrl)
               new == [omap EXCEPT !.hosts[h] = [psk |-> psk, key |-> key]]
           IN  /\ after \in GatewayStates /\ new \in Contents
               /\ Bare(after) /\ StarHasNoKey(new)
               /\ \A pending :
                     psk = r.hosts[h].psk /\ ctrl = r.key /\ Follows(r, omap, pending)
                     => Follows(after, new, pending \ {h})
  <1> DEFINE e == [psk |-> psk, key |-> key]
             after == WithKey(r, h, key, ctrl)
             new == [omap EXCEPT !.hosts[h] = e]
  <1>1. h \in HostKeys /\ omap \in Contents
    BY DEF HostKeys, SaneInv, AccessTypeOK
  <1>2. r.hosts[h] # None /\ r.hosts[h].psk \in Psks \cup {NoKey}
    BY <1>1, GatewayFields DEF SpdkHas
  <1>3. e \in HostEntries
    BY DEF HostEntries
  <1>4. after \in GatewayStates
    BY <1>1, <1>2, AllowedFields DEF WithKey
  <1>5. new \in Contents
    BY <1>1, <1>3, WrittenTypes
  <1>6. r.sub # None
    BY <1>1, <1>2 DEF Bare
  <1>7. Bare(after)
    BY <1>1, <1>6, AllowedBare DEF WithKey
  <1>8. StarHasNoKey(new)
    BY <1>1, WrittenStar, AccessKeys DEF KeptInv
  <1>9. ASSUME NEW pending, psk = r.hosts[h].psk, ctrl = r.key, Follows(r, omap, pending)
        PROVE  Follows(after, new, pending \ {h})
    BY <1>1, <1>2, <1>9, AllowedFollows DEF WithKey
  <1> QED
    BY <1>4, <1>5, <1>7, <1>8, <1>9

LEMMA ChangeHostKeyKept ==
    ASSUME SaneInv, KeptInv, NEW c \in Clients, ChangeHostKey(c), NEW g, g = req[c].gw
    PROVE  Kept(g)
  <1> DEFINE q == req[c]
             r == gw[g]
             h == q.ask.host
             key == q.ask.key
             after == WithKey(r, h, key, q.ctrl)
             new == [omap EXCEPT !.hosts[h] = [psk |-> q.psk, key |-> key]]
  <1>1. Locked(c, "hostkey") /\ (Fails(c) \/ (SpdkHas(r, h) /\ Effect(c, after, new)))
    BY DEF ChangeHostKey
  <1>2. /\ q # None /\ q.host = None /\ ~Behind(g) /\ q.ask.op = "hostkey" /\ q \in Requests
        /\ r \in GatewayStates /\ omap \in Contents /\ Bare(r) /\ local[g].st = omap
    BY <1>1, LockedStart
  <1>3. h \in Hosts /\ key \in MaybeKeys /\ q.psk \in Psks \cup {NoKey} /\ q.ctrl \in MaybeKeys
    BY <1>2, RequestFields
  <1>4. ASSUME SpdkHas(r, h)
        PROVE  /\ after \in GatewayStates /\ new \in Contents
               /\ Bare(after) /\ StarHasNoKey(new)
               /\ \A pending :
                     q.psk = r.hosts[h].psk /\ q.ctrl = r.key /\ Follows(r, omap, pending)
                     => Follows(after, new, pending \ {h})
    BY <1>2, <1>3, <1>4, RekeyKept
  <1> HIDE DEF after, new
  <1>5. ASSUME SpdkHas(r, h), ~Outdated(q), Follows(r, omap, Pending(g))
        PROVE  Follows(after, new, Pending(g))
    <2>1. q.psk = r.hosts[h].psk /\ q.ctrl = r.key
      BY <1>2, <1>5 DEF Outdated, FoundPsk, SpdkHas
    <2>2. Follows(after, new, Pending(g) \ {h})
      BY <1>4, <1>5, <2>1
    <2>3. Pending(g) \ {h} \subseteq Hosts
      BY DEF Pending
    <2> QED
      BY <2>2, <2>3, FollowsPending
  <1>6. CASE SpdkHas(r, h) /\ Succeeds(c, after, new) /\ Answer(c)
    <2>1. Pending(g)' = Pending(g)
      BY <1>2, <1>6, AnswerPending
    <2> QED
      BY <1>2, <1>4, <1>5, <1>6, <2>1, SucceedsKept
  <1>7. CASE SpdkHas(r, h) /\ Breaks(c, after)
    BY <1>2, <1>4, <1>7, BreaksKept
  <1> QED
    BY <1>1, <1>2, <1>6, <1>7, FailsKept DEF Effect

\* The next host leaves no host of the content out of those to do.
LEMMA NextHostWaits ==
    ASSUME NEW q \in Requests, q.ask.op = "subkey", NEW r \in GatewayStates,
           NEW st, NEW n \in NextHost(q, r, st), NEW k \in Hosts,
           q.todo[k] # NoKey, st.hosts[k] # None
    PROVE  Waits(n, q.gw, k)
  <1> DEFINE left == {h \in Hosts : q.todo[h] # NoKey}
             fit == {h \in left : st.hosts[h] # None}
  <1>1. k \in fit
    OBVIOUS
  <1>2. NextHost(q, r, st) = IF fit = {} THEN {None}
                             ELSE {NextRequest(q, r, h, passed) :
                                      h \in fit, passed \in SUBSET (left \ fit)}
    BY NextHostFields
  <1>3. PICK h \in fit, passed \in SUBSET (left \ fit) : n = NextRequest(q, r, h, passed)
    BY <1>1, <1>2
  <1>4. h \in Hosts /\ passed \in SUBSET Hosts /\ k \notin passed
    BY <1>1, <1>3
  <1>5. /\ n \in Requests /\ n.gw = q.gw /\ n.host = h
    BY <1>3, <1>4, NextRequestType
  <1>6. n.todo = [i \in Hosts |-> IF i = h \/ i \in passed THEN NoKey ELSE q.todo[i]]
    BY <1>3 DEF NextRequest, Requests
  <1>7. n # None
    BY <1>5, AccessNone
  <1> QED
    BY <1>4, <1>5, <1>6, <1>7 DEF Waits

LEMMA ChangeSubsystemKeyKept ==
    ASSUME SaneInv, KeptInv, NEW c \in Clients, ChangeSubsystemKey(c), NEW g, g = req[c].gw
    PROVE  Kept(g)
  <1> DEFINE q == req[c]
             r == gw[g]
             key == q.ask.key
             st == local[g].st
             e == [inst |-> st.sub.inst, key |-> key]
             new == [omap EXCEPT !.sub = e]
             todo == [h \in Hosts |-> IF h \in Keyed(r) THEN r.hosts[h].key ELSE NoKey]
             after == [r EXCEPT !.key = key]
             p == [q EXCEPT !.todo = todo]
  <1>1. /\ Locked(c, "subkey")
        /\ \/ Fails(c)
           \/ /\ st.sub # None /\ (key # NoKey => KeylessHosts(r, st) = {})
              /\ \/ /\ Succeeds(c, after, new)
                    /\ \E next \in NextHost(p, after, new) : req' = [req EXCEPT ![c] = next]
                 \/ Breaks(c, r)
    BY DEF ChangeSubsystemKey
  <1>2. /\ q # None /\ q.host = None /\ ~Behind(g) /\ q.ask.op = "subkey" /\ q \in Requests
        /\ r \in GatewayStates /\ omap \in Contents /\ Bare(r) /\ st = omap
        /\ StarHasNoKey(omap)
    BY <1>1, LockedStart
  <1>3. key \in MaybeKeys
    BY <1>2, RequestFields
  <1>4. todo \in [Hosts -> MaybeKeys]
    BY <1>2, GatewayFields DEF MaybeKeys, Keyed, Known, HostKeys
  <1>5. \A h \in Keyed(r) : h \in Hosts /\ todo[h] # NoKey /\ r.hosts[h] # None
    BY DEF Keyed, Known
  <1> HIDE DEF todo
  <1>6. p \in Requests /\ p.ask.op = "subkey" /\ p.gw = g /\ p.todo = todo
    BY <1>2, <1>4 DEF Requests
  <1> HIDE DEF p
  <1>7. CASE /\ st.sub # None /\ (key # NoKey => KeylessHosts(r, st) = {})
             /\ Succeeds(c, after, new)
             /\ \E next \in NextHost(p, after, new) : req' = [req EXCEPT ![c] = next]
    <2>1. after \in GatewayStates
      BY <1>2, <1>3, KeyFields
    <2>2. new \in Contents
      <3>1. st.sub.inst \in Insts
        BY <1>2, <1>7, ContentFields
      <3>2. e \in [inst : Insts, key : MaybeKeys]
        BY <1>3, <3>1
      <3> QED
        BY <1>2, <3>2, WrittenTypes
    <2>3. /\ Bare(after) /\ StarHasNoKey(new)
          /\ \A pending : Follows(r, omap, Pending(g)) /\ Keyed(r) \subseteq pending
                          => Follows(after, new, pending)
      BY <1>2, <1>3, <1>7, KeyFollows
    <2>4. new.hosts = omap.hosts
      BY <1>2, WrittenSub
    <2> HIDE DEF after, new
    <2>5. PICK next \in NextHost(p, after, new) : req' = [req EXCEPT ![c] = next]
      BY <1>7
    <2>6. ASSUME Follows(r, omap, Pending(g)), NEW h \in Keyed(r)
          PROVE  h \in Pending(g)'
      <3>1. h \in HostKeys /\ omap.hosts[h] # None
        BY <1>5, <2>6 DEF Follows, FollowsAt, HostKeys
      <3>2. Waits(next, g, h)
        BY <1>5, <1>6, <2>1, <2>4, <2>5, <2>6, <3>1, NextHostWaits
      <3> QED
        BY <1>5, <2>5, <2>6, <3>2, PendingFields DEF SaneInv
    <2>7. Follows(r, omap, Pending(g)) => Follows(after, new, Pending(g)')
      BY <2>3, <2>6
    <2> QED
      BY <1>2, <1>7, <2>1, <2>2, <2>3, <2>7, SucceedsKept
  <1>8. CASE Breaks(c, r)
    BY <1>2, <1>8, BreaksKept
  <1> QED
    BY SMTT(30), <1>1, <1>2, <1>7, <1>8, FailsKept

LEMMA ChangeKeyOfHostKept ==
    ASSUME SaneInv, KeptInv, NEW c \in Clients, ChangeKeyOfHost(c), NEW g, g = req[c].gw
    PROVE  Kept(g)
  <1> DEFINE q == req[c]
             r == gw[g]
             h == q.host
             key == q.ask.key
             after == WithKey(r, h, key, q.ctrl)
             new == [omap EXCEPT !.hosts[h] = [psk |-> q.psk, key |-> key]]
  <1>1. /\ q # None /\ q.host # None
        /\ \/ PassesOver(c, r)
           \/ /\ ~Behind(g) /\ SpdkHas(r, h)
              /\ Succeeds(c, after, new)
              /\ \E next \in NextHost(q, after, new) : req' = [req EXCEPT ![c] = next]
           \/ /\ ~Behind(g) /\ SpdkHas(r, h)
              /\ \E n \in {r, after} : PassesOver(c, n)
    BY DEF ChangeKeyOfHost
  <1>2. /\ q \in Requests /\ g \in Gateways /\ r \in GatewayStates /\ omap \in Contents
        /\ q.ask.op = "subkey"
    BY <1>1, LockedFields DEF SaneInv, RequestInv, Wellformed
  <1>3. /\ h \in Hosts /\ h \in HostKeys /\ key \in MaybeKeys /\ q.psk \in Psks \cup {NoKey}
        /\ q.ctrl \in MaybeKeys
    BY <1>1, <1>2, RequestFields DEF HostKeys
  <1>4. Bare(r)
    BY <1>2 DEF KeptInv, GatewayInv
  <1>5. ASSUME SpdkHas(r, h)
        PROVE  /\ after \in GatewayStates /\ new \in Contents
               /\ Bare(after) /\ StarHasNoKey(new)
               /\ \A pending :
                     q.psk = r.hosts[h].psk /\ q.ctrl = r.key /\ Follows(r, omap, pending)
                     => Follows(after, new, pending \ {h})
    BY <1>2, <1>3, <1>4, <1>5, RekeyKept
  <1> HIDE DEF after, new
  <1>6. ASSUME NEW n, PassesOver(c, n), Bare(n)
        PROVE  Kept(g)
    <2>1. /\ gw' = [gw EXCEPT ![g] = n] /\ troubled' = [troubled EXCEPT ![g] = TRUE]
          /\ omap' = omap /\ local' = local
      BY <1>6 DEF PassesOver, omapVars
    <2>2. gw'[g] = n /\ troubled'[g]
      BY <1>2, <2>1 DEF SaneInv, AccessTypeOK
    <2> QED
      BY <1>2, <1>6, <2>1, <2>2 DEF Kept, KeptInv, GatewayInv, StarAt
  <1>7. CASE /\ ~Behind(g) /\ SpdkHas(r, h)
             /\ Succeeds(c, after, new)
             /\ \E next \in NextHost(q, after, new) : req' = [req EXCEPT ![c] = next]
    <2>1. PICK next \in NextHost(q, after, new) : req' = [req EXCEPT ![c] = next]
      BY <1>7
    <2>2. ASSUME ~Outdated(q), Follows(r, omap, Pending(g))
          PROVE  Follows(after, new, Pending(g)')
      <3>1. /\ r.hosts[h] # None /\ q.ctrl = r.key
            /\ r.hosts[h] = [psk |-> q.psk, key |-> key, ctrl |-> r.hosts[h].ctrl]
        BY <1>1, <2>2 DEF Outdated
      <3>2. q.psk = r.hosts[h].psk
        BY <3>1
      <3>3. Follows(after, new, Pending(g) \ {h})
        BY <1>5, <1>7, <2>2, <3>1, <3>2
      <3>4. ASSUME NEW k \in Hosts, k \in Pending(g) \ {h}, after.hosts[k] # None
            PROVE  k \in Pending(g)'
        <4>1. k \in Pending(g)' \/ Waits(q, g, k)
          BY <2>1, <3>4, PendingFields DEF SaneInv
        <4>2. CASE Waits(q, g, k)
          <5>1. q.todo[k] # NoKey
            BY <3>4, <4>2 DEF Waits
          <5>2. new.hosts[k] # None
            BY <3>3, <3>4 DEF Follows, FollowsAt, HostKeys
          <5>3. Waits(next, g, k)
            BY <1>2, <1>5, <1>7, <2>1, <5>1, <5>2, NextHostWaits
          <5> QED
            BY <2>1, <5>3, PendingFields DEF SaneInv
        <4> QED
          BY <4>1, <4>2
      <3>5. Pending(g) \ {h} \subseteq Hosts
        BY DEF Pending
      <3> QED
        BY <3>3, <3>4, <3>5, FollowsPending
    <2> QED
      BY <1>1, <1>4, <1>5, <1>7, <2>2, SucceedsKept
  <1> QED
    BY <1>1, <1>4, <1>5, <1>6, <1>7

(***************************************************************************)
(* An update starts, goes on and ends                                      *)
(***************************************************************************)
\* What is planned when nothing is left out.
LEMMA NothingLeftOut ==
    ASSUME NEW old, NEW new, ~LeavesOut(old, new)
    PROVE  /\ Plan(old, new).delhost = (Has(old) \ Has(new)) \cup PskChanged(old, new)
           /\ Plan(old, new).addhost = (Has(new) \ Has(old)) \cup PskChanged(old, new)
           /\ Plan(old, new).drop # {} => Has(old) \cap Has(new) = {}
  <1> DEFINE p == Plan(old, new)
  <1>1. /\ p.delhost \cap p.addhost # {} => Has(old) = Has(new)
        /\ p.drop # {} => Has(old) \cap Has(new) = {}
    BY DEF LeavesOut, Has
  <1>2. /\ p.delhost = Grouped(Has(old) \ Has(new), PskChanged(old, new))
        /\ p.addhost = Grouped(Has(new) \ Has(old), PskChanged(old, new))
    BY PlanFields
  <1> HIDE DEF p
  <1>3. CASE PskChanged(old, new) = {}
    BY <1>1, <1>2, <1>3 DEF Grouped, p
  <1>4. CASE PskChanged(old, new) # {}
    <2>1. p.delhost = PskChanged(old, new) /\ p.addhost = PskChanged(old, new)
      BY <1>2, <1>4 DEF Grouped
    <2>2. Has(old) = Has(new)
      BY <1>1, <1>4, <2>1
    <2> QED
      BY <1>1, <2>1, <2>2 DEF p
  <1> QED
    BY <1>3, <1>4

\* the planned calls on the subsystem
LEMMA PlannedCalls ==
    ASSUME NEW old, NEW new
    PROVE  /\ Plan(old, new).drop # {} <=> Readd(old, new) \/ (old.sub # None /\ new.sub = None)
           /\ Plan(old, new).add # {} <=> Readd(old, new) \/ (old.sub = None /\ new.sub # None)
           /\ Plan(old, new).subkey # {} <=> /\ old.sub # None /\ new.sub # None
                                             /\ ~Readd(old, new) /\ old.sub.key # new.sub.key
           /\ Plan(old, new).hostkey = KeyChanged(old, new)
  <1> DEFINE p == Plan(old, new)
  <1>1. /\ p.drop = CallIf(Readd(old, new) \/ (old.sub # None /\ new.sub = None))
        /\ p.add = CallIf(Readd(old, new) \/ (old.sub = None /\ new.sub # None))
        /\ p.subkey = CallIf(/\ old.sub # None /\ new.sub # None /\ ~Readd(old, new)
                             /\ old.sub.key # new.sub.key)
        /\ p.hostkey = KeyChanged(old, new)
    BY PlanFields
  <1> HIDE DEF p
  <1>2. /\ p.drop # {} <=> Readd(old, new) \/ (old.sub # None /\ new.sub = None)
        /\ p.add # {} <=> Readd(old, new) \/ (old.sub = None /\ new.sub # None)
        /\ p.subkey # {} <=> /\ old.sub # None /\ new.sub # None
                             /\ ~Readd(old, new) /\ old.sub.key # new.sub.key
    BY <1>1 DEF CallIf
  <1> QED
    BY <1>1, <1>2 DEF p

LEMMA StartLeads ==
    ASSUME NEW ver, NEW old \in Contents, NEW new \in Contents, NEW r \in GatewayStates,
           ~LeavesOut(old, new), StarHasNoKey(old), StarHasNoKey(new), Bare(r),
           NEW pending, Follows(r, old, pending)
    PROVE  LeadsTo(r, PlannedUpdate(ver, old, new), pending)
  <1> DEFINE p == Plan(old, new)
             u == PlannedUpdate(ver, old, new)
  <1>1. /\ u.st = new /\ u.delhost = p.delhost /\ u.addhost = p.addhost
        /\ u.hostkey = p.hostkey /\ u.drop = p.drop /\ u.add = p.add /\ u.subkey = p.subkey
    BY DEF PlannedUpdate
  <1>2. /\ p.delhost = (Has(old) \ Has(new)) \cup PskChanged(old, new)
        /\ p.addhost = (Has(new) \ Has(old)) \cup PskChanged(old, new)
        /\ p.drop # {} => Has(old) \cap Has(new) = {}
    BY NothingLeftOut
  <1>3. /\ p.drop # {} <=> Readd(old, new) \/ (old.sub # None /\ new.sub = None)
        /\ p.add # {} <=> Readd(old, new) \/ (old.sub = None /\ new.sub # None)
        /\ p.subkey # {} <=> /\ old.sub # None /\ new.sub # None
                             /\ ~Readd(old, new) /\ old.sub.key # new.sub.key
        /\ p.hostkey = KeyChanged(old, new)
    BY PlannedCalls
  <1> HIDE DEF p, u
  <1>4. /\ r.sub = SubOf(old) /\ r.key = KeyOf(old) /\ (r.sub = None <=> old.sub = None)
    BY FollowsFields DEF Follows
  <1>5. Leads(r, u)
    <2>1. ASSUME u.delhost # {} PROVE r.sub # None
      <3>1. PICK h \in HostKeys : h \in Has(old)
        BY <1>1, <1>2, <2>1 DEF Has, PskChanged
      <3>2. r.hosts[h] # None
        BY <3>1 DEF Has, Follows, FollowsAt
      <3> QED
        BY <3>2 DEF Bare
    <2> QED
      BY <1>1, <1>3, <1>4, <2>1 DEF Leads, Readd, SubOf, KeyOf
  <1>6. ASSUME NEW h \in HostKeys
        PROVE  LeadsAt(r, u, h, pending)
    <2>1. FollowsAt(r, old, h, pending)
      BY DEF Follows
    <2>2. CASE h \in u.addhost
      <3>1. h \in u.delhost \/ r.hosts[h] = None
        BY <1>1, <1>2, <2>1, <2>2 DEF FollowsAt, Has
      <3>2. h \notin u.hostkey
        BY <1>1, <1>2, <1>3, <2>2 DEF KeyChanged
      <3> QED
        BY <2>2, <3>1, <3>2 DEF LeadsAt
    <2>3. CASE h \notin u.addhost
      <3>1. new.hosts[h] # None => /\ u.drop = {} /\ h \notin u.delhost
                                   /\ r.hosts[h] # None /\ h \in Has(old) \cap Has(new)
                                   /\ h \notin PskChanged(old, new)
        BY <1>1, <1>2, <2>1, <2>3 DEF FollowsAt, Has
      <3>2. u.drop = {} /\ h \notin u.delhost /\ r.hosts[h] # None => new.hosts[h] # None
        BY <1>1, <1>2, <2>1 DEF FollowsAt, Has
      <3>3. ASSUME new.hosts[h] # None
            PROVE  /\ r.hosts[h].psk = new.hosts[h].psk
                   /\ h \in u.hostkey \/ r.hosts[h].key = new.hosts[h].key
                   /\ IF r.hosts[h].key = NoKey THEN r.hosts[h].ctrl = NoKey
                      ELSE u.subkey # {} \/ h \in pending \/ r.hosts[h].ctrl = r.key
        <4>1. /\ r.hosts[h].psk = old.hosts[h].psk /\ r.hosts[h].key = old.hosts[h].key
              /\ Current(r, h, pending)
          BY <2>1, <3>1, <3>3 DEF FollowsAt
        <4>2. old.hosts[h].psk = new.hosts[h].psk
          BY <3>1, <3>3 DEF PskChanged
        <4>3. h \in u.hostkey \/ old.hosts[h].key = new.hosts[h].key
          <5>1. CASE h \in Hosts
            BY <1>1, <1>3, <3>1, <3>3, <5>1 DEF KeyChanged
          <5>2. CASE h = Star
            BY <3>1, <3>3, <5>2 DEF StarHasNoKey, Has
          <5> QED
            BY <5>1, <5>2 DEF HostKeys
        <4> QED
          BY <4>1, <4>2, <4>3 DEF Current
      <3> QED
        BY <1>1, <2>3, <3>1, <3>2, <3>3 DEF LeadsAt
    <2> QED
      BY <2>2, <2>3
  <1> QED
    BY <1>5, <1>6 DEF LeadsTo, u

\* When all calls are made, the gateway has what the update has read.
LEMMA EndFollows ==
    ASSUME NEW r, NEW u, u.delhost = {}, u.drop = {}, u.add = {}, u.addhost = {},
           u.subkey = {}, u.hostkey = {}
    PROVE  \A pending : LeadsTo(r, u, pending) => Follows(r, u.st, pending)
  BY DEF LeadsTo, Leads, LeadsAt, Follows, FollowsAt, Current

\* One call of the update that is not refused: what a lemma of each call states.
Goes(r, u, n, v) ==
    /\ Bare(r) => Bare(n)
    /\ \A pending :
          Bare(r) /\ StarHasNoKey(u.st) /\ LeadsTo(r, u, pending) => LeadsTo(n, v, pending)

LEMMA RemoveGoes ==
    ASSUME NEW r \in GatewayStates, NEW u \in Updates, NEW h \in u.delhost
    PROVE  Goes(r, u, Disallowed(r, h), [u EXCEPT !.delhost = @ \ {h}])
  <1> DEFINE n == Disallowed(r, h)
             v == [u EXCEPT !.delhost = @ \ {h}]
  <1>1. /\ v.st = u.st /\ v.addhost = u.addhost /\ v.hostkey = u.hostkey
        /\ v.drop = u.drop /\ v.add = u.add /\ v.subkey = u.subkey
        /\ v.delhost = u.delhost \ {h}
    BY DEF Updates
  <1>2. h \in HostKeys
    BY UpdateFields
  <1>3. /\ n.sub = r.sub /\ n.key = r.key
        /\ \A k \in HostKeys : n.hosts[k] = IF k = h THEN None ELSE r.hosts[k]
    BY <1>2, DisallowedFields
  <1> HIDE DEF n, v
  <1>4. Bare(r) => Bare(n)
    BY <1>3 DEF Bare
  <1>5. ASSUME NEW pending, LeadsTo(r, u, pending)
        PROVE  LeadsTo(n, v, pending)
    <2>1. r.sub # None
      BY <1>5 DEF LeadsTo, Leads
    <2>2. Leads(n, v)
      BY <1>1, <1>3, <1>5, <2>1 DEF LeadsTo, Leads
    <2>3. ASSUME NEW k \in HostKeys
          PROVE  LeadsAt(n, v, k, pending)
      <3>1. LeadsAt(r, u, k, pending)
        BY <1>5 DEF LeadsTo
      <3>2. CASE k = h
        BY <1>1, <1>3, <2>1, <3>1, <3>2 DEF LeadsAt
      <3>3. CASE k # h
        <4>1. n.hosts[k] = r.hosts[k] /\ (k \in v.delhost <=> k \in u.delhost)
          BY <1>1, <1>3, <2>1, <3>3
        <4> QED
          BY <1>1, <1>3, <3>1, <4>1 DEF LeadsAt
      <3> QED
        BY <3>2, <3>3
    <2> QED
      BY <2>2, <2>3 DEF LeadsTo
  <1> QED
    BY <1>4, <1>5 DEF Goes, n, v

LEMMA DropGoes ==
    ASSUME NEW r \in GatewayStates, NEW u \in Updates, u.delhost = {}, u.drop # {}
    PROVE  Goes(r, u, NewGateway, [u EXCEPT !.drop = {}])
  <1> DEFINE n == NewGateway
             v == [u EXCEPT !.drop = {}]
  <1>1. /\ v.st = u.st /\ v.addhost = u.addhost /\ v.hostkey = u.hostkey
        /\ v.delhost = {} /\ v.add = u.add /\ v.subkey = u.subkey /\ v.drop = {}
    BY DEF Updates
  <1>2. n.sub = None /\ n.key = NoKey /\ \A k \in HostKeys : n.hosts[k] = None
    BY DEF NewGateway, NoHosts
  <1> HIDE DEF n, v
  <1>3. Bare(n)
    BY <1>2 DEF Bare
  <1>4. ASSUME NEW pending, LeadsTo(r, u, pending)
        PROVE  LeadsTo(n, v, pending)
    <2>1. r.sub # None
      BY <1>4 DEF LeadsTo, Leads
    <2>2. Leads(n, v)
      BY <1>1, <1>2, <1>4, <2>1 DEF LeadsTo, Leads, SubOf, KeyOf
    <2>3. ASSUME NEW k \in HostKeys
          PROVE  LeadsAt(n, v, k, pending)
      <3>1. LeadsAt(r, u, k, pending)
        BY <1>4 DEF LeadsTo
      <3> QED
        BY <1>1, <1>2, <2>1, <3>1 DEF LeadsAt
    <2> QED
      BY <2>2, <2>3 DEF LeadsTo
  <1> QED
    BY <1>3, <1>4 DEF Goes, n, v

LEMMA CreateGoes ==
    ASSUME NEW r \in GatewayStates, NEW u \in Updates, u.delhost = {}, u.drop = {}, u.add # {},
           Planned(u), r.sub = None
    PROVE  Goes(r, u, Created(r, u.st.sub.inst, u.st.sub.key), [u EXCEPT !.add = {}])
  <1> DEFINE n == Created(r, u.st.sub.inst, u.st.sub.key)
             v == [u EXCEPT !.add = {}]
  <1>1. /\ v.st = u.st /\ v.addhost = u.addhost /\ v.hostkey = u.hostkey
        /\ v.delhost = {} /\ v.add = {} /\ v.subkey = u.subkey /\ v.drop = {}
    BY DEF Updates
  <1>2. /\ n.sub = u.st.sub.inst /\ n.hosts = r.hosts
        /\ n.key = IF u.st.sub.key = NoKey THEN r.key ELSE u.st.sub.key
    BY DEF Created, GatewayStates
  <1>3. u.st.sub # None /\ u.st.sub.inst \in Insts
    BY UpdateFields, ContentFields DEF Planned
  <1>4. u.st.sub.inst # None
    BY <1>3, AccessNone
  <1> HIDE DEF n, v
  <1>5. Bare(r) => Bare(n)
    BY <1>1, <1>2, <1>4 DEF Bare
  <1>6. ASSUME NEW pending, Bare(r), LeadsTo(r, u, pending)
        PROVE  LeadsTo(n, v, pending)
    <2>1. r.sub = None /\ r.key = NoKey
      BY <1>6 DEF LeadsTo, Leads
    <2>2. /\ n.sub = u.st.sub.inst /\ n.key = u.st.sub.key
          /\ \A k \in HostKeys : n.hosts[k] = None /\ r.hosts[k] = None
      BY <1>2, <1>6, <2>1 DEF Bare
    <2>3. Leads(n, v)
      BY <1>1, <1>3, <1>6, <2>2 DEF LeadsTo, Leads, SubOf, KeyOf
    <2>4. ASSUME NEW k \in HostKeys
          PROVE  LeadsAt(n, v, k, pending)
      <3>1. LeadsAt(r, u, k, pending)
        BY <1>6 DEF LeadsTo
      <3>2. n.hosts[k] = None /\ r.hosts[k] = None
        BY <2>2
      <3>3. k \in u.addhost => u.st.hosts[k] # None
        BY DEF Planned
      <3> QED
        BY <1>1, <3>1, <3>2, <3>3 DEF LeadsAt
    <2> QED
      BY <2>3, <2>4 DEF LeadsTo
  <1> QED
    BY <1>5, <1>6 DEF Goes, n, v

LEMMA AddGoes ==
    ASSUME NEW r \in GatewayStates, NEW u \in Updates, NEW h \in u.addhost, Planned(u),
           u.delhost = {}, u.drop = {}, u.add = {}, r.sub # None
    PROVE  Goes(r, u, Allowed(r, h, u.st.hosts[h].psk, u.st.hosts[h].key, r.key),
                [u EXCEPT !.addhost = @ \ {h}])
  <1> DEFINE e == u.st.hosts[h]
             n == Allowed(r, h, e.psk, e.key, r.key)
             v == [u EXCEPT !.addhost = @ \ {h}]
  <1>1. /\ v.st = u.st /\ v.addhost = u.addhost \ {h} /\ v.hostkey = u.hostkey
        /\ v.delhost = {} /\ v.add = {} /\ v.subkey = u.subkey /\ v.drop = {}
    BY DEF Updates
  <1>2. /\ h \in HostKeys /\ u.st \in Contents /\ e # None
    BY UpdateFields DEF Planned
  <1>3. e.psk \in Psks \cup {NoKey} /\ e.key \in MaybeKeys /\ r.key \in MaybeKeys
    BY <1>2, ContentFields, GatewayFields
  <1>4. /\ n.sub = r.sub /\ n.key = r.key
        /\ \A k \in HostKeys : k # h => n.hosts[k] = r.hosts[k]
        /\ n.hosts[h] # None /\ n.hosts[h].psk = e.psk /\ n.hosts[h].key = e.key
        /\ n.hosts[h].ctrl = IF e.key = NoKey THEN NoKey ELSE r.key
    <2>1. \A psk \in Psks \cup {NoKey}, key, ctrl \in MaybeKeys :
             /\ Allowed(r, h, psk, key, ctrl).hosts[h] # None
             /\ Allowed(r, h, psk, key, ctrl).hosts[h].psk = psk
             /\ Allowed(r, h, psk, key, ctrl).hosts[h].key = key
             /\ Allowed(r, h, psk, key, ctrl).hosts[h].ctrl = IF key = NoKey THEN NoKey ELSE ctrl
      BY <1>2, AllowedFields
    <2> HIDE DEF n, v, e
    <2>2. /\ n.sub = r.sub /\ n.key = r.key
          /\ \A k \in HostKeys : k # h => n.hosts[k] = r.hosts[k]
      BY <1>2, AllowedOthers DEF n
    <2> QED
      BY <1>3, <2>1, <2>2 DEF n
  <1> HIDE DEF n, v, e
  <1>5. Bare(n)
    BY <1>4 DEF Bare
  <1>6. ASSUME NEW pending, LeadsTo(r, u, pending)
        PROVE  LeadsTo(n, v, pending)
    <2>1. Leads(n, v)
      BY <1>1, <1>4, <1>6 DEF LeadsTo, Leads
    <2>2. ASSUME NEW k \in HostKeys
          PROVE  LeadsAt(n, v, k, pending)
      <3>1. LeadsAt(r, u, k, pending)
        BY <1>6 DEF LeadsTo
      <3>2. CASE k = h
        <4>1. k \notin v.addhost
          BY <1>1, <3>2
        <4> QED
          BY <1>1, <1>2, <1>4, <3>2, <4>1 DEF LeadsAt, e
      <3>3. CASE k # h
        <4>1. n.hosts[k] = r.hosts[k] /\ (k \in v.addhost <=> k \in u.addhost)
          BY <1>1, <1>4, <3>3
        <4> QED
          BY <1>1, <1>4, <3>1, <4>1 DEF LeadsAt
      <3> QED
        BY <3>2, <3>3
    <2> QED
      BY <2>1, <2>2 DEF LeadsTo
  <1> QED
    BY <1>5, <1>6 DEF Goes, n, v, e

LEMMA SubsystemKeyGoes ==
    ASSUME NEW r \in GatewayStates, NEW u \in Updates, Planned(u),
           u.delhost = {}, u.drop = {}, u.add = {}, u.addhost = {}, u.subkey # {}
    PROVE  Goes(r, u, Rekeyed(r, u.st.sub.key), [u EXCEPT !.subkey = {}])
  <1> DEFINE key == u.st.sub.key
             n == Rekeyed(r, key)
             v == [u EXCEPT !.subkey = {}]
  <1>1. /\ v.st = u.st /\ v.addhost = {} /\ v.hostkey = u.hostkey
        /\ v.delhost = {} /\ v.add = {} /\ v.subkey = {} /\ v.drop = {}
    BY DEF Updates
  <1>2. u.st.sub # None /\ u.st \in Contents
    BY UpdateFields DEF Planned
  <1>3. key \in MaybeKeys
    BY <1>2, ContentFields
  <1>4. /\ n.sub = r.sub /\ n.key = key
        /\ \A h \in HostKeys \ Keyed(r) : n.hosts[h] = r.hosts[h]
        /\ \A h \in Keyed(r) : /\ n.hosts[h] # None
                               /\ n.hosts[h].psk = r.hosts[h].psk
                               /\ n.hosts[h].key = r.hosts[h].key
                               /\ n.hosts[h].ctrl = key
    BY <1>3, RekeyedFields
  <1>5. \A h \in Keyed(r) : h \in Hosts /\ r.hosts[h] # None /\ r.hosts[h].key # NoKey
    BY DEF Keyed, Known
  <1>6. \A h \in HostKeys : n.hosts[h] # None <=> r.hosts[h] # None
    BY <1>4, <1>5
  <1> HIDE DEF n, v
  <1>7. Bare(r) => Bare(n)
    BY <1>4, <1>6 DEF Bare
  <1>8. ASSUME NEW pending, StarHasNoKey(u.st), LeadsTo(r, u, pending)
        PROVE  LeadsTo(n, v, pending)
    <2>1. Leads(n, v)
      BY <1>1, <1>2, <1>4, <1>8 DEF LeadsTo, Leads, KeyOf
    <2>2. ASSUME NEW h \in HostKeys
          PROVE  LeadsAt(n, v, h, pending)
      <3>1. LeadsAt(r, u, h, pending)
        BY <1>8 DEF LeadsTo
      <3>2. CASE h \in Keyed(r)
        BY <1>1, <1>4, <1>5, <3>1, <3>2 DEF LeadsAt
      <3>3. CASE h \notin Keyed(r)
        <4>1. n.hosts[h] = r.hosts[h]
          BY <1>4, <3>3
        <4>2. u.st.hosts[h] # None => r.hosts[h].key = NoKey
          <5>1. CASE h \in Hosts
            BY <3>1, <3>3, <5>1 DEF LeadsAt, Keyed, Known
          <5>2. CASE h = Star
            <6>1. h \notin u.hostkey
              BY <5>2, UpdateFields, AccessKeys
            <6> QED
              BY <1>8, <3>1, <5>2, <6>1 DEF LeadsAt, StarHasNoKey
          <5> QED
            BY <5>1, <5>2 DEF HostKeys
        <4> QED
          BY <1>1, <3>1, <4>1, <4>2 DEF LeadsAt
      <3> QED
        BY <3>2, <3>3
    <2> QED
      BY <2>1, <2>2 DEF LeadsTo
  <1> QED
    BY <1>7, <1>8 DEF Goes, n, v

LEMMA HostKeyGoes ==
    ASSUME NEW r \in GatewayStates, NEW u \in Updates, NEW h \in u.hostkey, Planned(u),
           u.delhost = {}, u.drop = {}, u.add = {}, u.addhost = {}, u.subkey = {},
           r.hosts[h] # None
    PROVE  Goes(r, u, WithKey(r, h, u.st.hosts[h].key, r.key),
                [u EXCEPT !.hostkey = @ \ {h}])
  <1> DEFINE key == u.st.hosts[h].key
             n == WithKey(r, h, key, r.key)
             v == [u EXCEPT !.hostkey = @ \ {h}]
  <1>1. /\ v.st = u.st /\ v.addhost = {} /\ v.hostkey = u.hostkey \ {h}
        /\ v.delhost = {} /\ v.add = {} /\ v.subkey = {} /\ v.drop = {}
    BY DEF Updates
  <1>2. /\ h \in HostKeys /\ h \in Hosts /\ u.st \in Contents /\ u.st.hosts[h] # None
    BY UpdateFields DEF Planned, HostKeys
  <1>3. key \in MaybeKeys /\ r.key \in MaybeKeys
    BY <1>2, ContentFields, GatewayFields
  <1>4. /\ n.sub = r.sub /\ n.key = r.key
        /\ \A k \in HostKeys : k # h => n.hosts[k] = r.hosts[k]
        /\ n.hosts[h] # None /\ n.hosts[h].psk = r.hosts[h].psk /\ n.hosts[h].key = key
        /\ n.hosts[h].ctrl = IF key = NoKey THEN NoKey ELSE r.key
    <2>1. r.hosts[h].psk \in Psks \cup {NoKey}
      BY <1>2, GatewayFields
    <2> QED
      BY <1>2, <1>3, <2>1, AllowedFields DEF WithKey
  <1> HIDE DEF n, v
  <1>5. Bare(r) => Bare(n)
    BY <1>2, <1>4 DEF Bare
  <1>6. ASSUME NEW pending, LeadsTo(r, u, pending)
        PROVE  LeadsTo(n, v, pending)
    <2>1. Leads(n, v)
      BY <1>1, <1>4, <1>6 DEF LeadsTo, Leads
    <2>2. ASSUME NEW k \in HostKeys
          PROVE  LeadsAt(n, v, k, pending)
      <3>1. LeadsAt(r, u, k, pending)
        BY <1>6 DEF LeadsTo
      <3>2. CASE k = h
        BY <1>1, <1>2, <1>4, <3>1, <3>2 DEF LeadsAt
      <3>3. CASE k # h
        <4>1. n.hosts[k] = r.hosts[k] /\ (k \in v.hostkey <=> k \in u.hostkey) /\ n.key = r.key
          BY <1>1, <1>4, <3>3
        <4> QED
          BY <1>1, <3>1, <4>1 DEF LeadsAt
      <3> QED
        BY <3>2, <3>3
    <2> QED
      BY <2>1, <2>2 DEF LeadsTo
  <1> QED
    BY <1>5, <1>6 DEF Goes, n, v

(***************************************************************************)
(* Every step keeps the invariant.                                         *)
(***************************************************************************)
\* the hosts that wait, when the requests stay as they are
LEMMA SamePending ==
    ASSUME UNCHANGED req, NEW g
    PROVE  Pending(g)' = Pending(g)
  BY DEF Pending, Waits

LEMMA DoesKept ==
    ASSUME SaneInv, KeptInv, NEW g \in Gateways, update[g] # None, NEW refused \in BOOLEAN,
           NEW n, NEW v \in Updates, update' = [update EXCEPT ![g] = v], Does(g, refused, n),
           v.st = update[g].st, ~refused => Goes(gw[g], update[g], n, v)
    PROVE  KeptInv'
  <1> DEFINE m == IF refused THEN gw[g] ELSE n
  <1>1. /\ gw' = [gw EXCEPT ![g] = m] /\ omap' = omap /\ local' = local /\ req' = req
        /\ troubled' = [troubled EXCEPT ![g] = @ \/ refused]
    BY DEF Does, omapVars
  <1>2. (refused => m = gw[g]) /\ (~refused => m = n)
    OBVIOUS
  <1> HIDE DEF m
  <1>3. /\ gw'[g] = m /\ update'[g] = v
        /\ (~troubled'[g] => ~troubled[g] /\ ~refused)
        /\ \A k \in Gateways : k # g => /\ gw'[k] = gw[k] /\ update'[k] = update[k]
                                        /\ troubled'[k] = troubled[k]
    BY <1>1 DEF SaneInv, AccessTypeOK
  <1>4. v # None
    BY AccessNone
  <1>5. \A k \in Gateways : k # g => GatewayInv(k)'
    <2> SUFFICES ASSUME NEW k \in Gateways, k # g PROVE GatewayInv(k)'
      OBVIOUS
    <2>1. Pending(k)' = Pending(k)
      BY <1>1, SamePending
    <2>2. GatewayInv(k)
      BY DEF KeptInv
    <2> QED
      BY <1>1, <1>3, <2>1, <2>2, OthersKept
  <1>6. GatewayInv(g)'
    <2>1. Pending(g)' = Pending(g)
      BY <1>1, SamePending
    <2>2. GatewayInv(g)
      BY DEF KeptInv
    <2>3. Bare(gw'[g])
      BY <1>2, <1>3, <2>2 DEF GatewayInv, Goes
    <2>4. StarAt(g)'
      BY <1>1, <1>3, <2>2 DEF GatewayInv, StarAt
    <2>5. FollowedAt(g)'
      BY <1>2, <1>3, <1>4, <2>1, <2>2 DEF GatewayInv, StarAt, FollowedAt, Goes
    <2> QED
      BY <2>3, <2>4, <2>5 DEF GatewayInv
  <1> QED
    BY <1>1, <1>5, <1>6 DEF KeptInv

LEMMA UpdateStepKept ==
    ASSUME SaneInv, KeptInv, NEW g \in Gateways, UpdateStep(g),
           ~StartUpdate(g), ~UpdateEnd(g)
    PROVE  KeptInv'
  <1> DEFINE r == gw[g]
             u == update[g]
  <1>1. u # None
    BY DEF UpdateStep, UpdateRemoveHost, UpdateDrop, UpdateCreate, UpdateAddHost,
       UpdateSubsystemKey, UpdateHostKey, Reached
  <1>2. r \in GatewayStates /\ u \in Updates /\ Planned(u)
    BY <1>1 DEF SaneInv, AccessTypeOK, PlannedInv
  <1>3. /\ Reached(g, 2) => u.delhost = {}
        /\ Reached(g, 3) => u.delhost = {} /\ u.drop = {}
        /\ Reached(g, 4) => u.delhost = {} /\ u.drop = {} /\ u.add = {}
        /\ Reached(g, 5) => u.delhost = {} /\ u.drop = {} /\ u.add = {} /\ u.addhost = {}
        /\ Reached(g, 6) => /\ u.delhost = {} /\ u.drop = {} /\ u.add = {} /\ u.addhost = {}
                            /\ u.subkey = {}
    BY DEF Reached, Kinds
  <1>4. CASE UpdateRemoveHost(g)
    <2>1. PICK h \in u.delhost :
              /\ update' = [update EXCEPT ![g].delhost = @ \ {h}]
              /\ Does(g, r.sub = None, Disallowed(r, h))
      BY <1>4 DEF UpdateRemoveHost
    <2> DEFINE v == [u EXCEPT !.delhost = @ \ {h}]
               n == Disallowed(r, h)
    <2>2. v \in Updates
      BY <1>2, LeftFields
    <2>3. v.st = u.st /\ update' = [update EXCEPT ![g] = v]
      BY <1>2, <2>1 DEF Updates
    <2>4. Goes(r, u, n, v)
      BY <1>2, <2>1, RemoveGoes
    <2> HIDE DEF n, v
    <2> QED
      BY <1>1, <2>1, <2>2, <2>3, <2>4, DoesKept DEF n
  <1>5. CASE UpdateDrop(g)
    <2> DEFINE v == [u EXCEPT !.drop = {}]
               n == NewGateway
    <2>1. /\ update' = [update EXCEPT ![g] = v] /\ Does(g, r.sub = None, n)
          /\ u.delhost = {} /\ u.drop # {}
      BY <1>3, <1>5 DEF UpdateDrop
    <2>2. v \in Updates /\ v.st = u.st
      BY <1>2, LeftFields DEF Updates
    <2>3. Goes(r, u, n, v)
      BY <1>2, <2>1, DropGoes
    <2> HIDE DEF n, v
    <2> QED
      BY <1>1, <2>1, <2>2, <2>3, DoesKept
  <1>6. CASE UpdateCreate(g)
    <2> DEFINE v == [u EXCEPT !.add = {}]
               n == Created(r, u.st.sub.inst, u.st.sub.key)
    <2>1. /\ update' = [update EXCEPT ![g] = v] /\ Does(g, r.sub # None, n)
          /\ u.delhost = {} /\ u.drop = {} /\ u.add # {}
      BY <1>3, <1>6 DEF UpdateCreate
    <2>2. v \in Updates /\ v.st = u.st
      BY <1>2, LeftFields DEF Updates
    <2>3. ~(r.sub # None) => Goes(r, u, n, v)
      BY <1>2, <2>1, CreateGoes
    <2> HIDE DEF n, v
    <2> QED
      BY <1>1, <2>1, <2>2, <2>3, DoesKept
  <1>7. CASE UpdateAddHost(g)
    <2>1. PICK h \in u.addhost :
              /\ update' = [update EXCEPT ![g].addhost = @ \ {h}]
              /\ Does(g, NotAddable(r, h, u.st.hosts[h].key) \/ SpdkRefuses(r, h),
                         Allowed(r, h, u.st.hosts[h].psk, u.st.hosts[h].key, r.key))
      BY <1>7 DEF UpdateAddHost
    <2> DEFINE v == [u EXCEPT !.addhost = @ \ {h}]
               n == Allowed(r, h, u.st.hosts[h].psk, u.st.hosts[h].key, r.key)
               refused == NotAddable(r, h, u.st.hosts[h].key) \/ SpdkRefuses(r, h)
    <2>2. u.delhost = {} /\ u.drop = {} /\ u.add = {}
      BY <1>3, <1>7 DEF UpdateAddHost
    <2>3. v \in Updates
      BY <1>2, LeftFields
    <2>4. v.st = u.st /\ update' = [update EXCEPT ![g] = v]
      BY <1>2, <2>1 DEF Updates
    <2>5. ~refused => Goes(r, u, n, v)
      BY <1>2, <2>1, <2>2, AddGoes DEF SpdkRefuses
    <2>6. refused \in BOOLEAN /\ Does(g, refused, n)
      BY <2>1
    <2> HIDE DEF n, v, refused
    <2> QED
      BY <1>1, <2>3, <2>4, <2>5, <2>6, DoesKept
  <1>8. CASE UpdateSubsystemKey(g)
    <2> DEFINE v == [u EXCEPT !.subkey = {}]
               n == Rekeyed(r, u.st.sub.key)
    <2>1. /\ update' = [update EXCEPT ![g] = v] /\ Does(g, FALSE, n)
          /\ u.delhost = {} /\ u.drop = {} /\ u.add = {} /\ u.addhost = {} /\ u.subkey # {}
      BY <1>3, <1>8 DEF UpdateSubsystemKey, Rekeyed
    <2>2. v \in Updates /\ v.st = u.st
      BY <1>2, LeftFields DEF Updates
    <2>3. Goes(r, u, n, v)
      BY <1>2, <2>1, SubsystemKeyGoes
    <2> HIDE DEF n, v
    <2> QED
      BY <1>1, <2>1, <2>2, <2>3, DoesKept
  <1>9. CASE UpdateHostKey(g)
    <2>1. PICK h \in u.hostkey :
              /\ update' = [update EXCEPT ![g].hostkey = @ \ {h}]
              /\ Does(g, NotKeyable(r, u.st.hosts[h].key) \/ r.hosts[h] = None,
                         WithKey(r, h, u.st.hosts[h].key, r.key))
      BY <1>9 DEF UpdateHostKey
    <2> DEFINE v == [u EXCEPT !.hostkey = @ \ {h}]
               n == WithKey(r, h, u.st.hosts[h].key, r.key)
               refused == NotKeyable(r, u.st.hosts[h].key) \/ r.hosts[h] = None
    <2>2. u.delhost = {} /\ u.drop = {} /\ u.add = {} /\ u.addhost = {} /\ u.subkey = {}
      BY <1>3, <1>9 DEF UpdateHostKey
    <2>3. v \in Updates
      BY <1>2, LeftFields
    <2>4. v.st = u.st /\ update' = [update EXCEPT ![g] = v]
      BY <1>2, <2>1 DEF Updates
    <2>5. ~refused => Goes(r, u, n, v)
      BY <1>2, <2>1, <2>2, HostKeyGoes
    <2>6. refused \in BOOLEAN /\ Does(g, refused, n)
      BY <2>1
    <2> HIDE DEF n, v, refused
    <2> QED
      BY <1>1, <2>3, <2>4, <2>5, <2>6, DoesKept
  <1> QED
    BY SMTT(30), <1>4, <1>5, <1>6, <1>7, <1>8, <1>9 DEF UpdateStep

LEMMA StartUpdateKept ==
    ASSUME SaneInv, KeptInv, NEW g \in Gateways, StartUpdate(g)
    PROVE  KeptInv'
  <1> DEFINE u == PlannedUpdate(version, local[g].st, omap)
             left == LeavesOut(local[g].st, omap)
  <1>1. /\ update[g] = None /\ update' = [update EXCEPT ![g] = u]
        /\ troubled' = [troubled EXCEPT ![g] = @ \/ left]
        /\ omap' = omap /\ local' = local /\ gw' = gw /\ req' = req
    BY DEF StartUpdate, PlannedUpdate, omapVars, budgetVars
  <1>2. /\ version \in Nat /\ local[g].st \in Contents /\ omap \in Contents
        /\ gw[g] \in GatewayStates
    BY DEF SaneInv, AccessTypeOK
  <1>3. u \in Updates
    BY <1>2, PlannedUpdateType
  <1>4. u.st = omap
    BY DEF PlannedUpdate
  <1>5. ASSUME ~left, Bare(gw[g]), StarHasNoKey(local[g].st), StarHasNoKey(omap),
               NEW pending, Follows(gw[g], local[g].st, pending)
        PROVE  LeadsTo(gw[g], u, pending)
    BY <1>2, <1>5, StartLeads
  <1>6. left \in BOOLEAN
    BY DEF LeavesOut
  <1> HIDE DEF u, left
  <1>7. /\ update'[g] = u /\ (~troubled'[g] => ~troubled[g] /\ ~left)
        /\ \A k \in Gateways : k # g => update'[k] = update[k] /\ troubled'[k] = troubled[k]
    BY <1>1, <1>6 DEF SaneInv, AccessTypeOK
  <1>8. u # None
    BY <1>3, AccessNone
  <1>9. \A k \in Gateways : k # g => GatewayInv(k)'
    <2> SUFFICES ASSUME NEW k \in Gateways, k # g PROVE GatewayInv(k)'
      OBVIOUS
    <2>1. Pending(k)' = Pending(k)
      BY <1>1, SamePending
    <2>2. GatewayInv(k)
      BY DEF KeptInv
    <2> QED
      BY <1>1, <1>7, <2>1, <2>2, OthersKept
  <1>10. GatewayInv(g)'
    <2>1. Pending(g)' = Pending(g)
      BY <1>1, SamePending
    <2>2. GatewayInv(g) /\ StarHasNoKey(omap)
      BY DEF KeptInv
    <2>3. Bare(gw'[g]) /\ StarAt(g)'
      BY <1>1, <1>4, <1>7, <2>2 DEF GatewayInv, StarAt
    <2>4. FollowedAt(g)'
      BY <1>1, <1>5, <1>7, <1>8, <2>1, <2>2 DEF GatewayInv, StarAt, FollowedAt
    <2> QED
      BY <2>3, <2>4 DEF GatewayInv
  <1> QED
    BY <1>1, <1>9, <1>10 DEF KeptInv

LEMMA UpdateEndKept ==
    ASSUME SaneInv, KeptInv, NEW g \in Gateways, UpdateEnd(g)
    PROVE  KeptInv'
  <1> DEFINE u == update[g]
  <1>1. /\ u # None
        /\ local' = [local EXCEPT ![g] = [ver |-> u.ver, st |-> u.st]]
        /\ update' = [update EXCEPT ![g] = None]
        /\ omap' = omap /\ gw' = gw /\ req' = req /\ troubled' = troubled
    BY DEF UpdateEnd, Reached, omapVars
  <1>2. /\ u.delhost = {} /\ u.drop = {} /\ u.add = {} /\ u.addhost = {}
        /\ u.subkey = {} /\ u.hostkey = {}
    BY DEF UpdateEnd, Reached, Kinds
  <1>3. /\ local'[g].st = u.st /\ update'[g] = None
        /\ \A k \in Gateways : k # g => local'[k] = local[k] /\ update'[k] = update[k]
    BY <1>1 DEF SaneInv, AccessTypeOK
  <1>4. \A pending : LeadsTo(gw[g], u, pending) => Follows(gw[g], u.st, pending)
    BY <1>2, EndFollows
  <1>5. \A k \in Gateways : k # g => GatewayInv(k)'
    <2> SUFFICES ASSUME NEW k \in Gateways, k # g PROVE GatewayInv(k)'
      OBVIOUS
    <2>1. Pending(k)' = Pending(k)
      BY <1>1, SamePending
    <2>2. GatewayInv(k)
      BY DEF KeptInv
    <2> QED
      BY <1>1, <1>3, <2>1, <2>2, OthersKept
  <1>6. GatewayInv(g)'
    <2>1. Pending(g)' = Pending(g)
      BY <1>1, SamePending
    <2>2. GatewayInv(g)
      BY DEF KeptInv
    <2> QED
      BY <1>1, <1>3, <1>4, <2>1, <2>2 DEF GatewayInv, StarAt, FollowedAt
  <1> QED
    BY <1>1, <1>5, <1>6 DEF KeptInv

\* A request without the lock keeps the hosts that wait for it.
LEMMA UnlockedKept ==
    ASSUME SaneInv, KeptInv, NEW c \in Clients, Ask(c) \/ Check(c) \/ Retry(c)
    PROVE  KeptInv'
  <1>1. /\ omap' = omap /\ local' = local /\ gw' = gw /\ update' = update
        /\ troubled' = troubled
    BY DEF Ask, Check, Retry, omapVars
  <1>2. ASSUME NEW g
        PROVE  Pending(g)' = Pending(g)
    <2>1. CASE Ask(c)
      <3>1. PICK k \in Gateways, ask \in Asks :
                req' = [req EXCEPT ![c] =
                   [gw |-> k, ask |-> ask, inst |-> requests', waiting |-> FALSE,
                    ctrl |-> NoKey, psk |-> NoKey, host |-> None, todo |-> NoTodo]]
        BY <2>1 DEF Ask
      <3> DEFINE n == [gw |-> k, ask |-> ask, inst |-> requests', waiting |-> FALSE,
                       ctrl |-> NoKey, psk |-> NoKey, host |-> None, todo |-> NoTodo]
      <3>2. \A h \in Hosts : ~Waits(n, g, h) /\ ~Waits(req[c], g, h)
        BY <2>1, AccessNone DEF Ask, Waits, NoTodo
      <3>3. req'[c] = n /\ \A d \in Clients : d # c => req'[d] = req[d]
        BY <3>1 DEF SaneInv, AccessTypeOK
      <3>4. Pending(g)' = {h \in Hosts : \E d \in Clients : Waits(req'[d], g, h)}
        BY DEF Pending, Waits
      <3> HIDE DEF n
      <3> QED
        BY <3>2, <3>3, <3>4 DEF Pending
    <2>2. CASE Check(c) \/ Retry(c)
      <3>1. req[c] # None /\ req[c].host = None
        BY <2>2 DEF Check, Retry, SaneInv, RequestInv, Wellformed
      <3>2. CASE Answer(c)
        BY <3>1, <3>2, AnswerPending
      <3>3. CASE ~Answer(c)
        <4>1. /\ req'[c] # None /\ req'[c].gw = req[c].gw /\ req'[c].host = req[c].host
              /\ req'[c].todo = req[c].todo
              /\ \A d \in Clients : d # c => req'[d] = req[d]
          <5>1. req[c] \in Requests /\ req \in [Clients -> Requests \cup {None}]
            BY <3>1, LockedFields DEF SaneInv, AccessTypeOK
          <5>2. ASSUME NEW waiting \in BOOLEAN, NEW ctrl \in MaybeKeys, NEW psk \in Psks \cup {NoKey},
                       req' = [req EXCEPT ![c] = [req[c] EXCEPT !.waiting = waiting, !.ctrl = ctrl,
                                                                !.psk = psk]]
                PROVE  /\ req'[c] # None /\ req'[c].gw = req[c].gw
                       /\ req'[c].host = req[c].host /\ req'[c].todo = req[c].todo
                       /\ \A d \in Clients : d # c => req'[d] = req[d]
            <6> DEFINE n == [req[c] EXCEPT !.waiting = waiting, !.ctrl = ctrl, !.psk = psk]
            <6>1. /\ n.gw = req[c].gw /\ n.host = req[c].host /\ n.todo = req[c].todo
                  /\ n \in Requests
              BY <5>1 DEF Requests
            <6> HIDE DEF n
            <6>2. req'[c] = n /\ \A d \in Clients : d # c => req'[d] = req[d]
              BY <5>1, <5>2 DEF n
            <6> QED
              BY <6>1, <6>2, AccessNone
          <5>3. CASE Check(c)
            <6> DEFINE r == gw[req[c].gw]
                       psk == FoundPsk(r, req[c].ask)
            <6>1. req' = [req EXCEPT ![c].waiting = TRUE, ![c].ctrl = r.key, ![c].psk = psk]
              BY <3>3, <5>3 DEF Check
            <6>2. r \in GatewayStates
              BY <3>1, LockedFields DEF SaneInv
            <6>3. r.key \in MaybeKeys /\ psk \in Psks \cup {NoKey}
              <7>1. req[c].ask.op = "hostkey" => req[c].ask.host \in HostKeys
                BY <5>1, RequestFields DEF HostKeys
              <7> QED
                BY <6>2, <7>1, GatewayFields DEF FoundPsk
            <6> HIDE DEF psk
            <6> QED
              BY <5>2, <6>1, <6>3
          <5>4. CASE Retry(c)
            <6>1. req' = [req EXCEPT ![c].waiting = FALSE, ![c].ctrl = NoKey, ![c].psk = NoKey]
              BY <5>4 DEF Retry
            <6> QED
              BY <5>2, <6>1 DEF MaybeKeys
          <5> QED
            BY <2>2, <5>3, <5>4
        <4>2. \A d \in Clients : \A h \in Hosts : Waits(req'[d], g, h) <=> Waits(req[d], g, h)
          BY <3>1, <4>1 DEF Waits
        <4>3. Pending(g)' = {h \in Hosts : \E d \in Clients : Waits(req'[d], g, h)}
          BY DEF Pending, Waits
        <4> QED
          BY <4>2, <4>3 DEF Pending
      <3> QED
        BY <3>2, <3>3
    <2> QED
      BY <2>1, <2>2
  <1>3. \A k \in Gateways : GatewayInv(k)'
    <2> SUFFICES ASSUME NEW k \in Gateways PROVE GatewayInv(k)'
      OBVIOUS
    <2>1. Pending(k)' = Pending(k)
      BY <1>2
    <2>2. GatewayInv(k)
      BY DEF KeptInv
    <2> QED
      BY <1>1, <2>1, <2>2, OthersKept
  <1> QED
    BY <1>1, <1>3 DEF KeptInv

LEMMA CrashKept ==
    ASSUME SaneInv, KeptInv, NEW g \in Gateways, Crash(g)
    PROVE  KeptInv'
  <1>1. /\ gw' = [gw EXCEPT ![g] = NewGateway]
        /\ local' = [local EXCEPT ![g] = [ver |-> 1, st |-> EmptyContent]]
        /\ update' = [update EXCEPT ![g] = None]
        /\ req' = [c \in Clients |-> IF req[c] # None /\ req[c].gw = g THEN None ELSE req[c]]
        /\ troubled' = [troubled EXCEPT ![g] = FALSE]
        /\ omap' = omap
    BY DEF Crash, omapVars
  <1>2. /\ gw'[g] = NewGateway /\ local'[g].st = EmptyContent /\ update'[g] = None
        /\ \A k \in Gateways : k # g => /\ gw'[k] = gw[k] /\ local'[k] = local[k]
                                        /\ update'[k] = update[k]
                                        /\ troubled'[k] = troubled[k]
    BY <1>1 DEF SaneInv, AccessTypeOK
  <1>3. ASSUME NEW k \in Gateways, k # g
        PROVE  Pending(k)' = Pending(k)
    <2>1. \A c \in Clients : \A h \in Hosts : Waits(req'[c], k, h) <=> Waits(req[c], k, h)
      BY <1>1, <1>3 DEF Waits
    <2>2. Pending(k)' = {h \in Hosts : \E d \in Clients : Waits(req'[d], k, h)}
      BY DEF Pending, Waits
    <2> QED
      BY <2>1, <2>2 DEF Pending
  <1>4. \A k \in Gateways : k # g => GatewayInv(k)'
    <2> SUFFICES ASSUME NEW k \in Gateways, k # g PROVE GatewayInv(k)'
      OBVIOUS
    <2>1. Pending(k)' = Pending(k)
      BY <1>3
    <2>2. GatewayInv(k)
      BY DEF KeptInv
    <2> QED
      BY <1>1, <1>2, <2>1, <2>2, OthersKept
  <1>5. GatewayInv(g)'
    <2>1. /\ Bare(NewGateway) /\ StarHasNoKey(EmptyContent)
          /\ Follows(NewGateway, EmptyContent, Pending(g)')
      BY DeletedFollows
    <2> QED
      BY <1>2, <2>1 DEF GatewayInv, StarAt, FollowedAt
  <1> QED
    BY <1>1, <1>4, <1>5 DEF KeptInv

LEMMA HasLockKept ==
    ASSUME SaneInv, KeptInv, NEW c \in Clients, HasLock(c)
    PROVE  KeptInv'
  <1>1. req[c] # None /\ RequestEffect(c)
    BY HasLockEffect DEF SaneInv
  <1>2. PICK g : g = req[c].gw
    OBVIOUS
  <1>3. g \in Gateways
    BY <1>1, <1>2, LockedFields DEF SaneInv
  <1>4. Kept(g)
    BY <1>2, CreateSubsystemKept, DeleteSubsystemKept, AddHostKept, RemoveHostKept,
       ChangeHostKeyKept, ChangeSubsystemKeyKept, ChangeKeyOfHostKept DEF HasLock
  <1>5. /\ update' = update
        /\ \A k \in Gateways : k # g => /\ gw'[k] = gw[k] /\ local'[k] = local[k]
                                        /\ troubled'[k] = troubled[k]
    BY <1>1, <1>2, <1>3 DEF RequestEffect, Write, SaneInv, AccessTypeOK
  <1>6. ASSUME NEW k \in Gateways, k # g
        PROVE  GatewayInv(k)'
    <2>1. PICK n \in Requests \cup {None} : /\ n # None => n.gw = g
                                            /\ req' = [req EXCEPT ![c] = n]
      BY <1>1, <1>2 DEF RequestEffect
    <2>2. \A h \in Hosts : Waits(n, k, h) <=> Waits(req[c], k, h)
      BY <1>2, <1>6, <2>1 DEF Waits
    <2>3. Pending(k)' = Pending(k)
      BY <2>1, <2>2, PendingFields DEF SaneInv
    <2>4. GatewayInv(k)
      BY DEF KeptInv
    <2> QED
      BY <1>5, <1>6, <2>3, <2>4, OthersKept
  <1>7. GatewayInv(g)'
    <2>1. GatewayInv(g)
      BY <1>3 DEF KeptInv
    <2> QED
      BY <1>4, <1>5, <2>1 DEF Kept, GatewayInv, StarAt, FollowedAt
  <1> QED
    BY <1>4, <1>6, <1>7 DEF KeptInv, Kept

\* The group starts with what the OMAP holds.
LEMMA KeptInit == AccessInit => KeptInv
  <1> SUFFICES ASSUME AccessInit PROVE KeptInv
    OBVIOUS
  <1>1. /\ omap \in Starts /\ omap \in Contents
        /\ omap.hosts[Star] # None => omap.hosts[Star] = [psk |-> NoKey, key |-> NoKey]
        /\ omap.sub = None => omap = EmptyContent
    BY AccessStarts DEF AccessInit
  <1>2. StarHasNoKey(omap)
    BY <1>1 DEF StarHasNoKey
  <1> DEFINE entry(h) == [psk |-> omap.hosts[h].psk, key |-> omap.hosts[h].key,
                          ctrl |-> IF omap.hosts[h].key = NoKey THEN NoKey ELSE KeyOf(omap)]
  <1>3. /\ Serving(omap).sub = SubOf(omap) /\ Serving(omap).key = KeyOf(omap)
        /\ \A h \in HostKeys :
              Serving(omap).hosts[h] = IF omap.hosts[h] = None THEN None ELSE entry(h)
    BY DEF Serving, SubOf, KeyOf
  <1>4. KeyOf(omap) \in MaybeKeys
    BY <1>1, ContentFields DEF KeyOf, MaybeKeys
  <1>5. ASSUME NEW h \in HostKeys
        PROVE  FollowsAt(Serving(omap), omap, h, {})
    <2>1. CASE omap.hosts[h] = None
      BY <1>3, <2>1 DEF FollowsAt
    <2>2. CASE omap.hosts[h] # None
      <3>1. omap.hosts[h].psk \in Psks \cup {NoKey} /\ omap.hosts[h].key \in MaybeKeys
        BY <1>1, <2>2, ContentFields
      <3>2. entry(h) \in [psk : Psks \cup {NoKey}, key : MaybeKeys, ctrl : MaybeKeys]
        BY <1>4, <3>1 DEF MaybeKeys
      <3>3. entry(h) # None
        BY <3>2, AccessNone
      <3>4. /\ entry(h).psk = omap.hosts[h].psk /\ entry(h).key = omap.hosts[h].key
            /\ entry(h).ctrl = IF entry(h).key = NoKey THEN NoKey ELSE KeyOf(omap)
        OBVIOUS
      <3> HIDE DEF entry
      <3>5. Serving(omap).hosts[h] = entry(h)
        BY <1>3, <2>2
      <3> QED
        BY <1>3, <2>2, <3>3, <3>4, <3>5 DEF FollowsAt, Current
    <2> QED
      BY <2>1, <2>2
  <1>6. Follows(Serving(omap), omap, {})
    BY <1>3, <1>5 DEF Follows
  <1>7. Bare(Serving(omap))
    <2>1. ASSUME omap.sub = None
          PROVE  \A h \in HostKeys : Serving(omap).hosts[h] = None
      <3>1. omap.hosts = NoHosts
        BY <1>1, <2>1 DEF EmptyContent
      <3>2. \A h \in HostKeys : omap.hosts[h] = None
        BY <3>1 DEF NoHosts
      <3> HIDE DEF entry
      <3> QED
        BY <1>3, <3>2
    <2>2. omap.sub # None => Serving(omap).sub # None
      BY <1>1, <1>3, ContentFields, AccessNone DEF SubOf
    <2> QED
      BY <2>1, <2>2 DEF Bare
  <1>8. ASSUME NEW g \in Gateways
        PROVE  GatewayInv(g)
    <2>1. /\ gw[g] = Serving(omap) /\ update[g] = None /\ local[g].st = omap
          /\ \A c \in Clients : req[c] = None
      BY DEF AccessInit
    <2>2. Pending(g) = {}
      BY <2>1 DEF Pending, Waits
    <2> QED
      BY <1>2, <1>6, <1>7, <2>1, <2>2 DEF GatewayInv, StarAt, FollowedAt
  <1> QED
    BY <1>2, <1>8 DEF KeptInv

LEMMA KeptNext == SaneInv /\ KeptInv /\ [AccessNext]_accessVars => KeptInv'
  <1> SUFFICES ASSUME SaneInv, KeptInv, [AccessNext]_accessVars PROVE KeptInv'
    OBVIOUS
  <1>1. ASSUME NEW c \in Clients, HasLock(c) PROVE KeptInv'
    BY <1>1, HasLockKept
  <1>2. ASSUME NEW c \in Clients, Ask(c) \/ Check(c) \/ Retry(c) PROVE KeptInv'
    BY <1>2, UnlockedKept
  <1>3. ASSUME NEW g \in Gateways, UpdateStep(g) PROVE KeptInv'
    BY <1>3, StartUpdateKept, UpdateEndKept, UpdateStepKept
  <1>4. ASSUME NEW g \in Gateways, Crash(g) PROVE KeptInv'
    BY <1>4, CrashKept
  <1>5. CASE UNCHANGED accessVars
    <2>1. /\ omap' = omap /\ local' = local /\ gw' = gw /\ update' = update /\ req' = req
          /\ troubled' = troubled
      BY <1>5 DEF accessVars, omapVars
    <2>2. ASSUME NEW k \in Gateways PROVE GatewayInv(k)'
      <3>1. Pending(k)' = Pending(k)
        BY <2>1, SamePending
      <3>2. GatewayInv(k)
        BY DEF KeptInv
      <3> QED
        BY <2>1, <3>1, <3>2, OthersKept
    <2> QED
      BY <2>1, <2>2 DEF KeptInv
  <1> QED
    BY <1>1, <1>2, <1>3, <1>4, <1>5 DEF AccessNext, HasLock

\* Both invariants hold in every state.
LEMMA AlwaysKept == AccessSpec => [](SaneInv /\ KeptInv)
  <1>1. AccessInit => SaneInv /\ KeptInv
    BY SaneInit, KeptInit
  <1>2. SaneInv /\ KeptInv /\ [AccessNext]_accessVars => (SaneInv /\ KeptInv)'
    BY SaneNext, KeptNext
  <1> QED
    BY <1>1, <1>2, PTL DEF AccessSpec

(***************************************************************************)
(* What follows                                                            *)
(***************************************************************************)
\* What a request whose check still holds, of a gateway with the table r,
\* makes of the content st.
Checked(r, st, new) ==
    \/ r.sub = None /\ \E e : new = [st EXCEPT !.sub = e]
    \/ new = EmptyContent
    \/ \E h \in HostKeys : new = [st EXCEPT !.hosts[h] = None]
    \/ \E h \in HostKeys, psk \in Psks \cup {NoKey}, key \in MaybeKeys :
          /\ ~NotAddable(r, h, key)
          /\ new = [st EXCEPT !.hosts[h] = [psk |-> psk, key |-> key]]
    \/ \E h \in Hosts, psk \in Psks \cup {NoKey}, key \in MaybeKeys :
          /\ r.hosts[h] # None /\ (NotKeyable(r, key) => key = r.hosts[h].key)
          /\ new = [st EXCEPT !.hosts[h] = [psk |-> psk, key |-> key]]
    \/ \E inst, key :
          /\ st.sub # None /\ (key # NoKey => KeylessHosts(r, st) = {})
          /\ new = [st EXCEPT !.sub = [inst |-> inst, key |-> key]]

LEMMA CheckedWrite ==
    ASSUME SaneInv, KeptInv, NEW c \in Clients, HasLock(c), omap' # omap, ~Outdated(req[c])
    PROVE  ~Behind(req[c].gw) /\ Checked(gw[req[c].gw], omap, omap')
  <1> DEFINE q == req[c]
             g == q.gw
             r == gw[g]
             key == q.ask.key
  <1>1. \A k \in Gateways : ~Behind(k) => local[k].st = omap
    BY LockedKept
  <1>2. CASE CreateSubsystem(c)
    <2>1. ~Behind(g) /\ r.sub = None /\ \E e : omap' = [omap EXCEPT !.sub = e]
      BY <1>2 DEF CreateSubsystem, Effect, Succeeds, Breaks, Fails, Write, omapVars, Locked
    <2> QED
      BY <2>1 DEF Checked
  <1>3. CASE DeleteSubsystem(c)
    <2>1. ~Behind(g) /\ omap' = EmptyContent
      BY <1>3 DEF DeleteSubsystem, Removal, Effect, Succeeds, Breaks, Write, omapVars, Locked
    <2> QED
      BY <2>1 DEF Checked
  <1>4. CASE AddHost(c)
    <2>1. /\ Locked(c, "add")
          /\ omap' = [omap EXCEPT !.hosts[q.ask.host] = [psk |-> q.ask.psk, key |-> key]]
      BY <1>4 DEF AddHost, Effect, Succeeds, Breaks, Fails, Write, omapVars
    <2>2. q \in Requests /\ q.ask.op = "add" /\ ~Behind(g)
      BY <2>1, LockedStart
    <2>3. q.ask.host \in HostKeys /\ key \in MaybeKeys /\ q.ask.psk \in Psks \cup {NoKey}
      BY <2>2, RequestFields
    <2>4. ~NotAddable(r, q.ask.host, key)
      BY <2>2 DEF Outdated, Refused
    <2> QED
      BY <2>1, <2>2, <2>3, <2>4 DEF Checked
  <1>5. CASE RemoveHost(c)
    <2>1. Locked(c, "remove") /\ omap' = [omap EXCEPT !.hosts[q.ask.host] = None]
      BY <1>5 DEF RemoveHost, Removal, Effect, Succeeds, Breaks, Fails, Write, omapVars
    <2>2. q \in Requests /\ q.ask.op = "remove" /\ ~Behind(g)
      BY <2>1, LockedStart
    <2>3. q.ask.host \in HostKeys
      BY <2>2, RequestFields
    <2> QED
      BY <2>1, <2>2, <2>3 DEF Checked
  <1>6. CASE ChangeHostKey(c)
    <2>1. /\ Locked(c, "hostkey") /\ SpdkHas(r, q.ask.host)
          /\ omap' = [omap EXCEPT !.hosts[q.ask.host] = [psk |-> q.psk, key |-> key]]
      BY <1>6 DEF ChangeHostKey, Effect, Succeeds, Breaks, Fails, Write, omapVars
    <2>2. q \in Requests /\ q.ask.op = "hostkey" /\ ~Behind(g)
      BY <2>1, LockedStart
    <2>3. q.ask.host \in Hosts /\ key \in MaybeKeys /\ q.psk \in Psks \cup {NoKey}
      BY <2>2, RequestFields
    <2>4. ~NotKeyable(r, key) /\ r.hosts[q.ask.host] # None
      BY <2>1, <2>2 DEF Outdated, Refused, SpdkHas
    <2> QED
      BY <2>1, <2>2, <2>3, <2>4 DEF Checked
  <1>7. CASE ChangeSubsystemKey(c)
    <2> DEFINE st == local[g].st
    <2>1. /\ Locked(c, "subkey") /\ st.sub # None /\ (key # NoKey => KeylessHosts(r, st) = {})
          /\ omap' = [omap EXCEPT !.sub = [inst |-> st.sub.inst, key |-> key]]
      BY <1>7 DEF ChangeSubsystemKey, Succeeds, Breaks, Fails, Write, omapVars
    <2>2. ~Behind(g) /\ st = omap
      BY <2>1, LockedStart
    <2> QED
      BY <2>1, <2>2 DEF Checked
  <1>8. CASE ChangeKeyOfHost(c)
    <2>1. /\ q # None /\ q.host # None /\ ~Behind(g)
          /\ omap' = [omap EXCEPT !.hosts[q.host] = [psk |-> q.psk, key |-> key]]
      BY <1>8 DEF ChangeKeyOfHost, PassesOver, Succeeds, Write, omapVars
    <2>2. q \in Requests /\ q.ask.op = "subkey"
      BY <2>1, LockedFields DEF SaneInv, RequestInv, Wellformed
    <2>3. q.host \in Hosts /\ key \in MaybeKeys /\ q.psk \in Psks \cup {NoKey}
      BY <2>1, <2>2, RequestFields
    <2>4. /\ r.hosts[q.host] # None
          /\ r.hosts[q.host] = [psk |-> q.psk, key |-> key, ctrl |-> r.hosts[q.host].ctrl]
      BY <2>1 DEF Outdated
    <2>5. r.hosts[q.host].key = key
      BY <2>4
    <2> QED
      BY <2>1, <2>3, <2>4, <2>5 DEF Checked
  <1> QED
    BY SMTT(30), <1>2, <1>3, <1>4, <1>5, <1>6, <1>7, <1>8 DEF HasLock

\* A check that still holds leaves no keyless host next to a subsystem's key
\* where the table agrees with the content.
LEMMA CheckedKeys ==
    ASSUME NEW r \in GatewayStates, NEW st \in Contents, NEW pending, Bare(r),
           Follows(r, st, pending), NEW new, Checked(r, st, new), HasKeylessHost(new)
    PROVE  HasKeylessHost(st)
  <1>1. /\ r.sub = None <=> st.sub = None
        /\ st.sub = None => \A h \in HostKeys : st.hosts[h] = None
        /\ st.sub # None => r.key = st.sub.key
    BY FollowsFields DEF Follows, KeyOf
  <1>2. PICK k \in HostKeys : /\ new.sub # None /\ new.sub.key # NoKey
                              /\ new.hosts[k] # None /\ new.hosts[k].key = NoKey
    BY DEF HasKeylessHost
  <1>3. \A h \in Hosts : h \in HostKeys
    BY DEF HostKeys
  <1>4. CASE r.sub = None /\ \E e : new = [st EXCEPT !.sub = e]
    <2>1. new.hosts = st.hosts
      BY <1>4, WrittenSub
    <2> QED
      BY <1>1, <1>2, <1>4, <2>1
  <1>5. CASE new = EmptyContent
    BY <1>2, <1>5 DEF EmptyContent
  <1>6. CASE \E h \in HostKeys : new = [st EXCEPT !.hosts[h] = None]
    <2>1. PICK h \in HostKeys : new = [st EXCEPT !.hosts[h] = None]
      BY <1>6
    <2>2. new.sub = st.sub /\ new.hosts[k] = IF k = h THEN None ELSE st.hosts[k]
      BY <2>1, WrittenHost
    <2> QED
      BY <1>2, <2>2 DEF HasKeylessHost
  <1>7. CASE \E h \in HostKeys, psk \in Psks \cup {NoKey}, key \in MaybeKeys :
                /\ ~NotAddable(r, h, key)
                /\ new = [st EXCEPT !.hosts[h] = [psk |-> psk, key |-> key]]
    <2>1. PICK h \in HostKeys, psk \in Psks \cup {NoKey}, key \in MaybeKeys :
                /\ ~NotAddable(r, h, key)
                /\ new = [st EXCEPT !.hosts[h] = [psk |-> psk, key |-> key]]
      BY <1>7
    <2>2. /\ new.sub = st.sub
          /\ new.hosts[k] = IF k = h THEN [psk |-> psk, key |-> key] ELSE st.hosts[k]
      BY <2>1, WrittenHost
    <2>3. r.key # NoKey => key # NoKey
      BY <2>1 DEF NotAddable
    <2> QED
      BY <1>1, <1>2, <2>2, <2>3 DEF HasKeylessHost
  <1>8. CASE \E h \in Hosts, psk \in Psks \cup {NoKey}, key \in MaybeKeys :
                /\ r.hosts[h] # None /\ (NotKeyable(r, key) => key = r.hosts[h].key)
                /\ new = [st EXCEPT !.hosts[h] = [psk |-> psk, key |-> key]]
    <2>1. PICK h \in Hosts, psk \in Psks \cup {NoKey}, key \in MaybeKeys :
                /\ r.hosts[h] # None /\ (NotKeyable(r, key) => key = r.hosts[h].key)
                /\ new = [st EXCEPT !.hosts[h] = [psk |-> psk, key |-> key]]
      BY <1>8
    <2>2. /\ new.sub = st.sub
          /\ new.hosts[k] = IF k = h THEN [psk |-> psk, key |-> key] ELSE st.hosts[k]
      <3>1. h \in HostKeys
        BY <1>3
      <3> QED
        BY <2>1, <3>1, WrittenHost
    <2>3. st.hosts[h] # None /\ st.hosts[h].key = r.hosts[h].key
      BY <1>3, <2>1 DEF Follows, FollowsAt
    <2>4. r.key # NoKey /\ key = NoKey => key = r.hosts[h].key
      BY <2>1 DEF NotKeyable
    <2> QED
      BY <1>1, <1>2, <1>3, <2>2, <2>3, <2>4 DEF HasKeylessHost
  <1>9. CASE \E inst, key :
                /\ st.sub # None /\ (key # NoKey => KeylessHosts(r, st) = {})
                /\ new = [st EXCEPT !.sub = [inst |-> inst, key |-> key]]
    <2>1. PICK inst, key :
                /\ st.sub # None /\ (key # NoKey => KeylessHosts(r, st) = {})
                /\ new = [st EXCEPT !.sub = [inst |-> inst, key |-> key]]
      BY <1>9
    <2>2. new.sub.key = key /\ new.hosts = st.hosts
      BY <2>1, WrittenSub
    <2>3. k \notin Keyed(r)
      BY <1>2, <2>2 DEF Keyed, Known, Follows, FollowsAt
    <2> QED
      BY <1>2, <2>1, <2>2, <2>3 DEF KeylessHosts
  <1> QED
    BY <1>4, <1>5, <1>6, <1>7, <1>8, <1>9 DEF Checked

\* The same for the number of hosts: only an added host makes it larger, and
\* there was room for it.
LEMMA CheckedCount ==
    ASSUME NEW r \in GatewayStates, NEW st \in Contents, NEW pending, Bare(r),
           Follows(r, st, pending), NEW new, Checked(r, st, new)
    PROVE  HostCount(new) <= MaxHosts \/ HostCount(new) <= HostCount(st)
  <1> DEFINE hosts(s) == {h \in Hosts : s.hosts[h] # None}
  <1>1. Known(r) = hosts(st)
    BY FollowsFields
  <1>2. \A s : IsFiniteSet(hosts(s)) /\ HostCount(s) = Cardinality(hosts(s))
    BY AccessHosts, FS_Subset DEF HostCount
  <1>3. \A s : HostCount(s) \in Nat
    BY <1>2, FS_CardinalityType
  <1> HIDE DEF HostCount
  <1>4. \A h \in Hosts : h \in HostKeys
    BY DEF HostKeys
  <1>5. ASSUME hosts(new) \subseteq hosts(st)
        PROVE  HostCount(new) <= HostCount(st)
    BY <1>2, <1>5, FS_Subset
  <1>6. CASE new.hosts = st.hosts
    BY <1>5, <1>6
  <1>7. CASE new = EmptyContent
    <2>1. hosts(new) = {}
      BY <1>4, <1>7 DEF EmptyContent, NoHosts
    <2> QED
      BY <1>5, <2>1
  <1>8. CASE \E h \in HostKeys : new = [st EXCEPT !.hosts[h] = None]
    <2>1. hosts(new) \subseteq hosts(st)
      BY <1>4, <1>8, WrittenHost
    <2> QED
      BY <1>5, <2>1
  <1>9. CASE \E h \in HostKeys, psk \in Psks \cup {NoKey}, key \in MaybeKeys :
                /\ ~NotAddable(r, h, key)
                /\ new = [st EXCEPT !.hosts[h] = [psk |-> psk, key |-> key]]
    <2>1. PICK h \in HostKeys, psk \in Psks \cup {NoKey}, key \in MaybeKeys :
                /\ ~NotAddable(r, h, key)
                /\ new = [st EXCEPT !.hosts[h] = [psk |-> psk, key |-> key]]
      BY <1>9
    <2>2. \A k \in Hosts : k # h => new.hosts[k] = st.hosts[k]
      BY <1>4, <2>1, WrittenHost
    <2>3. CASE h = Star
      <3>1. hosts(new) \subseteq hosts(st)
        BY <2>2, <2>3, AccessKeys
      <3> QED
        BY <1>5, <3>1
    <2>4. CASE h # Star
      <3>1. hosts(new) \subseteq hosts(st) \cup {h}
        BY <2>2
      <3>2. IsFiniteSet(hosts(st) \cup {h}) /\ Cardinality(hosts(st) \cup {h}) <= HostCount(st) + 1
        <4>1. ASSUME NEW S, IsFiniteSet(S)
              PROVE  IsFiniteSet(S \cup {h}) /\ Cardinality(S \cup {h}) <= Cardinality(S) + 1
          <5> DEFINE more == S \cup {h}
          <5>1. Cardinality(S) \in Nat
            BY <4>1, FS_CardinalityType
          <5>2. /\ IsFiniteSet(more)
                /\ h \in S => more = S
                /\ h \notin S => Cardinality(more) = Cardinality(S) + 1
            BY <4>1, FS_AddElement
          <5> HIDE DEF more
          <5>3. Cardinality(more) <= Cardinality(S) + 1
            BY <5>1, <5>2
          <5> QED
            BY <5>2, <5>3 DEF more
        <4>2. IsFiniteSet(hosts(st)) /\ HostCount(st) = Cardinality(hosts(st))
          BY <1>2
        <4> HIDE DEF hosts
        <4> QED
          BY <4>1, <4>2
      <3>3. ~(HostCount(st) >= MaxHosts)
        BY <1>1, <1>2, <2>1, <2>4 DEF NotAddable
      <3> HIDE DEF hosts
      <3>4. Cardinality(hosts(new)) <= Cardinality(hosts(st) \cup {h})
        BY <3>1, <3>2, FS_Subset
      <3>5. Cardinality(hosts(st) \cup {h}) \in Nat
        BY <3>2, FS_CardinalityType
      <3> QED
        BY <1>2, <1>3, <3>2, <3>3, <3>4, <3>5, AccessBounds
    <2> QED
      BY <2>3, <2>4
  <1>10. CASE \E h \in Hosts, psk \in Psks \cup {NoKey}, key \in MaybeKeys :
                /\ r.hosts[h] # None
                /\ new = [st EXCEPT !.hosts[h] = [psk |-> psk, key |-> key]]
    <2>1. PICK h \in Hosts, psk \in Psks \cup {NoKey}, key \in MaybeKeys :
                /\ r.hosts[h] # None
                /\ new = [st EXCEPT !.hosts[h] = [psk |-> psk, key |-> key]]
      BY <1>10
    <2>2. \A k \in Hosts : k # h => new.hosts[k] = st.hosts[k]
      BY <1>4, <2>1, WrittenHost
    <2>3. h \in hosts(st)
      BY <1>1, <2>1 DEF Known
    <2>4. hosts(new) \subseteq hosts(st)
      BY <2>2, <2>3
    <2> QED
      BY <1>5, <2>4
  <1>11. (\E e : new = [st EXCEPT !.sub = e]) => new.hosts = st.hosts
    BY WrittenSub
  <1> HIDE DEF hosts
  <1> QED
    BY <1>6, <1>7, <1>8, <1>9, <1>10, <1>11 DEF Checked

\* What a request that was not overtaken writes, where its gateway's table agrees
\* with what the OMAP had.
LEMMA NotOvertaken ==
    ASSUME SaneInv, KeptInv, [AccessNext]_accessVars, omap' # omap,
           \A c \in Clients : ~Overtaken(c)
    PROVE  \E r \in GatewayStates : \E pending :
              Bare(r) /\ Follows(r, omap, pending) /\ Checked(r, omap, omap')
  <1>1. \A g \in Gateways : UpdateStep(g) \/ Crash(g) => omap' = omap
    BY DEF UpdateStep, StartUpdate, UpdateRemoveHost, UpdateDrop, UpdateCreate, UpdateAddHost,
       UpdateSubsystemKey, UpdateHostKey, UpdateEnd, Crash, Does, omapVars
  <1>2. \A c \in Clients : Ask(c) \/ Check(c) \/ Retry(c) => omap' = omap
    BY DEF Ask, Check, Retry, omapVars
  <1>3. PICK c \in Clients : HasLock(c)
    BY <1>1, <1>2 DEF AccessNext, HasLock, accessVars, omapVars
  <1>4. ~troubled[req[c].gw] /\ ~Outdated(req[c])
    BY <1>3 DEF Overtaken
  <1>5. ~Behind(req[c].gw) /\ Checked(gw[req[c].gw], omap, omap')
    BY <1>3, <1>4, CheckedWrite
  <1>6. req[c] # None
    BY <1>3, HasLockEffect DEF SaneInv
  <1>7. req[c].gw \in Gateways /\ gw[req[c].gw] \in GatewayStates
    BY <1>6, LockedFields DEF SaneInv
  <1>8. Bare(gw[req[c].gw]) /\ Follows(gw[req[c].gw], omap, Pending(req[c].gw))
    BY <1>4, <1>5, <1>7, LockedKept
  <1> QED
    BY <1>5, <1>7, <1>8

\* A subsystem with a key comes to have a host without one, not even "*", only
\* by a request that goes on at a gateway gone wrong before, or although its
\* check would fail by then: add_host, change_host_key and change_subsystem_key
\* check one gateway's table before they wait for the lock (KeyedSubsystems).
\* What other gateways have written meanwhile does no harm.
THEOREM SubsystemsAreKeyed == AccessSpec => KeyedSubsystems
  <1> DEFINE Keeps == HasKeylessHost(omap') /\ ~HasKeylessHost(omap) =>
                         \E c \in Clients : Overtaken(c)
  <1>1. SaneInv /\ KeptInv /\ [AccessNext]_accessVars => Keeps
    <2> SUFFICES ASSUME SaneInv, KeptInv, [AccessNext]_accessVars,
                        HasKeylessHost(omap'), ~HasKeylessHost(omap),
                        \A c \in Clients : ~Overtaken(c)
                 PROVE  FALSE
      OBVIOUS
    <2>1. omap' # omap /\ omap \in Contents
      BY DEF SaneInv, AccessTypeOK
    <2>2. PICK r \in GatewayStates :
              \E pending : Bare(r) /\ Follows(r, omap, pending) /\ Checked(r, omap, omap')
      BY <2>1, NotOvertaken
    <2> QED
      BY <2>1, <2>2, CheckedKeys
  <1>2. SaneInv /\ KeptInv /\ [AccessNext]_accessVars => [Keeps]_accessVars
    BY <1>1
  <1> QED
    BY <1>2, AlwaysKept, PTL DEF KeyedSubsystems, AccessSpec

\* The hosts come to be more than max_hosts_per_subsystem, or more still, only in
\* that way, though each gateway counts the hosts of its own table
\* (HostsAreLimited).
THEOREM HostLimitIsKept == AccessSpec => HostsAreLimited
  <1> DEFINE Keeps == HostCount(omap') > MaxHosts /\ HostCount(omap') > HostCount(omap) =>
                         \E c \in Clients : Overtaken(c)
  <1>1. SaneInv /\ KeptInv /\ [AccessNext]_accessVars => Keeps
    <2> SUFFICES ASSUME SaneInv, KeptInv, [AccessNext]_accessVars,
                        HostCount(omap') > MaxHosts, HostCount(omap') > HostCount(omap),
                        \A c \in Clients : ~Overtaken(c)
                 PROVE  FALSE
      OBVIOUS
    <2>1. HostCount(omap) \in Nat /\ HostCount(omap') \in Nat
      <3>1. \A s : IsFiniteSet({h \in Hosts : s.hosts[h] # None})
        BY AccessHosts, FS_Subset
      <3> QED
        BY <3>1, FS_CardinalityType DEF HostCount
    <2>2. omap' # omap /\ omap \in Contents
      BY <2>1 DEF SaneInv, AccessTypeOK
    <2>3. PICK r \in GatewayStates :
              \E pending : Bare(r) /\ Follows(r, omap, pending) /\ Checked(r, omap, omap')
      BY <2>2, NotOvertaken
    <2>4. HostCount(omap') <= MaxHosts \/ HostCount(omap') <= HostCount(omap)
      BY <2>2, <2>3, CheckedCount
    <2> QED
      BY <2>1, <2>4, AccessBounds
  <1>2. SaneInv /\ KeptInv /\ [AccessNext]_accessVars => [Keeps]_accessVars
    BY <1>1
  <1> QED
    BY <1>2, AlwaysKept, PTL DEF HostsAreLimited, AccessSpec

\* Where nothing has gone wrong SPDK has no host that the OMAP does not have, and
\* so a change of keys that it accepts does not write one back, not even when
\* its own check is outdated (RemovedHostsStayOut).
THEOREM RemovalsLast == AccessSpec => RemovedHostsStayOut
  <1> DEFINE Stays ==
        \A c \in Clients :
          (ChangeHostKey(c) \/ ChangeKeyOfHost(c)) /\ ~troubled[req[c].gw] =>
              \A h \in Hosts : omap.hosts[h] = None => omap'.hosts[h] = None
  <1>1. SaneInv /\ KeptInv => Stays
    <2> SUFFICES ASSUME SaneInv, KeptInv, NEW c \in Clients,
                        ChangeHostKey(c) \/ ChangeKeyOfHost(c), NEW g, g = req[c].gw,
                        ~troubled[g], NEW h \in Hosts, omap.hosts[h] = None
                 PROVE  omap'.hosts[h] = None
      OBVIOUS
    <2>1. \/ omap' = omap
          \/ \E k, e : /\ SpdkHas(gw[g], k) /\ ~Behind(g) /\ omap' = [omap EXCEPT !.hosts[k] = e]
                      /\ \/ k = req[c].ask.host /\ req[c].ask.op = "hostkey"
                         \/ k = req[c].host /\ req[c].host # None
      <3>1. CASE ChangeHostKey(c)
        BY SMTT(30), <3>1 DEF ChangeHostKey, Effect, Succeeds, Breaks, Fails, Write, omapVars, Locked
      <3>2. CASE ChangeKeyOfHost(c)
        BY <3>2 DEF ChangeKeyOfHost, PassesOver, Succeeds, Write, omapVars
      <3> QED
        BY <3>1, <3>2
    <2>2. req[c] # None /\ req[c] \in Requests /\ g \in Gateways /\ omap \in Contents
      BY LockedFields DEF ChangeHostKey, ChangeKeyOfHost, Locked, SaneInv, AccessTypeOK
    <2>3. CASE omap' = omap
      BY <2>3
    <2>4. CASE omap' # omap
      <3>1. PICK k, e : /\ SpdkHas(gw[g], k) /\ ~Behind(g) /\ omap' = [omap EXCEPT !.hosts[k] = e]
                        /\ \/ k = req[c].ask.host /\ req[c].ask.op = "hostkey"
                           \/ k = req[c].host /\ req[c].host # None
        BY <2>1, <2>4
      <3>2. k \in Hosts /\ k \in HostKeys /\ h \in HostKeys
        BY <2>2, <3>1, RequestFields DEF HostKeys
      <3>3. omap.hosts[k] # None
        BY <2>2, <3>1, <3>2, LockedKept DEF Follows, FollowsAt, SpdkHas
      <3> QED
        BY <2>2, <3>1, <3>2, <3>3, WrittenHost
    <2> QED
      BY <2>3, <2>4
  <1>2. SaneInv /\ KeptInv => [Stays]_accessVars
    BY <1>1
  <1> QED
    BY <1>2, AlwaysKept, PTL DEF RemovedHostsStayOut

\* When all is answered and up to date every gateway where nothing has gone wrong
\* serves exactly what the OMAP says (AccessFollowsAtRest): the subsystem with its key,
\* its hosts with theirs, and for each host that has a key the subsystem's as
\* the controller's, whether the requests brought them or update().
THEOREM AccessFollows == AccessSpec => []AccessFollowsAtRest
  <1>1. SaneInv /\ KeptInv => AccessFollowsAtRest
    <2> SUFFICES ASSUME SaneInv, KeptInv, AtRest, NEW g \in Gateways, ~troubled[g]
                 PROVE  gw[g] = Serving(omap)
      BY DEF AccessFollowsAtRest
    <2>1. ~Behind(g) /\ \A c \in Clients : req[c] = None
      BY DEF AtRest
    <2>2. Pending(g) = {}
      BY <2>1 DEF Pending, Waits
    <2>3. Follows(gw[g], omap, {})
      BY <2>1, <2>2, LockedKept
    <2>4. omap \in Contents /\ gw[g] \in GatewayStates
      BY DEF SaneInv, AccessTypeOK
    <2> DEFINE r == gw[g]
               entry(h) == [psk |-> omap.hosts[h].psk, key |-> omap.hosts[h].key,
                            ctrl |-> IF omap.hosts[h].key = NoKey THEN NoKey ELSE KeyOf(omap)]
    <2>5. ASSUME NEW h \in HostKeys
          PROVE  r.hosts[h] = IF omap.hosts[h] = None THEN None ELSE entry(h)
      <3>1. CASE omap.hosts[h] = None
        BY <2>3, <3>1 DEF Follows, FollowsAt
      <3>2. CASE omap.hosts[h] # None
        <4>1. /\ r.hosts[h] # None /\ r.hosts[h].psk = omap.hosts[h].psk
              /\ r.hosts[h].key = omap.hosts[h].key /\ Current(r, h, {})
          BY <2>3, <3>2 DEF Follows, FollowsAt
        <4>2. r.key = KeyOf(omap)
          BY <2>3 DEF Follows
        <4>3. r.hosts[h].ctrl = IF omap.hosts[h].key = NoKey THEN NoKey ELSE KeyOf(omap)
          BY <4>1, <4>2 DEF Current
        <4>4. r.hosts[h] \in [psk : Psks \cup {NoKey}, key : MaybeKeys, ctrl : MaybeKeys]
          BY <2>4, <4>1 DEF GatewayStates
        <4>5. r.hosts[h] = [psk |-> r.hosts[h].psk, key |-> r.hosts[h].key,
                            ctrl |-> r.hosts[h].ctrl]
          BY <4>4
        <4> QED
          BY <3>2, <4>1, <4>3, <4>5
      <3> QED
        BY <3>1, <3>2
    <2>6. r.hosts \in [HostKeys -> [psk : Psks \cup {NoKey}, key : MaybeKeys, ctrl : MaybeKeys]
                                  \cup {None}]
          /\ r = [sub |-> r.sub, key |-> r.key, hosts |-> r.hosts]
      BY <2>4 DEF GatewayStates
    <2>7. r.sub = SubOf(omap) /\ r.key = KeyOf(omap)
      BY <2>3 DEF Follows
    <2> DEFINE hosts == [h \in HostKeys |-> IF omap.hosts[h] = None THEN None ELSE entry(h)]
    <2>8. r.hosts = hosts
      <3> HIDE DEF entry
      <3>1. hosts = [h \in HostKeys |-> r.hosts[h]]
        BY <2>5
      <3> QED
        BY <2>6, <3>1
    <2>9. Serving(omap) = [sub |-> SubOf(omap), key |-> KeyOf(omap), hosts |-> hosts]
      BY DEF Serving, SubOf, KeyOf
    <2> HIDE DEF hosts, entry
    <2> QED
      BY <2>6, <2>7, <2>8, <2>9
  <1> QED
    BY <1>1, AlwaysKept, PTL

=============================================================================

----------------------- MODULE NamespaceEntriesProofs -----------------------
(***************************************************************************)
(* Proofs about NamespaceEntries for every number of gateways, clients,    *)
(* IDs, groups, limits, hosts, requests, faults and crashes.               *)
(***************************************************************************)
EXTENDS NamespaceEntries, FiniteSetTheorems, TLAPS

(***************************************************************************)
(* What the calls do, field by field                                       *)
(***************************************************************************)
SpdkOf(e) == [inst |-> e.inst, grp |-> e.grp, vis |-> e.vis]
Listed(e, hosts) ==
    [inst |-> e.inst, grp |-> e.grp, vis |-> e.vis, trash |-> e.trash, hosts |-> hosts]
Gateway(list, spdk, bdev, load) ==
    [list |-> list, spdk |-> spdk, bdev |-> bdev, load |-> load]
AtFound(r, i, found) == r.list[i] # None /\ r.list[i].inst = found

\* a gateway's tables, each with its type
LEMMA GatewayFields ==
    ASSUME NEW r \in GatewayStates
    PROVE  /\ r.list \in [Ids -> ListEntries \cup {None}]
           /\ r.spdk \in [Ids -> SpdkEntries \cup {None}]
           /\ r.bdev \in [Insts -> Limited \cup {None}]
           /\ r.load \in [Groups \cup {0} -> Int]
           /\ r = Gateway(r.list, r.spdk, r.bdev, r.load)
  BY DEF GatewayStates, Gateway

\* r with other values of its fields
With(r, L, S, B, D) == [r EXCEPT !.spdk = S, !.list = L, !.bdev = B, !.load = D]
WithList(r, L) == [r EXCEPT !.list = L]
WithSpdk(r, S) == [r EXCEPT !.spdk = S]
WithBdev(r, B) == [r EXCEPT !.bdev = B]
WithLoad(r, D) == [r EXCEPT !.load = D]

LEMMA WithFields ==
    ASSUME NEW L, NEW S, NEW B, NEW D, NEW v
    PROVE  /\ WithList(Gateway(L, S, B, D), v) = Gateway(v, S, B, D)
           /\ WithSpdk(Gateway(L, S, B, D), v) = Gateway(L, v, B, D)
           /\ WithBdev(Gateway(L, S, B, D), v) = Gateway(L, S, v, D)
           /\ WithLoad(Gateway(L, S, B, D), v) = Gateway(L, S, B, v)
  <1>1. WithList(Gateway(L, S, B, D), v) = Gateway(v, S, B, D)
    BY SMTT(30) DEF Gateway, WithList
  <1>2. WithSpdk(Gateway(L, S, B, D), v) = Gateway(L, v, B, D)
    BY SMTT(30) DEF Gateway, WithSpdk
  <1>3. WithBdev(Gateway(L, S, B, D), v) = Gateway(L, S, v, D)
    BY SMTT(30) DEF Gateway, WithBdev
  <1>4. WithLoad(Gateway(L, S, B, D), v) = Gateway(L, S, B, v)
    BY SMTT(30) DEF Gateway, WithLoad
  <1> QED
    BY <1>1, <1>2, <1>3, <1>4, Zenon

LEMMA WithAll ==
    ASSUME NEW r, NEW L0, NEW S0, NEW B0, NEW D0, r = Gateway(L0, S0, B0, D0),
           NEW L, NEW S, NEW B, NEW D
    PROVE  With(r, L, S, B, D) = Gateway(L, S, B, D)
  <1>1. With(r, L, S, B, D) = WithLoad(WithBdev(WithList(WithSpdk(r, S), L), B), D)
    BY DEF With, WithLoad, WithBdev, WithList, WithSpdk
  <1>2. WithSpdk(r, S) = Gateway(L0, S, B0, D0)
    BY WithFields
  <1>3. WithList(WithSpdk(r, S), L) = Gateway(L, S, B0, D0)
    BY <1>2, WithFields
  <1>4. WithBdev(WithList(WithSpdk(r, S), L), B) = Gateway(L, S, B, D0)
    BY <1>3, WithFields
  <1> QED
    BY <1>1, <1>4, WithFields

LEMMA GatewayIsState ==
    ASSUME NEW list \in [Ids -> ListEntries \cup {None}],
           NEW spdk \in [Ids -> SpdkEntries \cup {None}],
           NEW bdev \in [Insts -> Limited \cup {None}],
           NEW load \in [Groups \cup {0} -> Int]
    PROVE  /\ Gateway(list, spdk, bdev, load) \in GatewayStates
           /\ Gateway(list, spdk, bdev, load).list = list
           /\ Gateway(list, spdk, bdev, load).spdk = spdk
           /\ Gateway(list, spdk, bdev, load).bdev = bdev
           /\ Gateway(list, spdk, bdev, load).load = load
  BY DEF GatewayStates, Gateway

\* a key's value is made of its four fields
LEMMA EntryFields ==
    ASSUME NEW e \in Entries
    PROVE  /\ e.inst \in Insts /\ e.grp \in Groups /\ e.vis \in BOOLEAN /\ e.trash \in BOOLEAN
           /\ e # None
           /\ SpdkOf(e) \in SpdkEntries /\ SpdkOf(e) # None
           /\ \A hosts \in SUBSET Hosts : Listed(e, hosts) \in ListEntries
           /\ \A hosts : Listed(e, hosts).inst = e.inst /\ Listed(e, hosts).hosts = hosts
           /\ \A hosts : Listed(e, hosts).grp = e.grp /\ Listed(e, hosts).vis = e.vis
           /\ \A hosts : Listed(e, hosts).trash = e.trash
  <1>1. e.inst \in Insts /\ e.grp \in Groups /\ e.vis \in BOOLEAN /\ e.trash \in BOOLEAN
    BY DEF Entries
  <1>2. SpdkOf(e) \in SpdkEntries
    BY <1>1 DEF SpdkOf, SpdkEntries
  <1>3. \A hosts \in SUBSET Hosts : Listed(e, hosts) \in ListEntries
    BY <1>1 DEF Listed, ListEntries
  <1> QED
    BY <1>1, <1>2, <1>3, EntryNone, GatewayNone DEF Listed

LEMMA ListEntryFields ==
    ASSUME NEW e \in ListEntries
    PROVE  /\ e.inst \in Insts /\ e.grp \in Groups /\ e.vis \in BOOLEAN /\ e.trash \in BOOLEAN
           /\ e.hosts \in SUBSET Hosts
           /\ e # None /\ e.inst # None
           /\ e = Listed(e, e.hosts)
  <1>1. /\ e.inst \in Insts /\ e.grp \in Groups /\ e.vis \in BOOLEAN /\ e.trash \in BOOLEAN
        /\ e.hosts \in SUBSET Hosts
        /\ e = Listed(e, e.hosts)
    BY DEF ListEntries, Listed
  <1>2. e.inst # None
    BY <1>1, EntryNone, EntryBounds DEF Insts
  <1> QED
    BY <1>1, <1>2, GatewayNone

LEMMA NoLimitsIsLimited == NoLimits \in Limited /\ NoLimits # None
  BY EntryNone DEF NoLimits, Limited

LEMMA GroupsAreNotZero == 0 \notin Groups /\ Groups \subseteq Groups \cup {0}
  BY EntryIds

\* r is the gateway with these fields
Has(r, L, S, B, D) ==
    /\ r = Gateway(L, S, B, D) /\ r \in GatewayStates
    /\ r.list = L /\ r.spdk = S /\ r.bdev = B /\ r.load = D

\* the tables of a gateway that has been given as its four parts
LEMMA HasFields ==
    ASSUME NEW L \in [Ids -> ListEntries \cup {None}],
           NEW S \in [Ids -> SpdkEntries \cup {None}],
           NEW B \in [Insts -> Limited \cup {None}],
           NEW D \in [Groups \cup {0} -> Int],
           NEW r, r = Gateway(L, S, B, D)
    PROVE  Has(r, L, S, B, D)
  BY GatewayIsState DEF Has

\* create_namespace: entry, namespace, bdev without limits, one more in its group
LEMMA ServeIs ==
    ASSUME NEW r \in GatewayStates, NEW i \in Ids, NEW e \in Entries
    PROVE  Has(Serve(r, i, e),
               [r.list EXCEPT ![i] = Listed(e, {})],
               [r.spdk EXCEPT ![i] = SpdkOf(e)],
               [r.bdev EXCEPT ![e.inst] = NoLimits],
               [r.load EXCEPT ![e.grp] = @ + 1])
  <1> DEFINE list == [r.list EXCEPT ![i] = Listed(e, {})]
             spdk == [r.spdk EXCEPT ![i] = SpdkOf(e)]
             bdev == [r.bdev EXCEPT ![e.inst] = NoLimits]
             load == [r.load EXCEPT ![e.grp] = @ + 1]
  <1>1. Serve(r, i, e) = Gateway(list, spdk, bdev, load)
    <2> DEFINE x == SpdkOf(e)
               y == Listed(e, {})
               n == e.inst
               b == e.grp
    <2>1. Serve(r, i, e) = [r EXCEPT !.spdk[i] = x, !.list[i] = y, !.bdev[n] = NoLimits,
                                     !.load[b] = @ + 1]
      BY DEF Serve, SpdkOf, Listed
    <2> HIDE DEF x, y, n, b
    <2>2. Serve(r, i, e)
             = With(r, [r.list EXCEPT ![i] = y], [r.spdk EXCEPT ![i] = x],
                    [r.bdev EXCEPT ![n] = NoLimits], [r.load EXCEPT ![b] = @ + 1])
      BY <2>1 DEF With
    <2>3. \A S, L, B, D : With(r, L, S, B, D) = Gateway(L, S, B, D)
      <3>1. r = Gateway(r.list, r.spdk, r.bdev, r.load)
        BY GatewayFields
      <3> QED
        BY WithAll, <3>1
    <2> QED
      BY <2>2, <2>3 DEF x, y, n, b
  <1>2. /\ r.list \in [Ids -> ListEntries \cup {None}]
        /\ r.spdk \in [Ids -> SpdkEntries \cup {None}]
        /\ r.bdev \in [Insts -> Limited \cup {None}]
        /\ r.load \in [Groups \cup {0} -> Int]
    BY GatewayFields
  <1>3. Listed(e, {}) \in ListEntries /\ SpdkOf(e) \in SpdkEntries /\ e.grp \in Groups
    BY EntryFields
  <1>4. list \in [Ids -> ListEntries \cup {None}]
    BY <1>2, <1>3
  <1>5. spdk \in [Ids -> SpdkEntries \cup {None}]
    BY <1>2, <1>3
  <1>6. bdev \in [Insts -> Limited \cup {None}]
    BY <1>2, NoLimitsIsLimited
  <1>7. load \in [Groups \cup {0} -> Int]
    BY <1>2, <1>3
  <1> HIDE DEF list, spdk, bdev, load
  <1>8. Has(Serve(r, i, e), list, spdk, bdev, load)
    BY <1>1, <1>4, <1>5, <1>6, <1>7, HasFields
  <1> QED
    BY <1>8 DEF list, spdk, bdev, load

\* the list of r when a request changes the entry it has found to e
ListSet(r, i, found, e) == IF AtFound(r, i, found) THEN [r.list EXCEPT ![i] = e] ELSE r.list

\* setting a field of the entry under an ID changes one entry, if it is the one found
LEMMA SetFoundIs ==
    ASSUME NEW r \in GatewayStates, NEW i \in Ids, NEW found, NEW e,
           AtFound(r, i, found) => e \in ListEntries
    PROVE  Has(SetFound(r, i, found, e), ListSet(r, i, found, e), r.spdk, r.bdev, r.load)
  <1>1. r = Gateway(r.list, r.spdk, r.bdev, r.load)
    BY GatewayFields
  <1>2. [r EXCEPT !.list[i] = e] = Gateway([r.list EXCEPT ![i] = e], r.spdk, r.bdev, r.load)
    <2>1. [r EXCEPT !.list[i] = e] = WithList(r, [r.list EXCEPT ![i] = e])
      BY DEF WithList
    <2> QED
      BY <2>1, <1>1, WithFields
  <1>3. SetFound(r, i, found, e) = Gateway(ListSet(r, i, found, e), r.spdk, r.bdev, r.load)
    BY <1>1, <1>2 DEF SetFound, AtFound, ListSet
  <1>4. ListSet(r, i, found, e) \in [Ids -> ListEntries \cup {None}]
    BY GatewayFields DEF ListSet
  <1> QED
    BY <1>3, <1>4, GatewayFields, HasFields

\* an entry with another value of one field
Entered(inst, grp, vis, trash, hosts) ==
    [inst |-> inst, grp |-> grp, vis |-> vis, trash |-> trash, hosts |-> hosts]
Shown(e, vis, hosts) == [e EXCEPT !.vis = vis, !.hosts = hosts]
Served(inst, grp, vis) == [inst |-> inst, grp |-> grp, vis |-> vis]

LEMMA ListEntryWith ==
    ASSUME NEW e \in ListEntries
    PROVE  /\ \A grp \in Groups :
                 [e EXCEPT !.grp = grp] = Entered(e.inst, grp, e.vis, e.trash, e.hosts)
           /\ \A vis \in BOOLEAN, hosts \in SUBSET Hosts :
                 Shown(e, vis, hosts) = Entered(e.inst, e.grp, vis, e.trash, hosts)
           /\ \A trash \in BOOLEAN :
                 [e EXCEPT !.trash = trash] = Entered(e.inst, e.grp, e.vis, trash, e.hosts)
           /\ \A hosts \in SUBSET Hosts :
                 [e EXCEPT !.hosts = hosts] = Entered(e.inst, e.grp, e.vis, e.trash, hosts)
           /\ e = Entered(e.inst, e.grp, e.vis, e.trash, e.hosts)
  <1>1. ASSUME NEW grp \in Groups
        PROVE  [e EXCEPT !.grp = grp] = Entered(e.inst, grp, e.vis, e.trash, e.hosts)
    BY SMTT(30) DEF ListEntries, Entered
  <1>2. ASSUME NEW vis \in BOOLEAN, NEW hosts \in SUBSET Hosts
        PROVE  Shown(e, vis, hosts) = Entered(e.inst, e.grp, vis, e.trash, hosts)
    <2> DEFINE shown == [e EXCEPT !.vis = vis]
    <2>1. shown = Entered(e.inst, e.grp, vis, e.trash, e.hosts)
      BY SMTT(30) DEF ListEntries, Entered
    <2>2. [e EXCEPT !.vis = vis, !.hosts = hosts] = [shown EXCEPT !.hosts = hosts]
      OBVIOUS
    <2> HIDE DEF shown
    <2>3. [shown EXCEPT !.hosts = hosts] = Entered(e.inst, e.grp, vis, e.trash, hosts)
      BY <2>1, SMTT(30) DEF Entered
    <2> QED
      BY <2>2, <2>3 DEF Shown
  <1>3. ASSUME NEW trash \in BOOLEAN
        PROVE  [e EXCEPT !.trash = trash] = Entered(e.inst, e.grp, e.vis, trash, e.hosts)
    BY SMTT(30) DEF ListEntries, Entered
  <1>4. ASSUME NEW hosts \in SUBSET Hosts
        PROVE  [e EXCEPT !.hosts = hosts] = Entered(e.inst, e.grp, e.vis, e.trash, hosts)
    BY SMTT(30) DEF ListEntries, Entered
  <1>5. e = Entered(e.inst, e.grp, e.vis, e.trash, e.hosts)
    BY SMTT(30) DEF ListEntries, Entered
  <1> QED
    BY <1>1, <1>2, <1>3, <1>4, <1>5

LEMMA EnteredFields ==
    ASSUME NEW inst \in Insts, NEW grp \in Groups, NEW vis \in BOOLEAN,
           NEW trash \in BOOLEAN, NEW hosts \in SUBSET Hosts
    PROVE  LET e == Entered(inst, grp, vis, trash, hosts)
           IN  /\ e \in ListEntries /\ e # None
               /\ e.inst = inst /\ e.grp = grp /\ e.vis = vis /\ e.trash = trash
               /\ e.hosts = hosts
  BY GatewayNone DEF Entered, ListEntries

LEMMA SpdkEntryWith ==
    ASSUME NEW e \in SpdkEntries
    PROVE  /\ \A grp \in Groups : [e EXCEPT !.grp = grp] = Served(e.inst, grp, e.vis)
           /\ \A vis \in BOOLEAN : [e EXCEPT !.vis = vis] = Served(e.inst, e.grp, vis)
           /\ e = Served(e.inst, e.grp, e.vis)
           /\ e.inst \in Insts /\ e.grp \in Groups /\ e.vis \in BOOLEAN /\ e # None
  <1>1. ASSUME NEW grp \in Groups
        PROVE  [e EXCEPT !.grp = grp] = Served(e.inst, grp, e.vis)
    BY SMTT(30) DEF SpdkEntries, Served
  <1>2. ASSUME NEW vis \in BOOLEAN
        PROVE  [e EXCEPT !.vis = vis] = Served(e.inst, e.grp, vis)
    BY SMTT(30) DEF SpdkEntries, Served
  <1>3. e = Served(e.inst, e.grp, e.vis)
    BY SMTT(30) DEF SpdkEntries, Served
  <1>4. e.inst \in Insts /\ e.grp \in Groups /\ e.vis \in BOOLEAN /\ e # None
    BY GatewayNone DEF SpdkEntries
  <1> QED
    BY <1>1, <1>2, <1>3, <1>4

LEMMA ServedFields ==
    ASSUME NEW inst \in Insts, NEW grp \in Groups, NEW vis \in BOOLEAN
    PROVE  LET e == Served(inst, grp, vis)
           IN  /\ e \in SpdkEntries /\ e # None
               /\ e.inst = inst /\ e.grp = grp /\ e.vis = vis
  BY GatewayNone DEF Served, SpdkEntries

\* changing the group moves one entry and one unit of the load
LEMMA RegroupIs ==
    ASSUME NEW r \in GatewayStates, NEW i \in Ids, NEW found, NEW grp \in Groups,
           r.list[i] # None, r.spdk[i] # None
    PROVE  LET e == r.list[i]
           IN  Has(Regroup(r, i, found, grp),
                   ListSet(r, i, found, Entered(e.inst, grp, e.vis, e.trash, e.hosts)),
                   [r.spdk EXCEPT ![i] = Served(r.spdk[i].inst, grp, r.spdk[i].vis)],
                   r.bdev, Moved(r.load, e.grp, grp))
  <1> DEFINE e == r.list[i]
             s == r.spdk[i]
             S == [r.spdk EXCEPT ![i] = Served(s.inst, grp, s.vis)]
             D == Moved(r.load, e.grp, grp)
             moved == [r EXCEPT !.spdk[i].grp = grp,
                                !.load = Moved(@, GroupOf(r, i), grp)]
             n == Entered(e.inst, grp, e.vis, e.trash, e.hosts)
  <1>1. /\ r.list \in [Ids -> ListEntries \cup {None}] /\ e \in ListEntries
        /\ r.spdk \in [Ids -> SpdkEntries \cup {None}] /\ s \in SpdkEntries
        /\ r.bdev \in [Insts -> Limited \cup {None}]
        /\ r.load \in [Groups \cup {0} -> Int]
        /\ r = Gateway(r.list, r.spdk, r.bdev, r.load)
    BY GatewayFields
  <1>2. [e EXCEPT !.grp = grp] = n /\ n \in ListEntries /\ e.grp \in Groups
    <2>1. /\ e.inst \in Insts /\ e.grp \in Groups /\ e.vis \in BOOLEAN /\ e.trash \in BOOLEAN
          /\ e.hosts \in SUBSET Hosts
      BY <1>1, ListEntryFields
    <2>2. [e EXCEPT !.grp = grp] = n
      BY <1>1, ListEntryWith
    <2> QED
      BY <2>1, <2>2, EnteredFields
  <1>3. [s EXCEPT !.grp = grp] = Served(s.inst, grp, s.vis)
        /\ Served(s.inst, grp, s.vis) \in SpdkEntries
    BY <1>1, SpdkEntryWith, ServedFields
  <1>4. moved = WithLoad(WithSpdk(r, [r.spdk EXCEPT ![i] = [s EXCEPT !.grp = grp]]), D)
    <2>1. GroupOf(r, i) = e.grp
      BY DEF GroupOf
    <2>2. moved = [r EXCEPT !.spdk[i].grp = grp, !.load = D]
      BY <2>1
    <2> HIDE DEF D, moved
    <2> QED
      BY <2>2 DEF WithLoad, WithSpdk
  <1>5. S \in [Ids -> SpdkEntries \cup {None}]
    BY <1>1, <1>3
  <1>6. D \in [Groups \cup {0} -> Int]
    BY <1>1, <1>2 DEF Moved
  <1>7. WithSpdk(r, S) = Gateway(r.list, S, r.bdev, r.load)
    <2> HIDE DEF S
    <2> QED
      BY <1>1, WithFields
  <1>8. moved = Gateway(r.list, S, r.bdev, D)
    <2>1. moved = WithLoad(WithSpdk(r, S), D)
      BY <1>3, <1>4
    <2> HIDE DEF S, D, moved
    <2> QED
      BY <1>7, <2>1, WithFields
  <1>9. Regroup(r, i, found, grp) = SetFound(moved, i, found, n)
    BY <1>2 DEF Regroup
  <1> HIDE DEF S, D, moved, n
  <1>10. Has(moved, r.list, S, r.bdev, D)
    BY <1>1, <1>5, <1>6, <1>8, HasFields
  <1>11. Has(SetFound(moved, i, found, n), ListSet(moved, i, found, n), S, r.bdev, D)
    BY <1>2, <1>10, SetFoundIs DEF Has
  <1>12. ListSet(moved, i, found, n) = ListSet(r, i, found, n)
    BY <1>10 DEF Has, ListSet, AtFound
  <1> QED
    BY <1>9, <1>11, <1>12 DEF S, D, n

\* changing the visibility touches the entry in the list and in SPDK
LEMMA ShowIs ==
    ASSUME NEW r \in GatewayStates, NEW i \in Ids, NEW found,
           NEW vis \in BOOLEAN, NEW force, r.spdk[i] # None
    PROVE  LET e == r.list[i]
               hosts == IF force /\ vis THEN {} ELSE e.hosts
           IN  Has(Show(r, i, found, vis, force),
                   ListSet(r, i, found, Entered(e.inst, e.grp, vis, e.trash, hosts)),
                   [r.spdk EXCEPT ![i] = Served(r.spdk[i].inst, r.spdk[i].grp, vis)],
                   r.bdev, r.load)
  <1> DEFINE e == r.list[i]
             s == r.spdk[i]
             hosts == IF force /\ vis THEN {} ELSE e.hosts
             S == [r.spdk EXCEPT ![i] = Served(s.inst, s.grp, vis)]
             shown == [r EXCEPT !.spdk[i].vis = vis]
             n == Entered(e.inst, e.grp, vis, e.trash, hosts)
             m == [e EXCEPT !.vis = vis, !.hosts = IF force /\ vis THEN {} ELSE @]
  <1>1. /\ r.list \in [Ids -> ListEntries \cup {None}] /\ (e # None => e \in ListEntries)
        /\ r.spdk \in [Ids -> SpdkEntries \cup {None}] /\ s \in SpdkEntries
        /\ r.bdev \in [Insts -> Limited \cup {None}]
        /\ r.load \in [Groups \cup {0} -> Int]
        /\ r = Gateway(r.list, r.spdk, r.bdev, r.load)
    BY GatewayFields
  <1>2. ASSUME e # None
        PROVE  m = n /\ n \in ListEntries
    <2>1. e \in ListEntries
      BY <1>1, <1>2
    <2>2. hosts \in SUBSET Hosts
      BY <2>1, ListEntryFields
    <2>3. m = [e EXCEPT !.vis = vis, !.hosts = hosts]
      BY <2>1 DEF ListEntries
    <2> HIDE DEF hosts, m, e
    <2>4. m = n
      <3>1. Shown(e, vis, hosts) = Entered(e.inst, e.grp, vis, e.trash, hosts)
        BY <2>1, <2>2, ListEntryWith
      <3> QED
        BY <2>3, <3>1 DEF Shown
    <2> QED
      BY <2>1, <2>2, <2>4, ListEntryFields, EnteredFields
  <1>3. [s EXCEPT !.vis = vis] = Served(s.inst, s.grp, vis)
        /\ Served(s.inst, s.grp, vis) \in SpdkEntries
    BY <1>1, SpdkEntryWith, ServedFields
  <1>4. shown = WithSpdk(r, [r.spdk EXCEPT ![i] = [s EXCEPT !.vis = vis]])
    BY DEF WithSpdk
  <1>5. S \in [Ids -> SpdkEntries \cup {None}]
    BY <1>1, <1>3
  <1>6. shown = Gateway(r.list, S, r.bdev, r.load)
    <2>1. shown = WithSpdk(r, S)
      BY <1>3, <1>4
    <2> HIDE DEF S, shown
    <2> QED
      BY <1>1, <2>1, WithFields
  <1>7. Show(r, i, found, vis, force) = SetFound(shown, i, found, m)
    BY DEF Show
  <1> HIDE DEF S, shown, n, m
  <1>8. Has(shown, r.list, S, r.bdev, r.load)
    BY <1>1, <1>5, <1>6, HasFields
  <1>9. AtFound(shown, i, found) => m = n /\ n \in ListEntries
    BY <1>2, <1>8 DEF AtFound, Has
  <1>10. Has(SetFound(shown, i, found, m), ListSet(shown, i, found, m), S, r.bdev, r.load)
    BY <1>8, <1>9, SetFoundIs DEF Has
  <1>11. ListSet(shown, i, found, m) = ListSet(r, i, found, n)
    BY <1>8, <1>9 DEF Has, ListSet, AtFound
  <1> QED
    BY <1>7, <1>10, <1>11 DEF S, n

LEMMA SetTrashIs ==
    ASSUME NEW r \in GatewayStates, NEW i \in Ids, NEW found, NEW trash \in BOOLEAN
    PROVE  LET e == r.list[i]
           IN  Has(SetTrash(r, i, found, trash),
                   ListSet(r, i, found, Entered(e.inst, e.grp, e.vis, trash, e.hosts)),
                   r.spdk, r.bdev, r.load)
  <1> DEFINE e == r.list[i]
             n == Entered(e.inst, e.grp, e.vis, trash, e.hosts)
             m == [e EXCEPT !.trash = trash]
  <1>1. ASSUME AtFound(r, i, found)
        PROVE  m = n /\ n \in ListEntries
    <2>1. e \in ListEntries
      BY <1>1, GatewayFields DEF AtFound
    <2>2. m = n
      BY <2>1, ListEntryWith
    <2> QED
      BY <2>1, <2>2, ListEntryFields, EnteredFields
  <1> HIDE DEF m, n
  <1>2. Has(SetFound(r, i, found, m), ListSet(r, i, found, m), r.spdk, r.bdev, r.load)
    BY <1>1, SetFoundIs
  <1>3. ListSet(r, i, found, m) = ListSet(r, i, found, n)
    BY <1>1 DEF ListSet
  <1> QED
    BY <1>2, <1>3 DEF SetTrash, m, n

LEMMA SetHostsIs ==
    ASSUME NEW r \in GatewayStates, NEW i \in Ids, NEW found,
           NEW hosts, AtFound(r, i, found) => hosts \in SUBSET Hosts
    PROVE  LET e == r.list[i]
           IN  Has(SetHosts(r, i, found, hosts),
                   ListSet(r, i, found, Entered(e.inst, e.grp, e.vis, e.trash, hosts)),
                   r.spdk, r.bdev, r.load)
  <1> DEFINE e == r.list[i]
             n == Entered(e.inst, e.grp, e.vis, e.trash, hosts)
             m == [e EXCEPT !.hosts = hosts]
  <1>1. ASSUME AtFound(r, i, found)
        PROVE  m = n /\ n \in ListEntries
    <2>1. e \in ListEntries
      BY <1>1, GatewayFields DEF AtFound
    <2>2. m = n
      BY <1>1, <2>1, ListEntryWith
    <2> QED
      BY <1>1, <2>1, <2>2, ListEntryFields, EnteredFields
  <1> HIDE DEF m, n
  <1>2. Has(SetFound(r, i, found, m), ListSet(r, i, found, m), r.spdk, r.bdev, r.load)
    BY <1>1, SetFoundIs
  <1>3. ListSet(r, i, found, m) = ListSet(r, i, found, n)
    BY <1>1 DEF ListSet
  <1> QED
    BY <1>2, <1>3 DEF SetHosts, m, n

\* the limits a bdev has after limits were set
Merged(limits, old) == [l \in Limits |-> IF limits[l] = None THEN old[l] ELSE limits[l]]

LEMMA MergedIs ==
    ASSUME NEW limits \in Limited, NEW old \in Limited
    PROVE  Merged(limits, old) \in Limited
  BY DEF Merged, Limited

LEMMA LimitIs ==
    ASSUME NEW r \in GatewayStates, NEW n \in Insts, NEW limits \in Limited, r.bdev[n] # None
    PROVE  Has(Limit(r, n, limits), r.list, r.spdk,
               [r.bdev EXCEPT ![n] = Merged(limits, r.bdev[n])], r.load)
  <1> DEFINE B == [r.bdev EXCEPT ![n] = Merged(limits, r.bdev[n])]
  <1>1. /\ r.list \in [Ids -> ListEntries \cup {None}]
        /\ r.spdk \in [Ids -> SpdkEntries \cup {None}]
        /\ r.bdev \in [Insts -> Limited \cup {None}] /\ r.bdev[n] \in Limited
        /\ r.load \in [Groups \cup {0} -> Int]
        /\ r = Gateway(r.list, r.spdk, r.bdev, r.load)
    BY GatewayFields
  <1>2. Limit(r, n, limits) = WithBdev(r, B)
    BY DEF Limit, WithBdev, Merged
  <1>3. B \in [Insts -> Limited \cup {None}]
    BY <1>1, MergedIs
  <1> HIDE DEF B
  <1>4. WithBdev(r, B) = Gateway(r.list, r.spdk, B, r.load)
    BY <1>1, WithFields
  <1> QED
    BY <1>1, <1>2, <1>3, <1>4, HasFields DEF B

\* taking an entry off the list leaves the other tables alone
LEMMA UnlistIs ==
    ASSUME NEW r \in GatewayStates, NEW i \in Ids
    PROVE  Has([r EXCEPT !.list[i] = None], [r.list EXCEPT ![i] = None], r.spdk, r.bdev, r.load)
  <1> DEFINE L == [r.list EXCEPT ![i] = None]
  <1>1. /\ r.list \in [Ids -> ListEntries \cup {None}]
        /\ r.spdk \in [Ids -> SpdkEntries \cup {None}]
        /\ r.bdev \in [Insts -> Limited \cup {None}]
        /\ r.load \in [Groups \cup {0} -> Int]
        /\ r = Gateway(r.list, r.spdk, r.bdev, r.load)
    BY GatewayFields
  <1>2. [r EXCEPT !.list[i] = None] = WithList(r, L)
    BY DEF WithList
  <1>3. L \in [Ids -> ListEntries \cup {None}]
    BY <1>1
  <1> HIDE DEF L
  <1>4. WithList(r, L) = Gateway(L, r.spdk, r.bdev, r.load)
    BY <1>1, WithFields
  <1> QED
    BY <1>1, <1>2, <1>3, <1>4, HasFields DEF L

\* taking a namespace away takes it out of SPDK and off its group's load
LEMMA TakeAwayIs ==
    ASSUME NEW r \in GatewayStates, NEW i \in Ids
    PROVE  Has(TakeAway(r, i), r.list, [r.spdk EXCEPT ![i] = None], r.bdev,
               [r.load EXCEPT ![GroupOf(r, i)] = @ - 1])
  <1> DEFINE S == [r.spdk EXCEPT ![i] = None]
             D == [r.load EXCEPT ![GroupOf(r, i)] = @ - 1]
  <1>1. /\ r.list \in [Ids -> ListEntries \cup {None}]
        /\ r.spdk \in [Ids -> SpdkEntries \cup {None}]
        /\ r.bdev \in [Insts -> Limited \cup {None}]
        /\ r.load \in [Groups \cup {0} -> Int]
        /\ r = Gateway(r.list, r.spdk, r.bdev, r.load)
    BY GatewayFields
  <1>2. TakeAway(r, i) = WithLoad(WithSpdk(r, S), D)
    BY DEF TakeAway, WithLoad, WithSpdk
  <1>3. S \in [Ids -> SpdkEntries \cup {None}]
    BY <1>1
  <1>4. D \in [Groups \cup {0} -> Int]
    <2>1. GroupOf(r, i) \in Groups \cup {0}
      BY <1>1, ListEntryFields DEF GroupOf
    <2> QED
      BY <1>1, <2>1
  <1> HIDE DEF S, D
  <1>5. WithSpdk(r, S) = Gateway(r.list, S, r.bdev, r.load)
    BY <1>1, WithFields
  <1>6. WithLoad(WithSpdk(r, S), D) = Gateway(r.list, S, r.bdev, D)
    BY <1>5, WithFields
  <1> QED
    BY <1>1, <1>2, <1>3, <1>4, <1>6, HasFields DEF S, D

\* SPDK's namespaces without the one of ID i and those of image n
SpdkWithout(spdk, i, n) ==
    [j \in Ids |-> IF j = i \/ (spdk[j] # None /\ spdk[j].inst = n) THEN None ELSE spdk[j]]

\* a deletion leaves the gateway without the entry, its namespace and its bdev
LEMMA RemovedIs ==
    ASSUME NEW r \in GatewayStates, NEW i \in Ids, NEW n \in Insts
    PROVE  Has(Removed(r, i, n), [r.list EXCEPT ![i] = None], SpdkWithout(r.spdk, i, n),
               [r.bdev EXCEPT ![n] = None], [r.load EXCEPT ![GroupOf(r, i)] = @ - 1])
  <1> DEFINE L == [r.list EXCEPT ![i] = None]
             B == [r.bdev EXCEPT ![n] = None]
             S == [r.spdk EXCEPT ![i] = None]
             W == SpdkWithout(r.spdk, i, n)
             D == [r.load EXCEPT ![GroupOf(r, i)] = @ - 1]
             t == TakeAway(r, i)
             left == [t EXCEPT !.list[i] = None, !.bdev[n] = None]
             gone == [j \in Ids |->
                        IF left.spdk[j] # None /\ left.spdk[j].inst = n
                        THEN None ELSE left.spdk[j]]
  <1>1. /\ r.list \in [Ids -> ListEntries \cup {None}]
        /\ r.spdk \in [Ids -> SpdkEntries \cup {None}]
        /\ r.bdev \in [Insts -> Limited \cup {None}]
    BY GatewayFields
  <1>2. Has(t, r.list, S, r.bdev, D)
    BY TakeAwayIs
  <1>3. D \in [Groups \cup {0} -> Int]
    BY <1>2, GatewayFields DEF Has
  <1> HIDE DEF D, t
  <1>4. left = WithBdev(WithList(t, L), B)
    BY <1>2 DEF Has, WithBdev, WithList
  <1>5. Removed(r, i, n) = WithSpdk(left, gone)
    BY DEF Removed, WithSpdk, t
  <1>6. L \in [Ids -> ListEntries \cup {None}] /\ B \in [Insts -> Limited \cup {None}]
    BY <1>1
  <1>7. W \in [Ids -> SpdkEntries \cup {None}]
    BY <1>1 DEF SpdkWithout
  <1>8. left = Gateway(L, S, B, D)
    <2> HIDE DEF L, B, S, left
    <2>1. t = Gateway(r.list, S, r.bdev, D)
      BY <1>2 DEF Has
    <2>2. WithList(t, L) = Gateway(L, S, r.bdev, D)
      BY <2>1, WithFields
    <2> QED
      BY <1>4, <2>2, WithFields
  <1>9. left.spdk = S
    <2> HIDE DEF left, S, L, B
    <2> QED
      BY <1>8 DEF Gateway
  <1>10. gone = W
    <2>1. S[i] = None /\ \A j \in Ids : j # i => S[j] = r.spdk[j]
      BY <1>1
    <2>2. gone = [j \in Ids |-> IF S[j] # None /\ S[j].inst = n THEN None ELSE S[j]]
      <3> HIDE DEF left, S
      <3> QED
        BY <1>9
    <2> HIDE DEF left, S, gone
    <2>3. ASSUME NEW j \in Ids
          PROVE  (IF S[j] # None /\ S[j].inst = n THEN None ELSE S[j])
                    = IF j = i \/ (r.spdk[j] # None /\ r.spdk[j].inst = n)
                      THEN None ELSE r.spdk[j]
      <3>1. CASE j = i
        BY <2>1, <3>1
      <3>2. CASE j # i
        BY <2>1, <3>2
      <3> QED
        BY <3>1, <3>2
    <2> QED
      BY <2>2, <2>3, Zenon DEF SpdkWithout
  <1> HIDE DEF L, B, S, W, left, gone
  <1>11. Removed(r, i, n) = Gateway(L, W, B, D)
    BY <1>5, <1>8, <1>10, WithFields
  <1> QED
    BY <1>3, <1>6, <1>7, <1>11, HasFields DEF L, B, W, D

(***************************************************************************)
(* Every image belongs to one namespace ID, P[n] being the IDs image n may *)
(* be at, and a namespace SPDK serves is the listed one (ServedAsListed).  *)
(***************************************************************************)
Is(e, n) == e # None /\ e.inst = n
InGateway(r, i, n) == Is(r.list[i], n) \/ Is(r.spdk[i], n)
GoodGateway(r, P) ==
    /\ r \in GatewayStates
    /\ ServedAsListed(r)
    /\ \A n \in Insts, i \in Ids : InGateway(r, i, n) => i \in P[n]
GoodContent(st, P) ==
    /\ st \in Contents
    /\ \A n \in Insts, i \in Ids : Is(st[i].ns, n) => i \in P[n]

\* the namespaces of a gateway that a call leaves
LeavesInsts(r, r2) ==
    /\ \A j \in Ids : r2.list[j] # None =>
          r.list[j] # None /\ r2.list[j].inst = r.list[j].inst
    /\ \A j \in Ids : r2.spdk[j] # None =>
          r.spdk[j] # None /\ r2.spdk[j].inst = r.spdk[j].inst
    /\ \A n \in Insts : r.bdev[n] # None => r2.bdev[n] # None

\* an entry less keeps every image at its ID
LEMMA LeftIsGood ==
    ASSUME NEW P, NEW r, GoodGateway(r, P), NEW r2 \in GatewayStates, LeavesInsts(r, r2)
    PROVE  GoodGateway(r2, P)
  <1>1. ServedAsListed(r2)
    <2> SUFFICES ASSUME NEW i \in Ids, r2.spdk[i] # None
                 PROVE  /\ r2.bdev[r2.spdk[i].inst] # None
                        /\ r2.list[i] # None => r2.list[i].inst = r2.spdk[i].inst
      BY DEF ServedAsListed
    <2>1. /\ r.spdk[i] # None /\ r2.spdk[i].inst = r.spdk[i].inst
          /\ r2.list[i] # None => r.list[i] # None /\ r2.list[i].inst = r.list[i].inst
      BY DEF LeavesInsts
    <2>2. /\ r.bdev[r.spdk[i].inst] # None
          /\ r.list[i] # None => r.list[i].inst = r.spdk[i].inst
      BY <2>1 DEF GoodGateway, ServedAsListed
    <2>3. r.spdk[i].inst \in Insts
      <3>1. r.spdk[i] \in SpdkEntries
        BY <2>1, GatewayFields DEF GoodGateway
      <3> QED
        BY <3>1, SpdkEntryWith
    <2> QED
      BY <2>1, <2>2, <2>3 DEF LeavesInsts
  <1>2. ASSUME NEW n \in Insts, NEW i \in Ids, InGateway(r2, i, n)
        PROVE  InGateway(r, i, n)
    BY <1>2 DEF InGateway, Is, LeavesInsts
  <1> QED
    BY <1>1, <1>2 DEF GoodGateway

\* an entry changed where it was found
LEMMA ListSetInsts ==
    ASSUME NEW r \in GatewayStates, NEW i \in Ids, NEW found, NEW e,
           AtFound(r, i, found) => e # None /\ e.inst = r.list[i].inst
    PROVE  LET L == ListSet(r, i, found, e)
           IN  /\ \A j \in Ids : L[j] = None <=> r.list[j] = None
               /\ \A j \in Ids : L[j] # None => L[j].inst = r.list[j].inst
               /\ \A j \in Ids : j # i => L[j] = r.list[j]
               /\ L[i] = IF AtFound(r, i, found) THEN e ELSE r.list[i]
  <1>1. r.list \in [Ids -> ListEntries \cup {None}]
    BY GatewayFields
  <1> QED
    BY <1>1 DEF ListSet, AtFound

LEMMA RegroupIsGood ==
    ASSUME NEW P, NEW r, GoodGateway(r, P), NEW i \in Ids, NEW found, NEW grp \in Groups,
           r.list[i] # None, r.spdk[i] # None
    PROVE  GoodGateway(Regroup(r, i, found, grp), P)
  <1> DEFINE e == r.list[i]
             n == Entered(e.inst, grp, e.vis, e.trash, e.hosts)
             r2 == Regroup(r, i, found, grp)
             s == Served(r.spdk[i].inst, grp, r.spdk[i].vis)
  <1>1. /\ r \in GatewayStates /\ e \in ListEntries /\ r.spdk[i] \in SpdkEntries
        /\ r.spdk \in [Ids -> SpdkEntries \cup {None}]
    BY GatewayFields DEF GoodGateway
  <1>2. n # None /\ n.inst = e.inst
    BY <1>1, ListEntryFields, EnteredFields
  <1>3. s # None /\ s.inst = r.spdk[i].inst
    BY <1>1, SpdkEntryWith, ServedFields
  <1>4. /\ r2 \in GatewayStates
        /\ r2.list = ListSet(r, i, found, n)
        /\ r2.spdk = [r.spdk EXCEPT ![i] = s]
        /\ r2.bdev = r.bdev
    BY <1>1, RegroupIs DEF Has
  <1> HIDE DEF n, r2, s
  <1>5. /\ \A j \in Ids : r2.list[j] = None <=> r.list[j] = None
        /\ \A j \in Ids : r2.list[j] # None => r2.list[j].inst = r.list[j].inst
    BY <1>1, <1>2, <1>4, ListSetInsts
  <1>6. LeavesInsts(r, r2)
    BY <1>1, <1>3, <1>4, <1>5 DEF LeavesInsts
  <1> QED
    BY <1>4, <1>6, LeftIsGood DEF r2

LEMMA ShowIsGood ==
    ASSUME NEW P, NEW r, GoodGateway(r, P), NEW i \in Ids, NEW found,
           NEW vis \in BOOLEAN, NEW force, r.spdk[i] # None
    PROVE  GoodGateway(Show(r, i, found, vis, force), P)
  <1> DEFINE e == r.list[i]
             hosts == IF force /\ vis THEN {} ELSE e.hosts
             n == Entered(e.inst, e.grp, vis, e.trash, hosts)
             r2 == Show(r, i, found, vis, force)
             s == Served(r.spdk[i].inst, r.spdk[i].grp, vis)
  <1>1. /\ r \in GatewayStates /\ (e # None => e \in ListEntries)
        /\ r.spdk[i] \in SpdkEntries
        /\ r.spdk \in [Ids -> SpdkEntries \cup {None}]
    BY GatewayFields DEF GoodGateway
  <1>2. AtFound(r, i, found) => n # None /\ n.inst = e.inst
    <2> HAVE AtFound(r, i, found)
    <2>1. e \in ListEntries
      BY <1>1 DEF AtFound
    <2>2. hosts \in SUBSET Hosts
      BY <2>1, ListEntryFields
    <2> QED
      BY <2>1, <2>2, ListEntryFields, EnteredFields
  <1>3. s # None /\ s.inst = r.spdk[i].inst
    BY <1>1, SpdkEntryWith, ServedFields
  <1>4. /\ r2 \in GatewayStates
        /\ r2.list = ListSet(r, i, found, n)
        /\ r2.spdk = [r.spdk EXCEPT ![i] = s]
        /\ r2.bdev = r.bdev
    BY <1>1, ShowIs DEF Has
  <1> HIDE DEF n, r2, s
  <1>5. /\ \A j \in Ids : r2.list[j] = None <=> r.list[j] = None
        /\ \A j \in Ids : r2.list[j] # None => r2.list[j].inst = r.list[j].inst
    BY <1>1, <1>2, <1>4, ListSetInsts
  <1>6. LeavesInsts(r, r2)
    BY <1>1, <1>3, <1>4, <1>5 DEF LeavesInsts
  <1> QED
    BY <1>4, <1>6, LeftIsGood DEF r2

LEMMA SetTrashIsGood ==
    ASSUME NEW P, NEW r, GoodGateway(r, P), NEW i \in Ids, NEW found, NEW trash \in BOOLEAN
    PROVE  GoodGateway(SetTrash(r, i, found, trash), P)
  <1> DEFINE e == r.list[i]
             n == Entered(e.inst, e.grp, e.vis, trash, e.hosts)
             r2 == SetTrash(r, i, found, trash)
  <1>1. r \in GatewayStates
    BY DEF GoodGateway
  <1>2. AtFound(r, i, found) => n # None /\ n.inst = e.inst
    <2> HAVE AtFound(r, i, found)
    <2>1. e \in ListEntries
      BY <1>1, GatewayFields DEF AtFound
    <2> QED
      BY <2>1, ListEntryFields, EnteredFields
  <1>3. /\ r2 \in GatewayStates /\ r2.list = ListSet(r, i, found, n)
        /\ r2.spdk = r.spdk /\ r2.bdev = r.bdev
    BY <1>1, SetTrashIs DEF Has
  <1> HIDE DEF n, r2
  <1>4. /\ \A j \in Ids : r2.list[j] = None <=> r.list[j] = None
        /\ \A j \in Ids : r2.list[j] # None => r2.list[j].inst = r.list[j].inst
    BY <1>1, <1>2, <1>3, ListSetInsts
  <1>5. LeavesInsts(r, r2)
    BY <1>3, <1>4 DEF LeavesInsts
  <1> QED
    BY <1>3, <1>5, LeftIsGood DEF r2

LEMMA SetHostsIsGood ==
    ASSUME NEW P, NEW r, GoodGateway(r, P), NEW i \in Ids, NEW found,
           NEW hosts, AtFound(r, i, found) => hosts \in SUBSET Hosts
    PROVE  GoodGateway(SetHosts(r, i, found, hosts), P)
  <1> DEFINE e == r.list[i]
             n == Entered(e.inst, e.grp, e.vis, e.trash, hosts)
             r2 == SetHosts(r, i, found, hosts)
  <1>1. r \in GatewayStates
    BY DEF GoodGateway
  <1>2. AtFound(r, i, found) => n # None /\ n.inst = e.inst
    <2> HAVE AtFound(r, i, found)
    <2>1. e \in ListEntries
      BY <1>1, GatewayFields DEF AtFound
    <2> QED
      BY <2>1, ListEntryFields, EnteredFields
  <1>3. /\ r2 \in GatewayStates /\ r2.list = ListSet(r, i, found, n)
        /\ r2.spdk = r.spdk /\ r2.bdev = r.bdev
    BY <1>1, SetHostsIs DEF Has
  <1> HIDE DEF n, r2
  <1>4. /\ \A j \in Ids : r2.list[j] = None <=> r.list[j] = None
        /\ \A j \in Ids : r2.list[j] # None => r2.list[j].inst = r.list[j].inst
    BY <1>1, <1>2, <1>3, ListSetInsts
  <1>5. LeavesInsts(r, r2)
    BY <1>3, <1>4 DEF LeavesInsts
  <1> QED
    BY <1>3, <1>5, LeftIsGood DEF r2

LEMMA LimitIsGood ==
    ASSUME NEW P, NEW r, GoodGateway(r, P), NEW n \in Insts, NEW limits \in Limited,
           r.bdev[n] # None
    PROVE  GoodGateway(Limit(r, n, limits), P)
  <1> DEFINE r2 == Limit(r, n, limits)
             m == Merged(limits, r.bdev[n])
  <1>1. /\ r \in GatewayStates /\ r.bdev \in [Insts -> Limited \cup {None}]
        /\ r.bdev[n] \in Limited
    BY GatewayFields DEF GoodGateway
  <1>2. /\ r2 \in GatewayStates /\ r2.list = r.list
        /\ r2.spdk = r.spdk /\ r2.bdev = [r.bdev EXCEPT ![n] = m]
    BY <1>1, LimitIs DEF Has
  <1>3. m # None
    BY <1>1, MergedIs, EntryNone
  <1> HIDE DEF r2, m
  <1>4. LeavesInsts(r, r2)
    BY <1>1, <1>2, <1>3 DEF LeavesInsts
  <1> QED
    BY <1>2, <1>4, LeftIsGood DEF r2

LEMMA UnlistIsGood ==
    ASSUME NEW P, NEW r, GoodGateway(r, P), NEW i \in Ids
    PROVE  GoodGateway([r EXCEPT !.list[i] = None], P)
  <1> DEFINE r2 == [r EXCEPT !.list[i] = None]
  <1>1. r \in GatewayStates /\ r.list \in [Ids -> ListEntries \cup {None}]
    BY GatewayFields DEF GoodGateway
  <1>2. /\ r2 \in GatewayStates /\ r2.list = [r.list EXCEPT ![i] = None]
        /\ r2.spdk = r.spdk /\ r2.bdev = r.bdev
    BY <1>1, UnlistIs DEF Has
  <1> HIDE DEF r2
  <1>3. LeavesInsts(r, r2)
    BY <1>1, <1>2 DEF LeavesInsts
  <1> QED
    BY <1>2, <1>3, LeftIsGood DEF r2

LEMMA AfterRemoveErrIsGood ==
    ASSUME NEW P, NEW r, GoodGateway(r, P), NEW i \in Ids, RemoveErrs(r, i)
    PROVE  GoodGateway(AfterRemoveErr(r, i), P)
  <1> DEFINE r2 == TakeAway(r, i)
  <1>1. r \in GatewayStates /\ r.spdk \in [Ids -> SpdkEntries \cup {None}]
    BY GatewayFields DEF GoodGateway
  <1>2. /\ r2 \in GatewayStates /\ r2.list = r.list
        /\ r2.spdk = [r.spdk EXCEPT ![i] = None] /\ r2.bdev = r.bdev
    BY <1>1, TakeAwayIs DEF Has
  <1> HIDE DEF r2
  <1>4. LeavesInsts(r, r2)
    BY <1>1, <1>2 DEF LeavesInsts
  <1>5. GoodGateway(r2, P)
    BY <1>2, <1>4, LeftIsGood
  <1> QED
    BY <1>5 DEF AfterRemoveErr, r2

\* the bdev a removal takes is no other namespace's
LEMMA RemovedIsGood ==
    ASSUME NEW P, NEW r, GoodGateway(r, P), NEW i \in Ids, NEW n \in Insts,
           \A j \in P[n] : j = i
    PROVE  GoodGateway(Removed(r, i, n), P)
  <1> DEFINE r2 == Removed(r, i, n)
  <1>1. /\ r \in GatewayStates /\ r.spdk \in [Ids -> SpdkEntries \cup {None}]
        /\ r.list \in [Ids -> ListEntries \cup {None}]
        /\ r.bdev \in [Insts -> Limited \cup {None}]
    BY GatewayFields DEF GoodGateway
  <1>2. /\ r2 \in GatewayStates /\ r2.list = [r.list EXCEPT ![i] = None]
        /\ r2.spdk = SpdkWithout(r.spdk, i, n) /\ r2.bdev = [r.bdev EXCEPT ![n] = None]
    <2>1. Has(r2, [r.list EXCEPT ![i] = None], SpdkWithout(r.spdk, i, n),
              [r.bdev EXCEPT ![n] = None], [r.load EXCEPT ![GroupOf(r, i)] = @ - 1])
      BY <1>1, RemovedIs
    <2> HIDE DEF r2
    <2> QED
      BY <2>1 DEF Has
  <1> HIDE DEF r2
  <1>3. ASSUME NEW j \in Ids
        PROVE  /\ j # i => r2.list[j] = r.list[j]
               /\ j # i => r2.spdk[j] = r.spdk[j]
               /\ r2.list[i] = None /\ r2.spdk[i] = None
    <2>1. j # i => ~(r.spdk[j] # None /\ r.spdk[j].inst = n)
      BY DEF GoodGateway, InGateway, Is
    <2> QED
      BY <1>1, <1>2, <2>1 DEF SpdkWithout
  <1>4. ASSUME NEW j \in Ids, r2.spdk[j] # None
        PROVE  /\ r2.bdev[r2.spdk[j].inst] # None
               /\ r2.list[j] # None => r2.list[j].inst = r2.spdk[j].inst
    <2>1. j # i /\ r2.list[j] = r.list[j] /\ r2.spdk[j] = r.spdk[j]
      BY <1>3, <1>4
    <2>2. /\ r.bdev[r.spdk[j].inst] # None
          /\ r.list[j] # None => r.list[j].inst = r.spdk[j].inst
      BY <1>4, <2>1 DEF GoodGateway, ServedAsListed
    <2>3. r.spdk[j].inst \in Insts
      BY <1>1, <1>4, <2>1, SpdkEntryWith
    <2>4. r.spdk[j].inst # n
      BY <1>4, <2>1 DEF GoodGateway, InGateway, Is
    <2> QED
      BY <1>1, <1>2, <2>1, <2>2, <2>3, <2>4
  <1>5. ASSUME NEW m \in Insts, NEW j \in Ids, InGateway(r2, j, m)
        PROVE  InGateway(r, j, m)
    BY <1>3, <1>5 DEF InGateway, Is
  <1> QED
    BY <1>2, <1>4, <1>5 DEF GoodGateway, ServedAsListed, r2

\* a namespace served with its bdev keeps every image at its ID
LEMMA ServeIsGood ==
    ASSUME NEW P, NEW r, GoodGateway(r, P), NEW i \in Ids, NEW e \in Entries, i \in P[e.inst]
    PROVE  GoodGateway(Serve(r, i, e), P)
  <1> DEFINE r2 == Serve(r, i, e)
             x == Listed(e, {})
             y == SpdkOf(e)
  <1>1. /\ r \in GatewayStates /\ r.spdk \in [Ids -> SpdkEntries \cup {None}]
        /\ r.list \in [Ids -> ListEntries \cup {None}]
        /\ r.bdev \in [Insts -> Limited \cup {None}]
    BY GatewayFields DEF GoodGateway
  <1>2. /\ r2 \in GatewayStates /\ r2.list = [r.list EXCEPT ![i] = x]
        /\ r2.spdk = [r.spdk EXCEPT ![i] = y] /\ r2.bdev = [r.bdev EXCEPT ![e.inst] = NoLimits]
    <2>1. Has(r2, [r.list EXCEPT ![i] = x], [r.spdk EXCEPT ![i] = y],
              [r.bdev EXCEPT ![e.inst] = NoLimits], [r.load EXCEPT ![e.grp] = @ + 1])
      BY <1>1, ServeIs
    <2> HIDE DEF r2, x, y
    <2> QED
      BY <2>1 DEF Has
  <1>3. e.inst \in Insts /\ x.inst = e.inst /\ y # None /\ y.inst = e.inst
    BY EntryFields DEF SpdkOf
  <1> HIDE DEF r2, x, y
  <1>4. ASSUME NEW j \in Ids, r2.spdk[j] # None
        PROVE  /\ r2.bdev[r2.spdk[j].inst] # None
               /\ r2.list[j] # None => r2.list[j].inst = r2.spdk[j].inst
    <2>1. CASE j = i
      <3>1. r2.list[j] = x /\ r2.spdk[j] = y
        BY <1>1, <1>2, <2>1
      <3> QED
        BY <1>1, <1>2, <1>3, <3>1, NoLimitsIsLimited
    <2>2. CASE j # i
      <3>1. r2.list[j] = r.list[j] /\ r2.spdk[j] = r.spdk[j]
        BY <1>1, <1>2, <2>2
      <3>2. /\ r.bdev[r.spdk[j].inst] # None
            /\ r.list[j] # None => r.list[j].inst = r.spdk[j].inst
        BY <1>4, <3>1 DEF GoodGateway, ServedAsListed
      <3>3. r.spdk[j].inst \in Insts
        BY <1>1, <1>4, <3>1, SpdkEntryWith
      <3> QED
        BY <1>1, <1>2, <3>1, <3>2, <3>3, NoLimitsIsLimited
    <2> QED
      BY <2>1, <2>2
  <1>5. ASSUME NEW m \in Insts, NEW j \in Ids, InGateway(r2, j, m)
        PROVE  j \in P[m]
    <2>1. CASE j = i
      <3>1. r2.list[j] = x /\ r2.spdk[j] = y
        BY <1>1, <1>2, <2>1
      <3> QED
        BY <1>3, <1>5, <2>1, <3>1 DEF InGateway, Is
    <2>2. CASE j # i
      <3>1. r2.list[j] = r.list[j] /\ r2.spdk[j] = r.spdk[j]
        BY <1>1, <1>2, <2>2
      <3> QED
        BY <1>5, <3>1 DEF InGateway, Is, GoodGateway
    <2> QED
      BY <2>1, <2>2
  <1> QED
    BY <1>2, <1>4, <1>5 DEF GoodGateway, ServedAsListed, r2

\* an add undone: SPDK has neither the namespace nor its bdev, the list keeps it
LEMMA UndoneIs ==
    ASSUME NEW r \in GatewayStates, NEW i \in Ids, NEW e \in Entries
    PROVE  LET r2 == Undone(r, i, e)
           IN  /\ r2 \in GatewayStates
               /\ r2.list = [r.list EXCEPT ![i] = Listed(e, {})]
               /\ r2.spdk = [r.spdk EXCEPT ![i] = None]
               /\ r2.bdev = [r.bdev EXCEPT ![e.inst] = None]
  <1> DEFINE s == Serve(r, i, e)
             n == e.inst
             S == [s.spdk EXCEPT ![i] = None]
             B == [s.bdev EXCEPT ![n] = None]
  <1>1. /\ s \in GatewayStates /\ s.list = [r.list EXCEPT ![i] = Listed(e, {})]
        /\ s.spdk = [r.spdk EXCEPT ![i] = SpdkOf(e)] /\ s.bdev = [r.bdev EXCEPT ![n] = NoLimits]
    <2>1. Has(s, [r.list EXCEPT ![i] = Listed(e, {})], [r.spdk EXCEPT ![i] = SpdkOf(e)],
              [r.bdev EXCEPT ![n] = NoLimits], [r.load EXCEPT ![e.grp] = @ + 1])
      BY ServeIs
    <2> HIDE DEF s
    <2> QED
      BY <2>1 DEF Has
  <1>2. /\ r.spdk \in [Ids -> SpdkEntries \cup {None}]
        /\ r.bdev \in [Insts -> Limited \cup {None}] /\ n \in Insts
    BY GatewayFields, EntryFields
  <1> HIDE DEF s, n
  <1>3. S = [r.spdk EXCEPT ![i] = None] /\ B = [r.bdev EXCEPT ![n] = None]
    BY <1>1, <1>2
  <1>4. /\ s = Gateway(s.list, s.spdk, s.bdev, s.load)
        /\ s.list \in [Ids -> ListEntries \cup {None}] /\ s.load \in [Groups \cup {0} -> Int]
    BY <1>1, GatewayFields
  <1>5. S \in [Ids -> SpdkEntries \cup {None}] /\ B \in [Insts -> Limited \cup {None}]
    BY <1>2, <1>3
  <1>6. Undone(r, i, e) = WithBdev(WithSpdk(s, S), B)
    <2>1. Undone(r, i, e) = [s EXCEPT !.spdk[i] = None, !.bdev[n] = None]
      BY DEF Undone, s, n
    <2> QED
      BY <2>1 DEF WithBdev, WithSpdk
  <1>7. Undone(r, i, e) = Gateway(s.list, S, B, s.load)
    <2> HIDE DEF S, B
    <2>1. WithSpdk(s, S) = Gateway(s.list, S, s.bdev, s.load)
      BY <1>4, WithFields
    <2> QED
      BY <1>6, <2>1, WithFields
  <1>8. Has(Undone(r, i, e), s.list, S, B, s.load)
    <2> HIDE DEF S, B
    <2> QED
      BY <1>4, <1>5, <1>7, HasFields
  <1> QED
    BY <1>1, <1>3, <1>8 DEF Has, n

LEMMA UndoneIsGood ==
    ASSUME NEW P, NEW r, GoodGateway(r, P), NEW i \in Ids, NEW e \in Entries,
           i \in P[e.inst], \A j \in P[e.inst] : j = i
    PROVE  GoodGateway(Undone(r, i, e), P)
  <1> DEFINE r2 == Undone(r, i, e)
             x == Listed(e, {})
  <1>1. /\ r \in GatewayStates /\ r.spdk \in [Ids -> SpdkEntries \cup {None}]
        /\ r.list \in [Ids -> ListEntries \cup {None}]
        /\ r.bdev \in [Insts -> Limited \cup {None}]
    BY GatewayFields DEF GoodGateway
  <1>2. /\ r2 \in GatewayStates /\ r2.list = [r.list EXCEPT ![i] = x]
        /\ r2.spdk = [r.spdk EXCEPT ![i] = None] /\ r2.bdev = [r.bdev EXCEPT ![e.inst] = None]
    BY <1>1, UndoneIs
  <1>3. e.inst \in Insts /\ x.inst = e.inst
    BY EntryFields
  <1> HIDE DEF r2, x
  <1>4. ASSUME NEW j \in Ids, r2.spdk[j] # None
        PROVE  /\ r2.bdev[r2.spdk[j].inst] # None
               /\ r2.list[j] # None => r2.list[j].inst = r2.spdk[j].inst
    <2>1. j # i /\ r2.list[j] = r.list[j] /\ r2.spdk[j] = r.spdk[j]
      BY <1>1, <1>2, <1>4
    <2>2. /\ r.bdev[r.spdk[j].inst] # None
          /\ r.list[j] # None => r.list[j].inst = r.spdk[j].inst
      BY <1>4, <2>1 DEF GoodGateway, ServedAsListed
    <2>3. r.spdk[j].inst \in Insts
      BY <1>1, <1>4, <2>1, SpdkEntryWith
    <2>4. r.spdk[j].inst # e.inst
      BY <1>3, <1>4, <2>1 DEF GoodGateway, InGateway, Is
    <2> QED
      BY <1>1, <1>2, <1>3, <2>1, <2>2, <2>3, <2>4
  <1>5. ASSUME NEW m \in Insts, NEW j \in Ids, InGateway(r2, j, m)
        PROVE  j \in P[m]
    <2>1. CASE j = i
      <3>1. r2.list[j] = x /\ r2.spdk[j] = None
        BY <1>1, <1>2, <2>1
      <3> QED
        BY <1>3, <1>5, <2>1, <3>1 DEF InGateway, Is
    <2>2. CASE j # i
      <3>1. r2.list[j] = r.list[j] /\ r2.spdk[j] = r.spdk[j]
        BY <1>1, <1>2, <2>2
      <3> QED
        BY <1>5, <3>1 DEF InGateway, Is, GoodGateway
    <2> QED
      BY <2>1, <2>2
  <1> QED
    BY <1>2, <1>4, <1>5 DEF GoodGateway, ServedAsListed, r2

\* a gateway that has started has nothing
LEMMA NewGatewayIsGood ==
    ASSUME NEW P
    PROVE  GoodGateway(NewGateway, P)
  BY DEF GoodGateway, NewGateway, GatewayStates, ServedAsListed, InGateway, Is

(***************************************************************************)
(* The keys of a content                                                   *)
(***************************************************************************)
Keyed(ns, qos, hosts) == [ns |-> ns, qos |-> qos, hosts |-> hosts]
NsSet(st, i, e) == [st EXCEPT ![i].ns = e]
QosSet(st, i, qos) == [st EXCEPT ![i].qos = qos]
HostsSet(st, i, hosts) == [st EXCEPT ![i].hosts = hosts]

LEMMA KeyFields ==
    ASSUME NEW st \in Contents, NEW i \in Ids
    PROVE  /\ st[i] \in Keys
           /\ st[i].ns \in Entries \cup {None} /\ st[i].qos \in Limited
           /\ st[i].hosts \in SUBSET Hosts
           /\ st[i] = Keyed(st[i].ns, st[i].qos, st[i].hosts)
  BY DEF Contents, Keys, Keyed

LEMMA KeyedFields ==
    ASSUME NEW ns, NEW qos, NEW hosts
    PROVE  /\ Keyed(ns, qos, hosts).ns = ns /\ Keyed(ns, qos, hosts).qos = qos
           /\ Keyed(ns, qos, hosts).hosts = hosts
           /\ ns \in Entries \cup {None} /\ qos \in Limited /\ hosts \in SUBSET Hosts =>
                 Keyed(ns, qos, hosts) \in Keys
  BY DEF Keyed, Keys

\* the content x is st with these keys for i
Differs(x, st, i, ns, qos, hosts) ==
    /\ x \in Contents
    /\ x[i].ns = ns /\ x[i].qos = qos /\ x[i].hosts = hosts
    /\ \A j \in Ids : j # i => x[j] = st[j]

LEMMA NsSetIs ==
    ASSUME NEW st \in Contents, NEW i \in Ids, NEW e \in Entries \cup {None}
    PROVE  Differs(NsSet(st, i, e), st, i, e, st[i].qos, st[i].hosts)
  <1> DEFINE k == Keyed(e, st[i].qos, st[i].hosts)
  <1>1. st[i] \in Keys /\ st[i] = Keyed(st[i].ns, st[i].qos, st[i].hosts)
    BY KeyFields
  <1>2. [st[i] EXCEPT !.ns = e] = k
    BY <1>1, SMTT(30) DEF Keyed, Keys
  <1>3. NsSet(st, i, e) = [st EXCEPT ![i] = k]
    BY <1>2 DEF NsSet
  <1>4. k \in Keys /\ k.ns = e /\ k.qos = st[i].qos /\ k.hosts = st[i].hosts
    BY KeyFields, KeyedFields
  <1> HIDE DEF k
  <1> QED
    BY <1>3, <1>4 DEF Differs, Contents

LEMMA QosSetIs ==
    ASSUME NEW st \in Contents, NEW i \in Ids, NEW qos \in Limited
    PROVE  Differs(QosSet(st, i, qos), st, i, st[i].ns, qos, st[i].hosts)
  <1> DEFINE k == Keyed(st[i].ns, qos, st[i].hosts)
  <1>1. st[i] \in Keys /\ st[i] = Keyed(st[i].ns, st[i].qos, st[i].hosts)
    BY KeyFields
  <1>2. [st[i] EXCEPT !.qos = qos] = k
    BY <1>1, SMTT(30) DEF Keyed, Keys
  <1>3. QosSet(st, i, qos) = [st EXCEPT ![i] = k]
    BY <1>2 DEF QosSet
  <1>4. k \in Keys /\ k.ns = st[i].ns /\ k.qos = qos /\ k.hosts = st[i].hosts
    BY KeyFields, KeyedFields
  <1> HIDE DEF k
  <1> QED
    BY <1>3, <1>4 DEF Differs, Contents

LEMMA HostsSetIs ==
    ASSUME NEW st \in Contents, NEW i \in Ids, NEW hosts \in SUBSET Hosts
    PROVE  Differs(HostsSet(st, i, hosts), st, i, st[i].ns, st[i].qos, hosts)
  <1> DEFINE k == Keyed(st[i].ns, st[i].qos, hosts)
  <1>1. st[i] \in Keys /\ st[i] = Keyed(st[i].ns, st[i].qos, st[i].hosts)
    BY KeyFields
  <1>2. [st[i] EXCEPT !.hosts = hosts] = k
    BY <1>1, SMTT(30) DEF Keyed, Keys
  <1>3. HostsSet(st, i, hosts) = [st EXCEPT ![i] = k]
    BY <1>2 DEF HostsSet
  <1>4. k \in Keys /\ k.ns = st[i].ns /\ k.qos = st[i].qos /\ k.hosts = hosts
    BY KeyFields, KeyedFields
  <1> HIDE DEF k
  <1> QED
    BY <1>3, <1>4 DEF Differs, Contents

LEMMA NoKeysAreKeys == NoKeys \in Keys /\ NoKeys.ns = None /\ NoKeys.qos = NoLimits /\ NoKeys.hosts = {}
  BY NoLimitsIsLimited DEF NoKeys, Keys

\* what a deletion leaves
LEMMA WithoutNamespaceIs ==
    ASSUME omap \in Contents, NEW i \in Ids
    PROVE  /\ WithoutNamespace(i) \in Contents
           /\ WithoutNamespace(i)[i] = NoKeys
           /\ \A j \in Ids : j # i =>
                 /\ WithoutNamespace(i)[j].ns = omap[j].ns
                 /\ WithoutNamespace(i)[j].hosts = omap[j].hosts
                 /\ WithoutNamespace(i)[j].qos = omap[j].qos
                    \/ WithoutNamespace(i)[j].qos = NoLimits
  <1> DEFINE W(j) == IF j = i THEN NoKeys
                     ELSE IF StartsWith(j, i) THEN [omap[j] EXCEPT !.qos = NoLimits] ELSE omap[j]
  <1>1. ASSUME NEW j \in Ids
        PROVE  LET k == [omap[j] EXCEPT !.qos = NoLimits]
               IN  k \in Keys /\ k.ns = omap[j].ns /\ k.qos = NoLimits /\ k.hosts = omap[j].hosts
    BY KeyFields, NoLimitsIsLimited DEF Keys
  <1>2. ASSUME NEW j \in Ids
        PROVE  /\ W(j) \in Keys
               /\ j = i => W(j) = NoKeys
               /\ j # i => /\ W(j).ns = omap[j].ns /\ W(j).hosts = omap[j].hosts
                           /\ W(j).qos = omap[j].qos \/ W(j).qos = NoLimits
    <2>1. CASE j = i
      BY <2>1, NoKeysAreKeys
    <2>2. CASE j # i
      BY <1>1, <2>2, KeyFields
    <2> QED
      BY <2>1, <2>2
  <1>3. WithoutNamespace(i) = [j \in Ids |-> W(j)]
    BY DEF WithoutNamespace
  <1> HIDE DEF W
  <1> QED
    BY <1>2, <1>3 DEF Contents

\* a deletion takes the limits of its ID and those of every ID that starts with it
LEMMA WithoutKeysIs ==
    ASSUME omap \in Contents, NEW i \in Ids, NEW hosts
    PROVE  Differs(WithoutKeys(i, hosts), omap, i, omap[i].ns, NoLimits, omap[i].hosts \ hosts)
  <1> DEFINE k == Keyed(omap[i].ns, NoLimits, omap[i].hosts \ hosts)
             m == [omap[i] EXCEPT !.qos = NoLimits]
  <1>1. omap[i] \in Keys /\ omap[i] = Keyed(omap[i].ns, omap[i].qos, omap[i].hosts)
    BY KeyFields
  <1>2. m = Keyed(omap[i].ns, NoLimits, omap[i].hosts)
    BY <1>1, SMTT(30) DEF Keyed, Keys
  <1>3. WithoutKeys(i, hosts) = [omap EXCEPT ![i] = [m EXCEPT !.hosts = @ \ hosts]]
    BY DEF WithoutKeys, Contents
  <1>4. [m EXCEPT !.hosts = @ \ hosts] = k
    <2> HIDE DEF m
    <2> QED
      BY <1>2, SMTT(30) DEF Keyed
  <1>5. k \in Keys /\ k.ns = omap[i].ns /\ k.qos = NoLimits /\ k.hosts = omap[i].hosts \ hosts
    BY KeyFields, KeyedFields, NoLimitsIsLimited
  <1> HIDE DEF k, m
  <1> QED
    BY <1>3, <1>4, <1>5 DEF Differs, Contents

\* an entry with another value of one field
Placed(inst, grp, vis, trash) == [inst |-> inst, grp |-> grp, vis |-> vis, trash |-> trash]

LEMMA EntryWith ==
    ASSUME NEW e \in Entries
    PROVE  /\ \A grp \in Groups : [e EXCEPT !.grp = grp] = Placed(e.inst, grp, e.vis, e.trash)
           /\ \A vis \in BOOLEAN : [e EXCEPT !.vis = vis] = Placed(e.inst, e.grp, vis, e.trash)
           /\ \A trash \in BOOLEAN : [e EXCEPT !.trash = trash] = Placed(e.inst, e.grp, e.vis, trash)
           /\ e = Placed(e.inst, e.grp, e.vis, e.trash)
  <1>1. ASSUME NEW grp \in Groups
        PROVE  [e EXCEPT !.grp = grp] = Placed(e.inst, grp, e.vis, e.trash)
    BY SMTT(30) DEF Entries, Placed
  <1>2. ASSUME NEW vis \in BOOLEAN
        PROVE  [e EXCEPT !.vis = vis] = Placed(e.inst, e.grp, vis, e.trash)
    BY SMTT(30) DEF Entries, Placed
  <1>3. ASSUME NEW trash \in BOOLEAN
        PROVE  [e EXCEPT !.trash = trash] = Placed(e.inst, e.grp, e.vis, trash)
    BY SMTT(30) DEF Entries, Placed
  <1>4. e = Placed(e.inst, e.grp, e.vis, e.trash)
    BY SMTT(30) DEF Entries, Placed
  <1> QED
    BY <1>1, <1>2, <1>3, <1>4

LEMMA PlacedFields ==
    ASSUME NEW inst, NEW grp, NEW vis, NEW trash
    PROVE  LET e == Placed(inst, grp, vis, trash)
           IN  /\ e.inst = inst /\ e.grp = grp /\ e.vis = vis /\ e.trash = trash
               /\ inst \in Insts /\ grp \in Groups /\ vis \in BOOLEAN /\ trash \in BOOLEAN =>
                     e \in Entries
  BY DEF Placed, Entries

(***************************************************************************)
(* What update() has left to do                                            *)
(***************************************************************************)
\* v is u with less to do
Less(v, u) ==
    /\ v \in Updates
    /\ v.ver = u.ver /\ v.st = u.st
    /\ v.drop \subseteq u.drop /\ v.add \subseteq u.add /\ v.qos \subseteq u.qos
    /\ v.grp \subseteq u.grp /\ v.vis \subseteq u.vis /\ v.trash \subseteq u.trash
    /\ v.delhost \subseteq u.delhost /\ v.addhost \subseteq u.addhost

LEMMA UpdateFields ==
    ASSUME NEW u \in Updates
    PROVE  /\ u.ver \in Nat /\ u.st \in Contents
           /\ u.drop \in SUBSET Ids /\ u.add \in SUBSET Ids /\ u.qos \in SUBSET Ids
           /\ u.grp \in SUBSET Ids /\ u.vis \in SUBSET Ids /\ u.trash \in SUBSET Ids
           /\ u.delhost \in SUBSET (Ids \X Hosts) /\ u.addhost \in SUBSET (Ids \X Hosts)
  BY DEF Updates

LEMMA Less_drop ==
    ASSUME NEW u \in Updates, NEW x
    PROVE  LET v == [u EXCEPT !.drop = @ \ {x}]
           IN  /\ Less(v, u)
               /\ v.drop = u.drop \ {x}
               /\ v.add = u.add /\ v.qos = u.qos /\ v.grp = u.grp /\ v.vis = u.vis
               /\ v.trash = u.trash /\ v.delhost = u.delhost /\ v.addhost = u.addhost
  BY SMTT(30) DEF Updates, Less

LEMMA Less_add ==
    ASSUME NEW u \in Updates, NEW x
    PROVE  LET v == [u EXCEPT !.add = @ \ {x}]
           IN  /\ Less(v, u)
               /\ v.add = u.add \ {x}
               /\ v.drop = u.drop /\ v.qos = u.qos /\ v.grp = u.grp /\ v.vis = u.vis
               /\ v.trash = u.trash /\ v.delhost = u.delhost /\ v.addhost = u.addhost
  BY SMTT(30) DEF Updates, Less

LEMMA Less_qos ==
    ASSUME NEW u \in Updates, NEW x
    PROVE  LET v == [u EXCEPT !.qos = @ \ {x}]
           IN  /\ Less(v, u)
               /\ v.qos = u.qos \ {x}
               /\ v.drop = u.drop /\ v.add = u.add /\ v.grp = u.grp /\ v.vis = u.vis
               /\ v.trash = u.trash /\ v.delhost = u.delhost /\ v.addhost = u.addhost
  BY SMTT(30) DEF Updates, Less

LEMMA Less_grp ==
    ASSUME NEW u \in Updates, NEW x
    PROVE  LET v == [u EXCEPT !.grp = @ \ {x}]
           IN  /\ Less(v, u)
               /\ v.grp = u.grp \ {x}
               /\ v.drop = u.drop /\ v.add = u.add /\ v.qos = u.qos /\ v.vis = u.vis
               /\ v.trash = u.trash /\ v.delhost = u.delhost /\ v.addhost = u.addhost
  BY SMTT(30) DEF Updates, Less

LEMMA Less_vis ==
    ASSUME NEW u \in Updates, NEW x
    PROVE  LET v == [u EXCEPT !.vis = @ \ {x}]
           IN  /\ Less(v, u)
               /\ v.vis = u.vis \ {x}
               /\ v.drop = u.drop /\ v.add = u.add /\ v.qos = u.qos /\ v.grp = u.grp
               /\ v.trash = u.trash /\ v.delhost = u.delhost /\ v.addhost = u.addhost
  BY SMTT(30) DEF Updates, Less

LEMMA Less_trash ==
    ASSUME NEW u \in Updates, NEW x
    PROVE  LET v == [u EXCEPT !.trash = @ \ {x}]
           IN  /\ Less(v, u)
               /\ v.trash = u.trash \ {x}
               /\ v.drop = u.drop /\ v.add = u.add /\ v.qos = u.qos /\ v.grp = u.grp
               /\ v.vis = u.vis /\ v.delhost = u.delhost /\ v.addhost = u.addhost
  BY SMTT(30) DEF Updates, Less

LEMMA Less_delhost ==
    ASSUME NEW u \in Updates, NEW x
    PROVE  LET v == [u EXCEPT !.delhost = @ \ {x}]
           IN  /\ Less(v, u)
               /\ v.delhost = u.delhost \ {x}
               /\ v.drop = u.drop /\ v.add = u.add /\ v.qos = u.qos /\ v.grp = u.grp
               /\ v.vis = u.vis /\ v.trash = u.trash /\ v.addhost = u.addhost
  BY SMTT(30) DEF Updates, Less

LEMMA Less_addhost ==
    ASSUME NEW u \in Updates, NEW x
    PROVE  LET v == [u EXCEPT !.addhost = @ \ {x}]
           IN  /\ Less(v, u)
               /\ v.addhost = u.addhost \ {x}
               /\ v.drop = u.drop /\ v.add = u.add /\ v.qos = u.qos /\ v.grp = u.grp
               /\ v.vis = u.vis /\ v.trash = u.trash /\ v.delhost = u.delhost
  BY SMTT(30) DEF Updates, Less

(***************************************************************************)
(* The first invariant: types, versions, plans, requests and images        *)
(***************************************************************************)
VersionInv ==
    /\ version > 1
    /\ \A g \in Gateways :
          /\ local[g].ver <= version
          /\ local[g].ver = version => local[g].st = omap
          /\ update[g] # None =>
                /\ local[g].ver < update[g].ver /\ update[g].ver <= version
                /\ update[g].ver = version => update[g].st = omap

\* two contents have the same namespace at an ID
Same(a, b) == a.ns # None /\ b.ns # None /\ a.ns.inst = b.ns.inst

\* what an update u of the content o may do
Planned(u, o) ==
    \A i \in Ids :
        /\ i \in u.drop => o[i].ns # None
        /\ i \in u.add => u.st[i].ns # None
        /\ i \in u.grp \cup u.vis \cup u.trash => Same(o[i], u.st[i])
        /\ i \in u.drop \cup u.add => ~Same(o[i], u.st[i])
        /\ i \in u.qos => u.st[i].qos # NoLimits
        /\ \A h \in Hosts : <<i, h>> \in u.delhost => h \in o[i].hosts \ u.st[i].hosts
        /\ \A h \in Hosts : <<i, h>> \in u.addhost => h \in u.st[i].hosts \ o[i].hosts

PlannedInv == \A g \in Gateways : update[g] # None => Planned(update[g], local[g].st)

\* a waiting request has found its namespace
HasFound(q) == q.waiting /\ q.ask.op \notin {"add", "group"} => q.found # None

RequestInv ==
    /\ requests <= MaxRequests
    /\ \A c \in Clients : req[c] # None =>
          /\ req[c].inst <= requests
          /\ HasFound(req[c])
          /\ \A d \in Clients : d # c /\ req[d] # None => req[c].inst # req[d].inst

\* image n is, or was to some reader, namespace i
Held(n, i) ==
    \/ Is(omap[i].ns, n)
    \/ \E g \in Gateways :  \/ Is(local[g].st[i].ns, n)
                            \/ (update[g] # None /\ Is(update[g].st[i].ns, n))
                            \/ InGateway(gw[g], i, n)
    \/ \E c \in Clients : req[c] # None /\ req[c].id = i /\ req[c].found = n
Places == [n \in Insts |-> {i \in Ids : Held(n, i)}]

\* P puts every image at one ID, and those requests have yet to make at none
Sole(P) ==
    \A n \in Insts :
        /\ \A i, j \in P[n] : i = j
        /\ P[n] # {} => n <= requests /\ \A c \in Clients : req[c] # None => req[c].inst # n
OwnInv == Sole(Places)

\* every namespace of the state is where P has it
GoodRequest(q, P) == q # None /\ q.found # None => q.id \in P[q.found]
GoodState(P) ==
    /\ GoodContent(omap, P)
    /\ \A g \in Gateways :  /\ GoodContent(local[g].st, P)
                            /\ (update[g] # None => GoodContent(update[g].st, P))
                            /\ GoodGateway(gw[g], P)
    /\ \A c \in Clients : GoodRequest(req[c], P)

AllServed == \A g \in Gateways : ServedAsListed(gw[g])
BaseInv ==
    EntryTypeOK /\ VersionInv /\ PlannedInv /\ RequestInv /\ OwnInv /\ AllServed

\* the invariant in the form the steps keep
LEMMA StateIsGood ==
    ASSUME EntryTypeOK, AllServed
    PROVE  GoodState(Places)
  <1>1. ASSUME NEW st \in Contents,
               \A n \in Insts, i \in Ids : Is(st[i].ns, n) => Held(n, i)
        PROVE  GoodContent(st, Places)
    BY <1>1 DEF GoodContent, Places
  <1>2. GoodContent(omap, Places)
    BY <1>1 DEF EntryTypeOK, Held
  <1>3. ASSUME NEW g \in Gateways
        PROVE  GoodContent(local[g].st, Places)
    <2>1. local[g].st \in Contents
      BY DEF EntryTypeOK
    <2> QED
      BY <1>1, <2>1 DEF Held
  <1>4. ASSUME NEW g \in Gateways, update[g] # None
        PROVE  GoodContent(update[g].st, Places)
    <2>1. update[g].st \in Contents
      BY <1>4, UpdateFields DEF EntryTypeOK
    <2> QED
      BY <1>1, <1>4, <2>1 DEF Held
  <1>5. ASSUME NEW g \in Gateways
        PROVE  GoodGateway(gw[g], Places)
    BY DEF EntryTypeOK, GoodGateway, AllServed, Places, Held
  <1>6. ASSUME NEW c \in Clients
        PROVE  GoodRequest(req[c], Places)
    <2> SUFFICES ASSUME req[c] # None, req[c].found # None
                 PROVE  req[c].id \in Places[req[c].found]
      BY DEF GoodRequest
    <2>1. req[c].id \in Ids /\ req[c].found \in Insts
      BY DEF EntryTypeOK, Requests
    <2> QED
      BY <2>1 DEF Places, Held
  <1> QED
    BY <1>2, <1>3, <1>4, <1>5, <1>6 DEF GoodState

\* If every namespace is where P has it, P being sole, the images are.
GoodThenSole == \A P \in [Insts -> SUBSET Ids] : GoodState(P) /\ Sole(P) => OwnInv /\ AllServed

\* when places are sole, so is every image in every table
LEMMA GoodIsSole ==
    ASSUME EntryTypeOK
    PROVE  GoodThenSole
  <1> SUFFICES ASSUME NEW P \in [Insts -> SUBSET Ids], GoodState(P), Sole(P)
               PROVE  OwnInv /\ AllServed
    BY DEF GoodThenSole
  <1>1. ASSUME NEW n \in Insts, NEW i \in Ids, Held(n, i)
        PROVE  i \in P[n]
    <2>1. n # None
      BY EntryNone, EntryBounds DEF Insts
    <2>2. CASE Is(omap[i].ns, n)
      BY <2>2 DEF GoodState, GoodContent
    <2>3. ASSUME NEW g \in Gateways
          PROVE  /\ Is(local[g].st[i].ns, n) => i \in P[n]
                 /\ (update[g] # None /\ Is(update[g].st[i].ns, n)) => i \in P[n]
                 /\ InGateway(gw[g], i, n) => i \in P[n]
      <3>1. GoodContent(local[g].st, P) /\ GoodGateway(gw[g], P)
        BY DEF GoodState
      <3>2. update[g] # None => GoodContent(update[g].st, P)
        BY DEF GoodState
      <3> QED
        BY <3>1, <3>2 DEF GoodContent, GoodGateway
    <2>4. ASSUME NEW c \in Clients, req[c] # None, req[c].id = i, req[c].found = n
          PROVE  i \in P[n]
      BY <2>1, <2>4 DEF GoodState, GoodRequest
    <2> QED
      BY <1>1, <2>2, <2>3, <2>4 DEF Held
  <1>2. \A n \in Insts : Places[n] \subseteq P[n]
    BY <1>1 DEF Places
  <1>3. OwnInv
    BY <1>2 DEF OwnInv, Sole
  <1>4. AllServed
    BY DEF AllServed, GoodState, GoodGateway
  <1> QED
    BY <1>3, <1>4

(***************************************************************************)
(* What the actions have in common, as far as the first invariant goes     *)
(***************************************************************************)
\* where the namespaces may be once request c has made its own
PlacesAnd(c) == [Places EXCEPT ![req[c].inst] = {req[c].id}]
PlacesAfter(c) == IF req[c].ask.op = "add" THEN PlacesAnd(c) ELSE Places

\* a request before it has the lock: its record changes or it is answered
IsRequest(q, old) ==
    /\ q \in Requests
    /\ q.inst = old.inst /\ q.id = old.id
    /\ HasFound(q)
    /\ GoodRequest(q, Places)
Waits(c) ==
    /\ req[c] # None
    /\ \E q : (q = None \/ IsRequest(q, req[c])) /\ req' = [req EXCEPT ![c] = q]
    /\ UNCHANGED <<omapVars, local, gw, update, requests>>

\* a request that writes
Writes(c) ==
    /\ req[c] # None
    /\ \E r, new : /\ GoodGateway(r, PlacesAfter(c)) /\ GoodContent(new, PlacesAfter(c))
                   /\ gw' = [gw EXCEPT ![req[c].gw] = r]
                   /\ Write(req[c].gw, new)
    /\ ~Behind(req[c].gw)
    /\ Answer(c)
    /\ UNCHANGED <<update, requests>>

\* a request that changes its gateway only
Stays(c) ==
    /\ req[c] # None
    /\ \E r : GoodGateway(r, PlacesAfter(c)) /\ gw' = [gw EXCEPT ![req[c].gw] = r]
    /\ Answer(c)
    /\ UNCHANGED <<omapVars, local, update, requests>>

Restarts(g) ==
    /\ Restart(g)
    /\ \/ UNCHANGED omapVars
       \/ GoodContent(omap', Places) /\ version' = version + 1
    /\ UNCHANGED requests

\* a call of update()
Calls(g) ==
    /\ update[g] # None
    /\ \E r, u : /\ GoodGateway(r, Places) /\ Less(u, update[g])
                 /\ gw' = [gw EXCEPT ![g] = r]
                 /\ update' = [update EXCEPT ![g] = u]
    /\ UNCHANGED <<omapVars, local, req, requests>>

\* the parts of the state the forms say nothing of
RestTypes ==
    /\ images \in [trashed : SUBSET Insts, kept : SUBSET Insts]
    /\ faults \in Nat /\ crashes \in Nat
    /\ troubled \in [Gateways -> BOOLEAN]
    /\ drift \in SUBSET {"qos", "hosts"}
CoreTypes ==
    /\ omap \in Contents
    /\ version \in Nat
    /\ local \in [Gateways -> [ver : Nat, st : Contents]]
    /\ gw \in [Gateways -> GatewayStates]
    /\ update \in [Gateways -> Updates \cup {None}]
    /\ req \in [Clients -> Requests \cup {None}]
    /\ requests \in Nat

\* the invariant but for those and for what GoodIsSole gives
Core == CoreTypes /\ VersionInv /\ PlannedInv /\ RequestInv
GoodCore(P) == Core /\ GoodState(P) /\ Sole(P)
CoreNext(P) == Core' /\ GoodState(P)' /\ Sole(P)'

LEMMA LocalFields ==
    ASSUME CoreTypes
    PROVE  \A g \in Gateways :
              /\ local[g] \in [ver : Nat, st : Contents]
              /\ local[g].ver \in Nat /\ local[g].st \in Contents
              /\ gw[g] \in GatewayStates
              /\ update[g] # None =>
                    update[g] \in Updates /\ update[g].ver \in Nat /\ update[g].st \in Contents
  <1>1. \A g \in Gateways : local[g] \in [ver : Nat, st : Contents]
    BY DEF CoreTypes
  <1>2. \A g \in Gateways : update[g] # None => update[g] \in Updates
    BY DEF CoreTypes
  <1>3. \A g \in Gateways : gw[g] \in GatewayStates
    BY DEF CoreTypes
  <1> QED
    BY <1>1, <1>2, <1>3, UpdateFields

LEMMA RequestFields ==
    ASSUME NEW q \in Requests
    PROVE  /\ q.gw \in Gateways /\ q.id \in Ids /\ q.ask \in Asks /\ q.inst \in Insts
           /\ q.waiting \in BOOLEAN /\ q.found \in Insts \cup {None} /\ q.flag \in BOOLEAN
           /\ q.qos \in Limited
  BY DEF Requests

\* Waiting changes no namespace.
LEMMA WaitsCore ==
    ASSUME GoodCore(Places), NEW c \in Clients, Waits(c), NEW P, P = Places
    PROVE  CoreNext(P)
  <1> PICK q : (q = None \/ IsRequest(q, req[c])) /\ req' = [req EXCEPT ![c] = q]
    BY DEF Waits
  <1>1. req \in [Clients -> Requests \cup {None}]
    BY DEF GoodCore, Core, CoreTypes
  <1>2. UNCHANGED <<omap, version, local, gw, update, requests>> /\ req[c] # None
    BY DEF Waits, omapVars
  <1>3. CoreTypes'
    <2>1. req' \in [Clients -> Requests \cup {None}]
      BY <1>1 DEF IsRequest
    <2> QED
      BY <1>2, <2>1 DEF GoodCore, Core, CoreTypes
  <1>4. VersionInv' /\ PlannedInv'
    BY <1>2 DEF GoodCore, Core, VersionInv, PlannedInv
  <1>5. req'[c] = q /\ \A d \in Clients : d # c => req'[d] = req[d]
    BY <1>1
  <1>6. q # None => q.inst = req[c].inst /\ HasFound(q)
    BY DEF IsRequest
  <1>7. RequestInv'
    BY <1>2, <1>5, <1>6 DEF GoodCore, Core, RequestInv
  <1>8. GoodState(P)'
    <2>1. \A d \in Clients : GoodRequest(req'[d], P)
      BY <1>5 DEF IsRequest, GoodRequest, GoodCore, GoodState
    <2> QED
      BY <1>2, <2>1 DEF GoodCore, GoodState
  <1>9. Sole(P)'
    <2>1. \A d \in Clients : req'[d] # None => req[d] # None /\ req'[d].inst = req[d].inst
      BY <1>2, <1>5, <1>6
    <2> QED
      BY <1>2, <2>1 DEF GoodCore, Sole
  <1> QED
    BY <1>3, <1>4, <1>7, <1>8, <1>9 DEF CoreNext, Core

\* An answered request that may have made its own namespace.
LEMMA PlacesAfterAreSole ==
    ASSUME GoodCore(Places), NEW c \in Clients, req[c] # None, Answer(c), UNCHANGED requests,
           NEW P, P = PlacesAfter(c)
    PROVE  /\ Sole(P)'
           /\ P \in [Insts -> SUBSET Ids]
           /\ \A n \in Insts : Places[n] \subseteq P[n]
           /\ req[c].ask.op # "add" => P = Places
  <1> DEFINE q == req[c]
  <1>1. req \in [Clients -> Requests \cup {None}] /\ q \in Requests
    BY DEF GoodCore, Core, CoreTypes
  <1>2. q.inst \in Insts /\ q.id \in Ids
    BY <1>1, RequestFields
  <1>3. Places \in [Insts -> SUBSET Ids]
    BY DEF Places
  <1>4. Places[q.inst] = {}
    <2>1. Places[q.inst] \subseteq Ids
      BY <1>2, <1>3
    <2> QED
      BY <1>2, <2>1 DEF GoodCore, Sole
  <1>5. \A d \in Clients : req'[d] # None => d # c /\ req'[d] = req[d]
    BY <1>1 DEF Answer
  <1>6. \A d \in Clients : req'[d] # None => req'[d].inst # q.inst
    BY <1>5 DEF GoodCore, Core, RequestInv
  <1>7. q.inst <= requests
    BY DEF GoodCore, Core, RequestInv
  <1>8. CASE req[c].ask.op # "add"
    <2>1. P = Places
      BY <1>8 DEF PlacesAfter
    <2>2. Sole(P)'
      BY <1>5, <2>1 DEF GoodCore, Sole
    <2> QED
      BY <1>3, <2>1, <2>2
  <1>9. CASE req[c].ask.op = "add"
    <2>1. P = [Places EXCEPT ![q.inst] = {q.id}]
      BY <1>9 DEF PlacesAfter, PlacesAnd
    <2>2. P[q.inst] = {q.id} /\ \A n \in Insts : n # q.inst => P[n] = Places[n]
      BY <1>2, <1>3, <2>1
    <2>3. P \in [Insts -> SUBSET Ids]
      BY <1>2, <1>3, <2>1
    <2>4. Sole(P)'
      <3>1. ASSUME NEW n \in Insts
            PROVE  /\ \A i, j \in P[n] : i = j
                   /\ P[n] # {} =>
                        n <= requests /\ \A d \in Clients : req'[d] # None => req'[d].inst # n
        <4>1. CASE n = q.inst
          BY <1>6, <1>7, <2>2, <4>1
        <4>2. CASE n # q.inst
          BY <1>5, <2>2, <4>2 DEF GoodCore, Sole
        <4> QED
          BY <4>1, <4>2
      <3> QED
        BY <3>1 DEF Sole
    <2> QED
      BY <1>4, <1>9, <2>2, <2>3, <2>4
  <1> QED
    BY <1>8, <1>9

\* A larger P loses nothing.
LEMMA GoodInMore ==
    ASSUME NEW P, NEW Q, \A n \in Insts : P[n] \subseteq Q[n]
    PROVE  /\ \A st : GoodContent(st, P) => GoodContent(st, Q)
           /\ \A r : GoodGateway(r, P) => GoodGateway(r, Q)
  BY DEF GoodContent, GoodGateway

LEMMA RequestInMore ==
    ASSUME NEW P, NEW Q, \A n \in Insts : P[n] \subseteq Q[n],
           NEW q \in Requests \cup {None}, GoodRequest(q, P)
    PROVE  GoodRequest(q, Q)
  <1> SUFFICES ASSUME q # None, q.found # None
               PROVE  q.id \in Q[q.found]
    BY DEF GoodRequest
  <1>1. q.found \in Insts
    BY RequestFields
  <1> QED
    BY <1>1 DEF GoodRequest

LEMMA RequestsAfterAnswer ==
    ASSUME GoodCore(Places), NEW c \in Clients, req[c] # None, Answer(c), UNCHANGED requests,
           NEW P, \A n \in Insts : Places[n] \subseteq P[n]
    PROVE  /\ req' \in [Clients -> Requests \cup {None}]
           /\ RequestInv'
           /\ \A d \in Clients : GoodRequest(req'[d], P)
  <1>1. req \in [Clients -> Requests \cup {None}]
    BY DEF GoodCore, Core, CoreTypes
  <1>2. req' \in [Clients -> Requests \cup {None}]
    BY <1>1 DEF Answer
  <1>3. \A d \in Clients : req'[d] # None => req'[d] = req[d]
    BY <1>1 DEF Answer
  <1>4. RequestInv'
    BY <1>3 DEF GoodCore, Core, RequestInv
  <1>5. ASSUME NEW d \in Clients
        PROVE  GoodRequest(req'[d], P)
    <2>1. GoodRequest(req[d], P)
      BY <1>1, RequestInMore DEF GoodCore, GoodState
    <2> QED
      BY <1>3, <2>1 DEF GoodRequest
  <1> QED
    BY <1>2, <1>4, <1>5

\* a request that writes keeps the core of the first invariant
LEMMA WritesCore ==
    ASSUME GoodCore(Places), NEW c \in Clients, Writes(c), NEW P, P = PlacesAfter(c)
    PROVE  CoreNext(P)
  <1> DEFINE g == req[c].gw
  <1> PICK r, new : /\ GoodGateway(r, P) /\ GoodContent(new, P)
                    /\ gw' = [gw EXCEPT ![g] = r]
                    /\ Write(g, new)
    BY DEF Writes
  <1>1. UNCHANGED <<update, requests>> /\ req[c] # None /\ Answer(c) /\ ~Behind(g)
    BY DEF Writes
  <1>2. CoreTypes
    BY DEF GoodCore, Core
  <1>3. g \in Gateways
    BY <1>1, <1>2, RequestFields DEF CoreTypes
  <1>4. /\ Sole(P)'
        /\ \A n \in Insts : Places[n] \subseteq P[n]
    BY <1>1, PlacesAfterAreSole
  <1>5. /\ req' \in [Clients -> Requests \cup {None}] /\ RequestInv'
        /\ \A d \in Clients : GoodRequest(req'[d], P)
    BY <1>1, <1>4, RequestsAfterAnswer
  <1>6. r \in GatewayStates /\ new \in Contents
    BY DEF GoodGateway, GoodContent
  <1> HIDE DEF g
  <1>7. /\ omap' = new /\ version' = version + 1
        /\ local' = [local EXCEPT ![g] = [ver |-> version + 1, st |-> new]]
    BY DEF Write
  <1>8. CoreTypes'
    <2>1. gw' \in [Gateways -> GatewayStates]
      BY <1>2, <1>6 DEF CoreTypes
    <2>3. version' \in Nat
      BY <1>2, <1>7 DEF CoreTypes
    <2>2. local' \in [Gateways -> [ver : Nat, st : Contents]]
      <3> DEFINE e == [ver |-> version + 1, st |-> new]
      <3>1. e \in [ver : Nat, st : Contents]
        BY <1>6, <1>7, <2>3
      <3>2. local' = [local EXCEPT ![g] = e]
        BY <1>7
      <3> HIDE DEF e
      <3> QED
        BY <1>2, <3>1, <3>2 DEF CoreTypes
    <2> QED
      BY <1>1, <1>2, <1>5, <1>6, <1>7, <2>1, <2>2, <2>3 DEF CoreTypes
  <1>9. /\ local'[g].ver = version + 1 /\ local'[g].st = new
        /\ \A h \in Gateways : h # g => local'[h] = local[h]
        /\ gw'[g] = r /\ \A h \in Gateways : h # g => gw'[h] = gw[h]
    BY <1>2, <1>3, <1>7 DEF CoreTypes
  <1>10. update[g] = None
    <2>1. local[g].ver \in Nat /\ version \in Nat
      BY <1>2, <1>3, LocalFields DEF CoreTypes
    <2>2. update[g] # None => update[g].ver \in Nat
      BY <1>2, <1>3, LocalFields
    <2>3. local[g].ver >= version
      BY <1>1, <2>1 DEF Behind
    <2> QED
      BY <1>3, <2>1, <2>2, <2>3 DEF GoodCore, Core, VersionInv
  <1>11. VersionInv'
    <2>1. version \in Nat /\ version > 1
      BY <1>2 DEF CoreTypes, GoodCore, Core, VersionInv
    <2>2. ASSUME NEW h \in Gateways
          PROVE  /\ local'[h].ver <= version'
                 /\ local'[h].ver = version' => local'[h].st = omap'
                 /\ update'[h] # None =>
                       /\ local'[h].ver < update'[h].ver /\ update'[h].ver <= version'
                       /\ update'[h].ver = version' => update'[h].st = omap'
      <3>1. CASE h = g
        BY <1>1, <1>7, <1>9, <1>10, <2>1, <3>1
      <3>2. CASE h # g
        <4>1. local[h].ver \in Nat /\ (update[h] # None => update[h].ver \in Nat)
          BY <1>2, LocalFields
        <4>2. /\ local[h].ver <= version
              /\ update[h] # None => local[h].ver < update[h].ver /\ update[h].ver <= version
          BY DEF GoodCore, Core, VersionInv
        <4> QED
          BY <1>1, <1>7, <1>9, <2>1, <3>2, <4>1, <4>2
      <3> QED
        BY <3>1, <3>2
    <2> QED
      BY <1>7, <2>1, <2>2 DEF VersionInv
  <1>12. PlannedInv'
    <2>1. \A h \in Gateways : update'[h] # None => update'[h] = update[h] /\ local'[h] = local[h]
      BY <1>1, <1>9, <1>10
    <2> QED
      BY <1>1, <2>1 DEF GoodCore, Core, PlannedInv
  <1>13. GoodState(P)'
    <2>1. ASSUME NEW h \in Gateways
          PROVE  /\ GoodContent(local'[h].st, P)
                 /\ update'[h] # None => GoodContent(update'[h].st, P)
                 /\ GoodGateway(gw'[h], P)
      <3>1. /\ GoodContent(local[h].st, P)
            /\ update[h] # None => GoodContent(update[h].st, P)
            /\ GoodGateway(gw[h], P)
        BY <1>4, GoodInMore DEF GoodCore, GoodState
      <3> QED
        BY <1>1, <1>9, <3>1
    <2> QED
      BY <1>5, <1>7, <2>1 DEF GoodState
  <1> QED
    BY <1>4, <1>5, <1>8, <1>11, <1>12, <1>13 DEF CoreNext, Core

\* so does one that writes nothing,
LEMMA StaysCore ==
    ASSUME GoodCore(Places), NEW c \in Clients, Stays(c), NEW P, P = PlacesAfter(c)
    PROVE  CoreNext(P)
  <1> DEFINE g == req[c].gw
  <1> PICK r : GoodGateway(r, P) /\ gw' = [gw EXCEPT ![g] = r]
    BY DEF Stays
  <1>1. UNCHANGED <<omap, version, local, update, requests>> /\ req[c] # None /\ Answer(c)
    BY DEF Stays, omapVars
  <1>2. CoreTypes
    BY DEF GoodCore, Core
  <1>3. g \in Gateways
    BY <1>1, <1>2, RequestFields DEF CoreTypes
  <1>4. /\ Sole(P)'
        /\ \A n \in Insts : Places[n] \subseteq P[n]
    BY <1>1, PlacesAfterAreSole
  <1>5. /\ req' \in [Clients -> Requests \cup {None}] /\ RequestInv'
        /\ \A d \in Clients : GoodRequest(req'[d], P)
    BY <1>1, <1>4, RequestsAfterAnswer
  <1>6. r \in GatewayStates
    BY DEF GoodGateway
  <1> HIDE DEF g
  <1>7. gw' \in [Gateways -> GatewayStates] /\ gw'[g] = r
        /\ \A h \in Gateways : h # g => gw'[h] = gw[h]
    BY <1>2, <1>3, <1>6 DEF CoreTypes
  <1>8. CoreTypes'
    BY <1>1, <1>2, <1>5, <1>7 DEF CoreTypes
  <1>9. VersionInv' /\ PlannedInv'
    BY <1>1 DEF GoodCore, Core, VersionInv, PlannedInv
  <1>10. GoodState(P)'
    <2>1. GoodContent(omap, P)
      BY <1>4, GoodInMore DEF GoodCore, GoodState
    <2>2. ASSUME NEW h \in Gateways
          PROVE  /\ GoodContent(local[h].st, P)
                 /\ update[h] # None => GoodContent(update[h].st, P)
                 /\ GoodGateway(gw'[h], P)
      <3>1. /\ GoodContent(local[h].st, P)
            /\ update[h] # None => GoodContent(update[h].st, P)
            /\ GoodGateway(gw[h], P)
        BY <1>4, GoodInMore DEF GoodCore, GoodState
      <3> QED
        BY <1>7, <3>1
    <2> QED
      BY <1>1, <1>5, <2>1, <2>2 DEF GoodState
  <1> QED
    BY <1>4, <1>5, <1>8, <1>9, <1>10 DEF CoreNext, Core

\* a call update() makes,
LEMMA CallsCore ==
    ASSUME GoodCore(Places), NEW g \in Gateways, Calls(g), NEW P, P = Places
    PROVE  CoreNext(P)
  <1> PICK r, u : /\ GoodGateway(r, P) /\ Less(u, update[g])
                  /\ gw' = [gw EXCEPT ![g] = r]
                  /\ update' = [update EXCEPT ![g] = u]
    BY DEF Calls
  <1>1. UNCHANGED <<omap, version, local, req, requests>> /\ update[g] # None
    BY DEF Calls, omapVars
  <1>2. CoreTypes
    BY DEF GoodCore, Core
  <1>3. r \in GatewayStates /\ u \in Updates /\ u.ver = update[g].ver /\ u.st = update[g].st
    BY DEF GoodGateway, Less
  <1>4. gw' \in [Gateways -> GatewayStates] /\ gw'[g] = r
        /\ \A h \in Gateways : h # g => gw'[h] = gw[h]
    BY <1>2, <1>3 DEF CoreTypes
  <1>5. update' \in [Gateways -> Updates \cup {None}] /\ update'[g] = u
        /\ \A h \in Gateways : h # g => update'[h] = update[h]
    BY <1>2, <1>3 DEF CoreTypes
  <1>6. CoreTypes'
    BY <1>1, <1>2, <1>4, <1>5 DEF CoreTypes
  <1>7. \A h \in Gateways : update'[h] # None =>
           update[h] # None /\ update'[h].ver = update[h].ver /\ update'[h].st = update[h].st
    BY <1>1, <1>3, <1>5
  <1>8. VersionInv'
    BY <1>1, <1>7 DEF GoodCore, Core, VersionInv
  <1>9. PlannedInv'
    <2>1. Planned(update[g], local[g].st)
      BY <1>1 DEF GoodCore, Core, PlannedInv
    <2>2. Planned(u, local[g].st)
      BY <1>3, <2>1 DEF Planned, Less
    <2> QED
      BY <1>1, <1>5, <2>2 DEF GoodCore, Core, PlannedInv
  <1>10. RequestInv'
    BY <1>1 DEF GoodCore, Core, RequestInv
  <1>11. GoodState(P)'
    <2>1. ASSUME NEW h \in Gateways
          PROVE  /\ GoodContent(local[h].st, P)
                 /\ update'[h] # None => GoodContent(update'[h].st, P)
                 /\ GoodGateway(gw'[h], P)
      <3>1. /\ GoodContent(local[h].st, P)
            /\ update[h] # None => GoodContent(update[h].st, P)
            /\ GoodGateway(gw[h], P)
        BY DEF GoodCore, GoodState
      <3> QED
        BY <1>4, <1>7, <3>1
    <2> QED
      BY <1>1, <2>1 DEF GoodCore, GoodState
  <1>12. Sole(P)'
    BY <1>1 DEF GoodCore, Sole
  <1> QED
    BY <1>6, <1>8, <1>9, <1>10, <1>11, <1>12 DEF CoreNext, Core

\* a process that dies and starts again,
LEMMA RestartsCore ==
    ASSUME GoodCore(Places), NEW g \in Gateways, Restarts(g), NEW P, P = Places
    PROVE  CoreNext(P)
  <1>1. /\ gw' = [gw EXCEPT ![g] = NewGateway]
        /\ local' = [local EXCEPT ![g] = [ver |-> 1, st |-> EmptyContent]]
        /\ update' = [update EXCEPT ![g] = None]
        /\ req' = [c \in Clients |-> IF req[c] # None /\ req[c].gw = g THEN None ELSE req[c]]
        /\ requests' = requests
        /\ \/ omap' = omap /\ version' = version
           \/ GoodContent(omap', P) /\ version' = version + 1
    BY DEF Restarts, Restart, omapVars
  <1>2. CoreTypes
    BY DEF GoodCore, Core
  <1>3. GoodGateway(NewGateway, P) /\ NewGateway \in GatewayStates
    BY NewGatewayIsGood DEF GoodGateway
  <1>4. EmptyContent \in Contents /\ \A i \in Ids : EmptyContent[i].ns = None
    BY NoKeysAreKeys DEF EmptyContent, Contents
  <1>5. GoodContent(EmptyContent, P)
    BY <1>4 DEF GoodContent, Is
  <1>6. /\ gw' \in [Gateways -> GatewayStates] /\ gw'[g] = NewGateway
        /\ \A h \in Gateways : h # g => gw'[h] = gw[h]
    BY <1>1, <1>2, <1>3 DEF CoreTypes
  <1>7. /\ local' \in [Gateways -> [ver : Nat, st : Contents]]
        /\ local'[g].ver = 1 /\ local'[g].st = EmptyContent
        /\ \A h \in Gateways : h # g => local'[h] = local[h]
    <2> DEFINE e == [ver |-> 1, st |-> EmptyContent]
    <2>1. e \in [ver : Nat, st : Contents] /\ e.ver = 1 /\ e.st = EmptyContent
      BY <1>4
    <2>2. local' = [local EXCEPT ![g] = e]
      BY <1>1
    <2> HIDE DEF e
    <2> QED
      BY <1>2, <2>1, <2>2 DEF CoreTypes
  <1>8. /\ update' \in [Gateways -> Updates \cup {None}] /\ update'[g] = None
        /\ \A h \in Gateways : h # g => update'[h] = update[h]
    BY <1>1, <1>2 DEF CoreTypes
  <1>9. /\ req' \in [Clients -> Requests \cup {None}]
        /\ \A c \in Clients : req'[c] # None => req'[c] = req[c]
    BY <1>1, <1>2 DEF CoreTypes
  <1>10. omap' \in Contents /\ version' \in Nat /\ version' >= version /\ version > 1
         /\ GoodContent(omap', P) /\ version \in Nat
         /\ (version' = version => omap' = omap)
    BY <1>1, <1>2 DEF CoreTypes, GoodContent, GoodCore, Core, VersionInv, GoodState
  <1>11. CoreTypes'
    BY <1>1, <1>2, <1>6, <1>7, <1>8, <1>9, <1>10 DEF CoreTypes
  <1>12. VersionInv'
    <2>1. ASSUME NEW h \in Gateways
          PROVE  /\ local'[h].ver <= version'
                 /\ local'[h].ver = version' => local'[h].st = omap'
                 /\ update'[h] # None =>
                       /\ local'[h].ver < update'[h].ver /\ update'[h].ver <= version'
                       /\ update'[h].ver = version' => update'[h].st = omap'
      <3>1. CASE h = g
        BY <1>7, <1>8, <1>10, <3>1
      <3>2. CASE h # g
        <4>1. local[h].ver \in Nat /\ (update[h] # None => update[h].ver \in Nat)
          BY <1>2, LocalFields
        <4>2. /\ local[h].ver <= version
              /\ local[h].ver = version => local[h].st = omap
              /\ update[h] # None => /\ local[h].ver < update[h].ver /\ update[h].ver <= version
                                     /\ update[h].ver = version => update[h].st = omap
          BY DEF GoodCore, Core, VersionInv
        <4> QED
          BY <1>7, <1>8, <1>10, <3>2, <4>1, <4>2
      <3> QED
        BY <3>1, <3>2
    <2> QED
      BY <1>10, <2>1 DEF VersionInv
  <1>13. PlannedInv'
    <2>1. \A h \in Gateways : update'[h] # None => update'[h] = update[h] /\ local'[h] = local[h]
      BY <1>7, <1>8
    <2> QED
      BY <2>1 DEF GoodCore, Core, PlannedInv
  <1>14. RequestInv'
    BY <1>1, <1>9 DEF GoodCore, Core, RequestInv
  <1>15. GoodState(P)'
    <2>1. ASSUME NEW h \in Gateways
          PROVE  /\ GoodContent(local'[h].st, P)
                 /\ update'[h] # None => GoodContent(update'[h].st, P)
                 /\ GoodGateway(gw'[h], P)
      <3>1. /\ GoodContent(local[h].st, P)
            /\ update[h] # None => GoodContent(update[h].st, P)
            /\ GoodGateway(gw[h], P)
        BY DEF GoodCore, GoodState
      <3> QED
        BY <1>3, <1>5, <1>6, <1>7, <1>8, <3>1
    <2>2. \A c \in Clients : GoodRequest(req'[c], P)
      BY <1>9 DEF GoodCore, GoodState, GoodRequest
    <2> QED
      BY <1>10, <2>1, <2>2 DEF GoodState
  <1>16. Sole(P)'
    BY <1>1, <1>9 DEF GoodCore, Sole
  <1> QED
    BY <1>11, <1>12, <1>13, <1>14, <1>15, <1>16 DEF CoreNext, Core

\* a request that arrives,
LEMMA AskCore ==
    ASSUME GoodCore(Places), NEW c \in Clients, Ask(c), NEW P, P = Places
    PROVE  CoreNext(P)
  <1> PICK g \in Gateways, i \in Ids, ask \in Asks :
         req' = [req EXCEPT ![c] =
             [gw |-> g, id |-> i, ask |-> ask, inst |-> requests', waiting |-> FALSE,
              found |-> None, flag |-> FALSE, qos |-> NoLimits]]
    BY DEF Ask
  <1> DEFINE q == [gw |-> g, id |-> i, ask |-> ask, inst |-> requests', waiting |-> FALSE,
                   found |-> None, flag |-> FALSE, qos |-> NoLimits]
  <1>1. UNCHANGED <<omap, version, local, gw, update>>
    BY DEF Ask, omapVars
  <1>2. requests' = requests + 1 /\ requests < MaxRequests /\ req[c] = None
    BY DEF Ask
  <1>3. CoreTypes
    BY DEF GoodCore, Core
  <1>4. requests \in Nat /\ MaxRequests \in Nat
    BY <1>3, EntryBounds DEF CoreTypes
  <1>5. requests' \in Insts /\ requests' \in Nat /\ requests' <= MaxRequests
    BY <1>2, <1>4 DEF Insts
  <1>6. /\ q \in Requests /\ q.inst = requests' /\ q.waiting = FALSE /\ q.found = None
    BY <1>5, NoLimitsIsLimited DEF Requests
  <1>7. req' = [req EXCEPT ![c] = q]
    OBVIOUS
  <1> HIDE DEF q
  <1>8. /\ req' \in [Clients -> Requests \cup {None}] /\ req'[c] = q
        /\ \A d \in Clients : d # c => req'[d] = req[d]
    BY <1>3, <1>6, <1>7 DEF CoreTypes
  <1>9. CoreTypes'
    BY <1>1, <1>3, <1>5, <1>8 DEF CoreTypes
  <1>10. VersionInv' /\ PlannedInv'
    BY <1>1 DEF GoodCore, Core, VersionInv, PlannedInv
  <1>11. \A d \in Clients : req[d] # None => req[d].inst \in Nat /\ req[d].inst <= requests
    <2>1. \A d \in Clients : req[d] # None => req[d] \in Requests
      BY <1>3 DEF CoreTypes
    <2>2. Insts \subseteq Nat
      BY EntryBounds DEF Insts
    <2> QED
      BY <2>1, <2>2, RequestFields DEF GoodCore, Core, RequestInv
  <1>12. RequestInv'
    <2>1. ASSUME NEW d \in Clients, req'[d] # None
          PROVE  /\ req'[d].inst <= requests'
                 /\ HasFound(req'[d])
                 /\ \A e \in Clients : e # d /\ req'[e] # None => req'[d].inst # req'[e].inst
      <3>1. CASE d = c
        BY <1>2, <1>4, <1>5, <1>6, <1>8, <1>11, <3>1 DEF HasFound
      <3>2. CASE d # c
        <4>1. req'[d] = req[d] /\ req[d].inst <= requests' /\ req[d].inst # requests'
          BY <1>2, <1>4, <1>8, <1>11, <2>1, <3>2
        <4> QED
          BY <1>6, <1>8, <2>1, <4>1 DEF GoodCore, Core, RequestInv
      <3> QED
        BY <3>1, <3>2
    <2> QED
      BY <1>5, <2>1 DEF RequestInv
  <1>13. GoodState(P)'
    <2>1. \A d \in Clients : GoodRequest(req'[d], P)
      BY <1>6, <1>8 DEF GoodCore, GoodState, GoodRequest
    <2> QED
      BY <1>1, <2>1 DEF GoodCore, GoodState
  <1>14. Sole(P)'
    <2>1. ASSUME NEW n \in Insts, P[n] # {}
          PROVE  n <= requests' /\ \A d \in Clients : req'[d] # None => req'[d].inst # n
      <3>1. n <= requests /\ \A d \in Clients : req[d] # None => req[d].inst # n
        BY <2>1 DEF GoodCore, Sole
      <3>2. n \in Nat
        BY EntryBounds DEF Insts
      <3>3. n <= requests' /\ n # requests'
        BY <1>2, <1>4, <3>1, <3>2
      <3> QED
        BY <1>6, <1>8, <3>1, <3>3
    <2> QED
      BY <2>1 DEF GoodCore, Sole
  <1> QED
    BY <1>9, <1>10, <1>12, <1>13, <1>14 DEF CoreNext, Core

\* a plan is made of IDs of the two versions
LEMMA PlanIs ==
    ASSUME NEW old \in Contents, NEW new \in Contents, NEW ver \in Nat
    PROVE  LET p == Plan(old, new)
               u == [ver |-> ver, st |-> new, drop |-> p.drop, add |-> p.add, qos |-> p.qos,
                     grp |-> p.grp, vis |-> p.vis, trash |-> p.trash,
                     delhost |-> p.delhost, addhost |-> p.addhost]
           IN  /\ u \in Updates /\ u # None
               /\ u.ver = ver /\ u.st = new
               /\ Planned(u, old)
               /\ u.drop = p.drop /\ u.add = p.add /\ u.qos = p.qos
               /\ u.grp = p.grp /\ u.vis = p.vis /\ u.trash = p.trash
               /\ u.delhost = p.delhost /\ u.addhost = p.addhost
  <1> DEFINE p == Plan(old, new)
             u == [ver |-> ver, st |-> new, drop |-> p.drop, add |-> p.add, qos |-> p.qos,
                   grp |-> p.grp, vis |-> p.vis, trash |-> p.trash,
                   delhost |-> p.delhost, addhost |-> p.addhost]
  <1>1. ASSUME NEW i \in Ids
        PROVE  /\ i \in p.drop => old[i].ns # None /\ ~Same(old[i], new[i])
               /\ i \in p.add => new[i].ns # None /\ ~Same(old[i], new[i])
               /\ i \in p.grp \cup p.vis \cup p.trash => Same(old[i], new[i])
               /\ i \in p.qos => new[i].qos # NoLimits
    BY DEF Plan, Grouped, Same
  <1>2. /\ p.delhost = {x \in Ids \X Hosts : x[2] \in old[x[1]].hosts}
                         \ {x \in Ids \X Hosts : x[2] \in new[x[1]].hosts}
        /\ p.addhost = {x \in Ids \X Hosts : x[2] \in new[x[1]].hosts}
                         \ {x \in Ids \X Hosts : x[2] \in old[x[1]].hosts}
    BY DEF Plan
  <1>3. /\ p.drop \in SUBSET Ids /\ p.add \in SUBSET Ids /\ p.qos \in SUBSET Ids
        /\ p.grp \in SUBSET Ids /\ p.vis \in SUBSET Ids /\ p.trash \in SUBSET Ids
    BY DEF Plan, Grouped
  <1>4. p.delhost \in SUBSET (Ids \X Hosts) /\ p.addhost \in SUBSET (Ids \X Hosts)
    BY <1>2
  <1> HIDE DEF p
  <1>5. /\ u.ver = ver /\ u.st = new
        /\ u.drop = p.drop /\ u.add = p.add /\ u.qos = p.qos
        /\ u.grp = p.grp /\ u.vis = p.vis /\ u.trash = p.trash
        /\ u.delhost = p.delhost /\ u.addhost = p.addhost
    OBVIOUS
  <1>6. u \in Updates
    BY <1>3, <1>4 DEF Updates
  <1> HIDE DEF u
  <1>7. Planned(u, old)
    BY <1>1, <1>2, <1>5 DEF Planned
  <1>8. u # None
    BY <1>6, UpdateNone
  <1> QED
    BY <1>5, <1>6, <1>7, <1>8 DEF u, p

\* an update() that plans its calls,
LEMMA StartUpdateCore ==
    ASSUME GoodCore(Places), NEW g \in Gateways, StartUpdate(g), NEW P, P = Places
    PROVE  CoreNext(P)
  <1> DEFINE p == Plan(local[g].st, omap)
             u == [ver |-> version, st |-> omap, drop |-> p.drop, add |-> p.add, qos |-> p.qos,
                   grp |-> p.grp, vis |-> p.vis, trash |-> p.trash,
                   delhost |-> p.delhost, addhost |-> p.addhost]
  <1>1. /\ UNCHANGED <<omap, version, local, gw, req, requests>>
        /\ update[g] = None /\ Behind(g)
        /\ update' = [update EXCEPT ![g] = u]
    BY DEF StartUpdate, omapVars, budgetVars
  <1>2. CoreTypes
    BY DEF GoodCore, Core
  <1>3. /\ local[g].st \in Contents /\ local[g].ver \in Nat /\ omap \in Contents
        /\ version \in Nat
    BY <1>2, LocalFields DEF CoreTypes
  <1>4. u \in Updates /\ u # None /\ u.ver = version /\ u.st = omap /\ Planned(u, local[g].st)
    BY <1>3, PlanIs
  <1> HIDE DEF u
  <1>5. /\ update' \in [Gateways -> Updates \cup {None}] /\ update'[g] = u
        /\ \A h \in Gateways : h # g => update'[h] = update[h]
    BY <1>1, <1>2, <1>4 DEF CoreTypes
  <1>6. CoreTypes'
    BY <1>1, <1>2, <1>5 DEF CoreTypes
  <1>7. VersionInv'
    <2>1. local[g].ver < version
      BY <1>1 DEF Behind
    <2> QED
      BY <1>1, <1>3, <1>4, <1>5, <2>1 DEF GoodCore, Core, VersionInv
  <1>8. PlannedInv'
    BY <1>1, <1>4, <1>5 DEF GoodCore, Core, PlannedInv
  <1>9. RequestInv' /\ Sole(P)'
    BY <1>1 DEF GoodCore, Core, RequestInv, Sole
  <1>10. GoodState(P)'
    <2>1. ASSUME NEW h \in Gateways
          PROVE  update'[h] # None => GoodContent(update'[h].st, P)
      BY <1>4, <1>5 DEF GoodCore, GoodState
    <2> QED
      BY <1>1, <2>1 DEF GoodCore, GoodState
  <1> QED
    BY <1>6, <1>7, <1>8, <1>9, <1>10 DEF CoreNext, Core

\* and one that ends
LEMMA UpdateEndCore ==
    ASSUME GoodCore(Places), NEW g \in Gateways, UpdateEnd(g), NEW P, P = Places
    PROVE  CoreNext(P)
  <1> DEFINE e == [ver |-> update[g].ver, st |-> update[g].st]
  <1>1. /\ UNCHANGED <<omap, version, gw, req, requests>>
        /\ update[g] # None
        /\ local' = [local EXCEPT ![g] = e]
        /\ update' = [update EXCEPT ![g] = None]
    BY DEF UpdateEnd, Reached, omapVars, budgetVars
  <1>2. CoreTypes
    BY DEF GoodCore, Core
  <1>3. update[g].ver \in Nat /\ update[g].st \in Contents
    BY <1>1, <1>2, LocalFields
  <1>4. e \in [ver : Nat, st : Contents] /\ e.ver = update[g].ver /\ e.st = update[g].st
    BY <1>3
  <1> HIDE DEF e
  <1>5. /\ local' \in [Gateways -> [ver : Nat, st : Contents]]
        /\ local'[g] = e
        /\ \A h \in Gateways : h # g => local'[h] = local[h]
    BY <1>1, <1>2, <1>4 DEF CoreTypes
  <1>6. /\ update' \in [Gateways -> Updates \cup {None}] /\ update'[g] = None
        /\ \A h \in Gateways : h # g => update'[h] = update[h]
    BY <1>1, <1>2 DEF CoreTypes
  <1>7. CoreTypes'
    BY <1>1, <1>2, <1>5, <1>6 DEF CoreTypes
  <1>8. VersionInv'
    BY <1>1, <1>4, <1>5, <1>6 DEF GoodCore, Core, VersionInv
  <1>9. PlannedInv'
    BY <1>5, <1>6 DEF GoodCore, Core, PlannedInv
  <1>10. RequestInv' /\ Sole(P)'
    BY <1>1 DEF GoodCore, Core, RequestInv, Sole
  <1>11. GoodState(P)'
    <2>1. ASSUME NEW h \in Gateways
          PROVE  /\ GoodContent(local'[h].st, P)
                 /\ update'[h] # None => GoodContent(update'[h].st, P)
      BY <1>1, <1>4, <1>5, <1>6 DEF GoodCore, GoodState
    <2> QED
      BY <1>1, <2>1 DEF GoodCore, GoodState
  <1> QED
    BY <1>7, <1>8, <1>9, <1>10, <1>11 DEF CoreNext, Core

(***************************************************************************)
(* The calls of update() and the requests have these forms.                *)
(***************************************************************************)
LEMMA BaseIsGood ==
    ASSUME BaseInv
    PROVE  /\ GoodCore(Places) /\ RestTypes /\ CoreTypes
           /\ \A g \in Gateways : GoodGateway(gw[g], Places) /\ gw[g] \in GatewayStates
  <1>1. CoreTypes /\ RestTypes
    BY DEF BaseInv, EntryTypeOK, CoreTypes, RestTypes
  <1>2. GoodState(Places)
    BY StateIsGood DEF BaseInv
  <1>3. GoodCore(Places)
    BY <1>1, <1>2 DEF BaseInv, GoodCore, Core, OwnInv
  <1>4. \A g \in Gateways : GoodGateway(gw[g], Places) /\ gw[g] \in GatewayStates
    BY <1>2 DEF GoodState, GoodGateway
  <1> QED
    BY <1>1, <1>3, <1>4

\* a call of update() that leaves the images alone
LEMMA DiscardsIs ==
    ASSUME images \in [trashed : SUBSET Insts, kept : SUBSET Insts],
           NEW n, NEW flag, flag => n \in Insts, Discards(n, flag)
    PROVE  images' \in [trashed : SUBSET Insts, kept : SUBSET Insts]
  BY DEF Discards

LEMMA CallIs ==
    ASSUME BaseInv, NEW g \in Gateways, update[g] # None,
           NEW r, GoodGateway(r, Places), NEW u, Less(u, update[g]),
           Does(g, r), update' = [update EXCEPT ![g] = u],
           images' \in [trashed : SUBSET Insts, kept : SUBSET Insts]
    PROVE  Calls(g) /\ RestTypes'
  <1>1. Calls(g)
    BY DEF Does, Calls, omapVars, budgetVars
  <1>2. RestTypes'
    BY BaseIsGood DEF Does, RestTypes, budgetVars, historyVars
  <1> QED
    BY <1>1, <1>2

\* a process that ends leaves the rest as it is
LEMMA AbortForm ==
    ASSUME BaseInv, NEW g \in Gateways, Abort(g) \/ Crash(g)
    PROVE  Restarts(g) /\ RestTypes'
  <1>1. Restarts(g)
    BY DEF Restarts, Abort, Crash, budgetVars
  <1>2. RestTypes
    BY BaseIsGood
  <1>3. crashes' \in Nat
    BY <1>2 DEF Abort, Crash, budgetVars, RestTypes
  <1>4. troubled' \in [Gateways -> BOOLEAN]
    BY <1>2 DEF Abort, Crash, Restart, RestTypes
  <1>5. UNCHANGED <<images, faults, drift>>
    BY DEF Abort, Crash, budgetVars
  <1> QED
    BY <1>1, <1>2, <1>3, <1>4, <1>5 DEF RestTypes

LEMMA UpdateOf ==
    ASSUME BaseInv, NEW g \in Gateways, NEW n, Reached(g, n)
    PROVE  /\ update[g] # None /\ update[g] \in Updates
           /\ update[g].st \in Contents
           /\ GoodContent(update[g].st, Places)
           /\ Planned(update[g], local[g].st)
           /\ images \in [trashed : SUBSET Insts, kept : SUBSET Insts]
  <1>1. update[g] # None
    BY DEF Reached
  <1>2. update[g] \in Updates /\ update[g].st \in Contents
    BY <1>1, BaseIsGood, LocalFields
  <1>3. GoodContent(update[g].st, Places)
    BY <1>1, BaseIsGood DEF GoodCore, GoodState
  <1> QED
    BY <1>1, <1>2, <1>3 DEF BaseInv, PlannedInv, EntryTypeOK

\* each of update()'s calls has the form of a call
\* a call for a host of a namespace, which may end the process
LEMMA UpdateHostForm ==
    ASSUME BaseInv, NEW g \in Gateways, update[g] # None, NEW i \in Ids, NEW ask,
           ask.host \in Hosts, NEW u, Less(u, update[g]), UpdateHost(g, i, ask, u)
    PROVE  (Calls(g) \/ Restarts(g)) /\ RestTypes'
  <1> DEFINE r == gw[g]
             hosts == HostsAfter(ask, r.list[i].hosts)
             x == SetHosts(r, i, FoundNow(r, i), hosts)
             r2 == IF Refused(r, i, ask) THEN r ELSE x
  <1>1. CASE update' = [update EXCEPT ![g] = u] /\ Does(g, r2) /\ UNCHANGED images
    <2>1. GoodGateway(r, Places) /\ r \in GatewayStates
      BY BaseIsGood
    <2>2. AtFound(r, i, FoundNow(r, i)) => hosts \in SUBSET Hosts
      BY <2>1, GatewayFields, ListEntryFields DEF AtFound, HostsAfter
    <2> HIDE DEF hosts
    <2>3. GoodGateway(x, Places)
      BY <2>1, <2>2, SetHostsIsGood
    <2>4. GoodGateway(r2, Places)
      BY <2>1, <2>3
    <2>5. images' \in [trashed : SUBSET Insts, kept : SUBSET Insts]
      BY <1>1, BaseIsGood DEF RestTypes
    <2> HIDE DEF r2
    <2> QED
      BY <1>1, <2>4, <2>5, CallIs
  <1>2. CASE Abort(g)
    BY <1>2, AbortForm
  <1> QED
    BY <1>1, <1>2 DEF UpdateHost

LEMMA UpdateDeleteHostForm ==
    ASSUME BaseInv, NEW g \in Gateways, UpdateDeleteHost(g)
    PROVE  (Calls(g) \/ Restarts(g)) /\ RestTypes'
  <1> PICK p \in update[g].delhost :
         UpdateHost(g, p[1], [op |-> "delhost", host |-> p[2]],
                    [update[g] EXCEPT !.delhost = @ \ {p}])
    BY DEF UpdateDeleteHost
  <1>1. Reached(g, 1)
    BY DEF UpdateDeleteHost
  <1>2. update[g] # None /\ update[g] \in Updates
    BY <1>1, UpdateOf
  <1>3. p \in Ids \X Hosts
    BY <1>2, UpdateFields
  <1>4. p[1] \in Ids /\ p[2] \in Hosts
    BY <1>3
  <1>5. Less([update[g] EXCEPT !.delhost = @ \ {p}], update[g])
    BY <1>2, Less_delhost
  <1> QED
    BY <1>2, <1>4, <1>5, UpdateHostForm

LEMMA UpdateDeleteForm ==
    ASSUME BaseInv, NEW g \in Gateways, UpdateDelete(g)
    PROVE  Calls(g) /\ RestTypes'
  <1> PICK i \in update[g].drop :
         LET r == gw[g]
         IN  /\ update' = [update EXCEPT ![g].drop = @ \ {i}]
             /\ Does(g, IF r.list[i] = None THEN r
                        ELSE IF RemoveErrs(r, i) THEN AfterRemoveErr(r, i)
                        ELSE Removed(r, i, r.list[i].inst))
             /\ Discards(r.list[i].inst, ~RemoveErrs(r, i) /\ r.list[i].trash)
    BY DEF UpdateDelete
  <1> DEFINE r == gw[g]
             u == [update[g] EXCEPT !.drop = @ \ {i}]
             r2 == IF r.list[i] = None THEN r
                   ELSE IF RemoveErrs(r, i) THEN AfterRemoveErr(r, i)
                   ELSE Removed(r, i, r.list[i].inst)
  <1>1. Reached(g, 2)
    BY DEF UpdateDelete
  <1>2. update[g] # None /\ update[g] \in Updates
        /\ images \in [trashed : SUBSET Insts, kept : SUBSET Insts]
    BY <1>1, UpdateOf
  <1>4. i \in Ids
    BY <1>2, UpdateFields
  <1>5. GoodGateway(r, Places) /\ r \in GatewayStates
    BY BaseIsGood
  <1>6. ASSUME r.list[i] # None
        PROVE  r.list[i].inst \in Insts /\ \A j \in Places[r.list[i].inst] : j = i
    <2>1. r.list[i].inst \in Insts
      BY <1>4, <1>5, <1>6, GatewayFields, ListEntryFields
    <2>2. i \in Places[r.list[i].inst]
      BY <1>4, <1>5, <1>6, <2>1 DEF GoodGateway, InGateway, Is
    <2> QED
      BY <2>1, <2>2 DEF BaseInv, OwnInv, Sole
  <1>7. GoodGateway(r2, Places)
    <2>1. CASE r.list[i] = None
      BY <1>5, <2>1
    <2>2. CASE r.list[i] # None /\ RemoveErrs(r, i)
      BY <1>4, <1>5, <2>2, AfterRemoveErrIsGood
    <2>3. CASE r.list[i] # None /\ ~RemoveErrs(r, i)
      BY <1>4, <1>5, <1>6, <2>3, RemovedIsGood
    <2> QED
      BY <2>1, <2>2, <2>3
  <1>8. Less(u, update[g])
    BY <1>2, Less_drop
  <1>9. Does(g, r2) /\ update' = [update EXCEPT ![g] = u]
    OBVIOUS
  <1>10. images' \in [trashed : SUBSET Insts, kept : SUBSET Insts]
    <2>1. ~RemoveErrs(r, i) => r.list[i].inst \in Insts
      BY <1>6 DEF RemoveErrs
    <2> QED
      BY <1>2, <2>1, DiscardsIs
  <1> HIDE DEF r2, u
  <1> QED
    BY <1>2, <1>7, <1>8, <1>9, <1>10, CallIs

LEMMA UpdateAddForm ==
    ASSUME BaseInv, NEW g \in Gateways, UpdateAdd(g)
    PROVE  Calls(g) /\ RestTypes'
  <1> PICK i \in update[g].add :
         LET r == gw[g]
             e == update[g].st[i].ns
         IN  /\ update' = [update EXCEPT ![g].add = @ \ {i}]
             /\ Does(g, IF r.spdk[i] # None THEN [r EXCEPT !.list[i] = None]
                        ELSE Serve(r, i, e))
             /\ Discards(e.inst, r.spdk[i] # None /\ e.trash)
    BY DEF UpdateAdd
  <1> DEFINE r == gw[g]
             u == [update[g] EXCEPT !.add = @ \ {i}]
             e == update[g].st[i].ns
             y == [r EXCEPT !.list[i] = None]
             z == Serve(r, i, e)
             r2 == IF r.spdk[i] # None THEN y ELSE z
  <1>1. Reached(g, 3)
    BY DEF UpdateAdd
  <1>2. /\ update[g] # None /\ update[g] \in Updates
        /\ images \in [trashed : SUBSET Insts, kept : SUBSET Insts]
        /\ update[g].st \in Contents /\ GoodContent(update[g].st, Places)
        /\ Planned(update[g], local[g].st)
    BY <1>1, UpdateOf
  <1>4. i \in Ids
    BY <1>2, UpdateFields
  <1>5. GoodGateway(r, Places) /\ r \in GatewayStates
    BY BaseIsGood
  <1>6. e \in Entries /\ e # None /\ i \in Places[e.inst]
    <2>1. e # None
      BY <1>2, <1>4 DEF Planned
    <2>2. e \in Entries
      BY <1>2, <1>4, <2>1, KeyFields
    <2>3. e.inst \in Insts
      BY <2>2, EntryFields
    <2> QED
      BY <1>2, <1>4, <2>1, <2>2, <2>3 DEF GoodContent, Is
  <1>7. GoodGateway(y, Places)
    BY <1>4, <1>5, UnlistIsGood
  <1>8. GoodGateway(z, Places)
    <2> HIDE DEF e
    <2> QED
      BY <1>4, <1>5, <1>6, ServeIsGood
  <1>9. Less(u, update[g])
    BY <1>2, Less_add
  <1>10. Does(g, r2) /\ update' = [update EXCEPT ![g] = u]
    OBVIOUS
  <1>12. images' \in [trashed : SUBSET Insts, kept : SUBSET Insts]
    <2>1. e.inst \in Insts
      BY <1>6, EntryFields
    <2> QED
      BY <1>2, <2>1, DiscardsIs
  <1> HIDE DEF y, z, u
  <1>11. GoodGateway(r2, Places)
    BY <1>5, <1>7, <1>8
  <1> HIDE DEF r2
  <1> QED
    BY <1>2, <1>9, <1>10, <1>11, <1>12, CallIs

LEMMA UpdateLimitsForm ==
    ASSUME BaseInv, NEW g \in Gateways, UpdateLimits(g)
    PROVE  Calls(g) /\ RestTypes'
  <1> PICK i \in update[g].qos :
         LET r == gw[g]
         IN  /\ update' = [update EXCEPT ![g].qos = @ \ {i}]
             /\ Does(g, IF r.list[i] = None \/ r.bdev[r.list[i].inst] = None THEN r
                        ELSE Limit(r, r.list[i].inst, update[g].st[i].qos))
             /\ UNCHANGED images
    BY DEF UpdateLimits
  <1> DEFINE r == gw[g]
             u == [update[g] EXCEPT !.qos = @ \ {i}]
             z == Limit(r, r.list[i].inst, update[g].st[i].qos)
             r2 == IF r.list[i] = None \/ r.bdev[r.list[i].inst] = None THEN r ELSE z
  <1>1. Reached(g, 4)
    BY DEF UpdateLimits
  <1>2. /\ update[g] # None /\ update[g] \in Updates /\ images' = images
        /\ images \in [trashed : SUBSET Insts, kept : SUBSET Insts]
        /\ update[g].st \in Contents
    BY <1>1, UpdateOf
  <1>4. i \in Ids
    BY <1>2, UpdateFields
  <1>5. GoodGateway(r, Places) /\ r \in GatewayStates
    BY BaseIsGood
  <1>6. ASSUME r.list[i] # None, r.bdev[r.list[i].inst] # None
        PROVE  GoodGateway(z, Places)
    <2>1. r.list[i].inst \in Insts
      BY <1>4, <1>5, <1>6, GatewayFields, ListEntryFields
    <2>2. update[g].st[i].qos \in Limited
      BY <1>2, <1>4, KeyFields
    <2> QED
      BY <1>5, <1>6, <2>1, <2>2, LimitIsGood
  <1>9. Less(u, update[g])
    BY <1>2, Less_qos
  <1>10. Does(g, r2) /\ update' = [update EXCEPT ![g] = u]
    OBVIOUS
  <1> HIDE DEF z, u
  <1>11. GoodGateway(r2, Places)
    BY <1>5, <1>6
  <1> HIDE DEF r2
  <1> QED
    BY <1>2, <1>9, <1>10, <1>11, CallIs

LEMMA UpdateAddHostForm ==
    ASSUME BaseInv, NEW g \in Gateways, UpdateAddHost(g)
    PROVE  (Calls(g) \/ Restarts(g)) /\ RestTypes'
  <1> PICK p \in update[g].addhost :
         UpdateHost(g, p[1], [op |-> "addhost", host |-> p[2]],
                    [update[g] EXCEPT !.addhost = @ \ {p}])
    BY DEF UpdateAddHost
  <1>1. Reached(g, 5)
    BY DEF UpdateAddHost
  <1>2. update[g] # None /\ update[g] \in Updates
    BY <1>1, UpdateOf
  <1>3. p \in Ids \X Hosts
    BY <1>2, UpdateFields
  <1>4. p[1] \in Ids /\ p[2] \in Hosts
    BY <1>3
  <1>5. Less([update[g] EXCEPT !.addhost = @ \ {p}], update[g])
    BY <1>2, Less_addhost
  <1> QED
    BY <1>2, <1>4, <1>5, UpdateHostForm

LEMMA UpdateGroupForm ==
    ASSUME BaseInv, NEW g \in Gateways, UpdateGroup(g)
    PROVE  (Calls(g) \/ Restarts(g)) /\ RestTypes'
  <1> PICK i \in update[g].grp :
         LET r == gw[g]
         IN  IF r.spdk[i] = None \/ r.list[i] # None
             THEN /\ update' = [update EXCEPT ![g].grp = @ \ {i}]
                  /\ Does(g, IF r.spdk[i] = None THEN r
                             ELSE Regroup(r, i, FoundNow(r, i), update[g].st[i].ns.grp))
                  /\ UNCHANGED images
             ELSE Abort(g)
    BY DEF UpdateGroup
  <1> DEFINE r == gw[g]
             u == [update[g] EXCEPT !.grp = @ \ {i}]
             z == Regroup(r, i, FoundNow(r, i), update[g].st[i].ns.grp)
             r2 == IF r.spdk[i] = None THEN r ELSE z
  <1>1. Reached(g, 6)
    BY DEF UpdateGroup
  <1>2. /\ update[g] # None /\ update[g] \in Updates
        /\ images \in [trashed : SUBSET Insts, kept : SUBSET Insts]
        /\ update[g].st \in Contents /\ Planned(update[g], local[g].st)
    BY <1>1, UpdateOf
  <1>4. i \in Ids
    BY <1>2, UpdateFields
  <1>5. GoodGateway(r, Places) /\ r \in GatewayStates
    BY BaseIsGood
  <1>6. update[g].st[i].ns.grp \in Groups
    <2>1. update[g].st[i].ns # None
      BY <1>2, <1>4 DEF Planned, Same
    <2> QED
      BY <1>2, <1>4, <2>1, KeyFields, EntryFields
  <1>7. CASE r.spdk[i] = None \/ r.list[i] # None
    <2>1. GoodGateway(r2, Places)
      BY <1>4, <1>5, <1>6, <1>7, RegroupIsGood
    <2>2. Less(u, update[g])
      BY <1>2, Less_grp
    <2>3. Does(g, r2) /\ update' = [update EXCEPT ![g] = u] /\ images' = images
      BY <1>7
    <2> HIDE DEF r2, u
    <2> QED
      BY <1>2, <2>1, <2>2, <2>3, CallIs
  <1>8. CASE ~(r.spdk[i] = None \/ r.list[i] # None)
    <2>1. Abort(g)
      BY <1>8
    <2> QED
      BY <2>1, AbortForm
  <1> QED
    BY <1>7, <1>8

LEMMA UpdateVisibilityForm ==
    ASSUME BaseInv, NEW g \in Gateways, UpdateVisibility(g)
    PROVE  Calls(g) /\ RestTypes'
  <1> PICK i \in update[g].vis :
         LET r == gw[g]
         IN  /\ update' = [update EXCEPT ![g].vis = @ \ {i}]
             /\ Does(g, IF RemoveErrs(r, i) THEN r
                        ELSE Show(r, i, FoundNow(r, i), update[g].st[i].ns.vis, TRUE))
             /\ UNCHANGED images
    BY DEF UpdateVisibility
  <1> DEFINE r == gw[g]
             u == [update[g] EXCEPT !.vis = @ \ {i}]
             z == Show(r, i, FoundNow(r, i), update[g].st[i].ns.vis, TRUE)
             r2 == IF RemoveErrs(r, i) THEN r ELSE z
  <1>1. Reached(g, 7)
    BY DEF UpdateVisibility
  <1>2. /\ update[g] # None /\ update[g] \in Updates /\ images' = images
        /\ images \in [trashed : SUBSET Insts, kept : SUBSET Insts]
        /\ update[g].st \in Contents /\ Planned(update[g], local[g].st)
    BY <1>1, UpdateOf
  <1>4. i \in Ids
    BY <1>2, UpdateFields
  <1>5. GoodGateway(r, Places) /\ r \in GatewayStates
    BY BaseIsGood
  <1>6. update[g].st[i].ns.vis \in BOOLEAN
    <2>1. update[g].st[i].ns # None
      BY <1>2, <1>4 DEF Planned, Same
    <2> QED
      BY <1>2, <1>4, <2>1, KeyFields, EntryFields
  <1>7. ~RemoveErrs(r, i) => GoodGateway(z, Places)
    BY <1>4, <1>5, <1>6, ShowIsGood DEF RemoveErrs
  <1>9. Less(u, update[g])
    BY <1>2, Less_vis
  <1>10. Does(g, r2) /\ update' = [update EXCEPT ![g] = u]
    OBVIOUS
  <1> HIDE DEF z, u
  <1>11. GoodGateway(r2, Places)
    BY <1>5, <1>7
  <1> HIDE DEF r2
  <1> QED
    BY <1>2, <1>9, <1>10, <1>11, CallIs

LEMMA UpdateTrashForm ==
    ASSUME BaseInv, NEW g \in Gateways, UpdateTrash(g)
    PROVE  Calls(g) /\ RestTypes'
  <1> PICK i \in update[g].trash :
         LET r == gw[g]
         IN  /\ update' = [update EXCEPT ![g].trash = @ \ {i}]
             /\ Does(g, SetTrash(r, i, FoundNow(r, i), update[g].st[i].ns.trash))
             /\ UNCHANGED images
    BY DEF UpdateTrash
  <1> DEFINE r == gw[g]
             u == [update[g] EXCEPT !.trash = @ \ {i}]
             r2 == SetTrash(r, i, FoundNow(r, i), update[g].st[i].ns.trash)
  <1>1. Reached(g, 8)
    BY DEF UpdateTrash
  <1>2. /\ update[g] # None /\ update[g] \in Updates /\ images' = images
        /\ images \in [trashed : SUBSET Insts, kept : SUBSET Insts]
        /\ update[g].st \in Contents /\ Planned(update[g], local[g].st)
    BY <1>1, UpdateOf
  <1>4. i \in Ids
    BY <1>2, UpdateFields
  <1>5. GoodGateway(r, Places) /\ r \in GatewayStates
    BY BaseIsGood
  <1>6. update[g].st[i].ns.trash \in BOOLEAN
    <2>1. update[g].st[i].ns # None
      BY <1>2, <1>4 DEF Planned, Same
    <2> QED
      BY <1>2, <1>4, <2>1, KeyFields, EntryFields
  <1>7. GoodGateway(r2, Places)
    BY <1>4, <1>5, <1>6, SetTrashIsGood
  <1>9. Less(u, update[g])
    BY <1>2, Less_trash
  <1>10. Does(g, r2) /\ update' = [update EXCEPT ![g] = u]
    OBVIOUS
  <1> HIDE DEF r2, u
  <1> QED
    BY <1>2, <1>7, <1>9, <1>10, CallIs

(***************************************************************************)
(* The requests                                                            *)
(***************************************************************************)
LEMMA AskFields ==
    ASSUME NEW a \in Asks
    PROVE  /\ a.op = "add" => a.grp \in Groups /\ a.vis \in BOOLEAN /\ a.trash \in BOOLEAN
           /\ a.op = "group" => a.grp \in Groups
           /\ a.op = "vis" => a.vis \in BOOLEAN
           /\ a.op = "trash" => a.trash \in BOOLEAN
           /\ a.op = "qos" => a.limit \in Limits /\ a.value \in Values
           /\ a.op = "addhost" => a.host \in Hosts
           /\ a.op = "delhost" => a.host \in Hosts
  BY EntryAsks DEF AllAsks

\* a request's record and its gateway
LEMMA RequestIs ==
    ASSUME BaseInv, NEW c \in Clients, req[c] # None
    PROVE  LET q == req[c]
           IN  /\ q \in Requests /\ q.gw \in Gateways /\ q.id \in Ids /\ q.ask \in Asks
               /\ q.inst \in Insts /\ q.found \in Insts \cup {None} /\ q.qos \in Limited
               /\ q.waiting \in BOOLEAN /\ q.flag \in BOOLEAN
               /\ HasFound(q)
               /\ GoodGateway(gw[q.gw], Places) /\ gw[q.gw] \in GatewayStates
               /\ local[q.gw].st \in Contents /\ GoodContent(local[q.gw].st, Places)
               /\ local[q.gw].ver \in Nat /\ version \in Nat
               /\ ~Behind(q.gw) => local[q.gw].st = omap /\ update[q.gw] = None
  <1>1. req[c] \in Requests /\ version \in Nat
    BY BaseIsGood DEF CoreTypes
  <1>2. req[c].gw \in Gateways
    BY <1>1, RequestFields
  <1>3. HasFound(req[c])
    BY DEF BaseInv, RequestInv
  <1>4. /\ GoodGateway(gw[req[c].gw], Places) /\ gw[req[c].gw] \in GatewayStates
        /\ GoodContent(local[req[c].gw].st, Places)
    BY <1>2, BaseIsGood DEF GoodCore, GoodState
  <1>5. /\ local[req[c].gw].st \in Contents /\ local[req[c].gw].ver \in Nat
        /\ (update[req[c].gw] # None => update[req[c].gw].ver \in Nat)
    BY <1>2, BaseIsGood, LocalFields
  <1>6. ASSUME ~Behind(req[c].gw)
        PROVE  local[req[c].gw].st = omap /\ update[req[c].gw] = None
    <2>1. local[req[c].gw].ver >= version
      BY <1>1, <1>5, <1>6 DEF Behind
    <2>2. /\ local[req[c].gw].ver <= version
          /\ local[req[c].gw].ver = version => local[req[c].gw].st = omap
          /\ update[req[c].gw] # None =>
                /\ local[req[c].gw].ver < update[req[c].gw].ver
                /\ update[req[c].gw].ver <= version
      BY <1>2 DEF BaseInv, VersionInv
    <2> QED
      BY <1>1, <1>5, <2>1, <2>2
  <1> QED
    BY <1>1, <1>2, <1>3, <1>4, <1>5, <1>6, RequestFields

LEMMA PlacesGrow ==
    ASSUME BaseInv, NEW c \in Clients, req[c] # None
    PROVE  /\ \A n \in Insts : Places[n] \subseteq PlacesAfter(c)[n]
           /\ GoodGateway(gw[req[c].gw], PlacesAfter(c))
           /\ GoodContent(omap, PlacesAfter(c))
           /\ req[c].ask.op # "add" => PlacesAfter(c) = Places
           /\ req[c].ask.op = "add" => req[c].id \in PlacesAfter(c)[req[c].inst]
  <1> DEFINE q == req[c]
  <1>1. q.inst \in Insts /\ q.id \in Ids /\ GoodGateway(gw[req[c].gw], Places)
    BY RequestIs
  <1>2. Places \in [Insts -> SUBSET Ids]
    BY DEF Places
  <1>3. Places[q.inst] = {}
    <2>1. Places[q.inst] \subseteq Ids
      BY <1>1, <1>2
    <2> QED
      BY <1>1, <2>1 DEF BaseInv, OwnInv, Sole
  <1>4. \A n \in Insts : Places[n] \subseteq PlacesAfter(c)[n]
    BY <1>1, <1>2, <1>3 DEF PlacesAfter, PlacesAnd
  <1>5. GoodContent(omap, Places)
    BY BaseIsGood DEF GoodCore, GoodState
  <1>6. q.ask.op = "add" => q.id \in PlacesAfter(c)[q.inst]
    BY <1>1, <1>2 DEF PlacesAfter, PlacesAnd
  <1>7. q.ask.op # "add" => PlacesAfter(c) = Places
    BY DEF PlacesAfter
  <1> QED
    BY <1>1, <1>4, <1>5, <1>6, <1>7, GoodInMore

\* a request that writes
LEMMA SucceedsForm ==
    ASSUME BaseInv, NEW c \in Clients, req[c] # None, ~Behind(req[c].gw),
           NEW r, NEW new, GoodGateway(r, PlacesAfter(c)), GoodContent(new, PlacesAfter(c)),
           Succeeds(c, r, new),
           images' \in [trashed : SUBSET Insts, kept : SUBSET Insts]
    PROVE  Writes(c) /\ RestTypes'
  <1>1. Writes(c)
    BY DEF Succeeds, Writes, budgetVars
  <1>2. RestTypes /\ req[c].gw \in Gateways
    BY BaseIsGood, RequestIs
  <1>3. drift' \in SUBSET {"qos", "hosts"}
    BY <1>2 DEF Succeeds, Drifts, Drifted, RestTypes
  <1>4. troubled' \in [Gateways -> BOOLEAN]
    BY <1>2 DEF Succeeds, RestTypes
  <1>5. UNCHANGED <<faults, crashes>>
    BY DEF Succeeds, budgetVars
  <1> QED
    BY <1>1, <1>2, <1>3, <1>4, <1>5 DEF RestTypes

\* one that fails on the way
LEMMA BreaksForm ==
    ASSUME BaseInv, NEW c \in Clients, req[c] # None,
           NEW r, GoodGateway(r, PlacesAfter(c)), Breaks(c, r),
           images' \in [trashed : SUBSET Insts, kept : SUBSET Insts]
    PROVE  Stays(c) /\ RestTypes'
  <1>1. Stays(c)
    BY DEF Breaks, Stays
  <1>2. RestTypes /\ req[c].gw \in Gateways
    BY BaseIsGood, RequestIs
  <1>3. UNCHANGED <<drift, crashes>>
    BY DEF Breaks
  <1>4. troubled' \in [Gateways -> BOOLEAN] /\ faults' \in Nat
    BY <1>2 DEF Breaks, RestTypes
  <1> QED
    BY <1>1, <1>2, <1>3, <1>4 DEF RestTypes

\* one that is answered with nothing done
LEMMA FailsForm ==
    ASSUME BaseInv, NEW c \in Clients, req[c] # None, Fails(c)
    PROVE  Waits(c) /\ RestTypes'
  <1>1. Waits(c)
    BY DEF Fails, Waits, Answer, budgetVars
  <1>2. UNCHANGED <<images, faults, crashes, troubled, drift>>
    BY DEF Fails, budgetVars, historyVars
  <1> QED
    BY <1>1, <1>2, BaseIsGood DEF RestTypes

LEMMA EffectForm ==
    ASSUME BaseInv, NEW c \in Clients, req[c] # None, ~Behind(req[c].gw),
           NEW r, NEW new, GoodGateway(r, PlacesAfter(c)), GoodContent(new, PlacesAfter(c)),
           Effect(c, r, new), UNCHANGED images
    PROVE  (Waits(c) \/ Writes(c) \/ Stays(c)) /\ RestTypes'
  <1>1. images' \in [trashed : SUBSET Insts, kept : SUBSET Insts]
    BY BaseIsGood DEF RestTypes
  <1> QED
    BY <1>1, SucceedsForm, BreaksForm, FailsForm DEF Effect

\* one keys of which are changed, its namespace staying what it is
LEMMA DiffersIsGood ==
    ASSUME NEW P, NEW st, GoodContent(st, P), NEW x, NEW i \in Ids, NEW ns, NEW qos, NEW hosts,
           Differs(x, st, i, ns, qos, hosts),
           ns # None => ns.inst \in Insts /\ i \in P[ns.inst]
    PROVE  GoodContent(x, P)
  BY DEF GoodContent, Differs, Is

\* each request that succeeds, breaks or fails has the form of a write or of no write
LEMMA AddNamespaceForm ==
    ASSUME BaseInv, NEW c \in Clients, AddNamespace(c)
    PROVE  (Writes(c) \/ Stays(c)) /\ RestTypes'
  <1> DEFINE q == req[c]
             r == gw[q.gw]
             e == [inst |-> q.inst, grp |-> q.ask.grp, vis |-> q.ask.vis, trash |-> q.ask.trash]
             r2 == [r EXCEPT !.list[q.id] = None]
  <1>1. q # None /\ ~Behind(q.gw) /\ q.ask.op = "add"
    BY DEF AddNamespace, Locked
  <1>2. /\ q.ask \in Asks /\ q.gw \in Gateways /\ q.id \in Ids /\ q.inst \in Insts
        /\ r \in GatewayStates
    BY <1>1, RequestIs
  <1>3. e \in Entries /\ e.inst = q.inst
    BY <1>1, <1>2, AskFields DEF Entries
  <1>4. /\ GoodGateway(r, PlacesAfter(c)) /\ GoodContent(omap, PlacesAfter(c))
        /\ q.id \in PlacesAfter(c)[q.inst]
        /\ \A j \in PlacesAfter(c)[q.inst] : j = q.id
    <2>1. Places \in [Insts -> SUBSET Ids]
      BY DEF Places
    <2>2. \A j \in PlacesAfter(c)[q.inst] : j = q.id
      BY <1>1, <1>2, <2>1 DEF PlacesAfter, PlacesAnd
    <2> QED
      BY <1>1, <2>2, PlacesGrow
  <1>8. images \in [trashed : SUBSET Insts, kept : SUBSET Insts]
    BY BaseIsGood DEF RestTypes
  <1>9. Discards(q.inst, e.trash) => images' \in [trashed : SUBSET Insts, kept : SUBSET Insts]
    BY <1>2, <1>8, DiscardsIs
  <1>5. CASE Succeeds(c, Serve(r, q.id, e), [omap EXCEPT ![q.id].ns = e]) /\ UNCHANGED images
    <2>1. Succeeds(c, Serve(r, q.id, e), NsSet(omap, q.id, e))
      BY <1>5 DEF NsSet
    <2> HIDE DEF e
    <2>2. GoodGateway(Serve(r, q.id, e), PlacesAfter(c))
      BY <1>2, <1>3, <1>4, ServeIsGood
    <2>3. GoodContent(NsSet(omap, q.id, e), PlacesAfter(c))
      <3>1. Differs(NsSet(omap, q.id, e), omap, q.id, e, omap[q.id].qos, omap[q.id].hosts)
        BY <1>2, <1>3, <1>4, NsSetIs DEF GoodContent
      <3> QED
        BY <1>2, <1>3, <1>4, <3>1, DiffersIsGood
    <2> QED
      BY <1>1, <1>5, <1>8, <2>1, <2>2, <2>3, SucceedsForm
  <1>10. CASE \E left \in AddLeaves(r, q.id, e) : Breaks(c, left) /\ Discards(q.inst, e.trash)
    <2> PICK left \in AddLeaves(r, q.id, e) : Breaks(c, left) /\ Discards(q.inst, e.trash)
      BY <1>10
    <2>1. GoodGateway(r2, PlacesAfter(c))
      BY <1>2, <1>4, UnlistIsGood
    <2> HIDE DEF e
    <2>2. GoodGateway(Serve(r, q.id, e), PlacesAfter(c))
      BY <1>2, <1>3, <1>4, ServeIsGood
    <2>3. GoodGateway(Undone(r, q.id, e), PlacesAfter(c))
      BY <1>2, <1>3, <1>4, UndoneIsGood
    <2>4. left \in {r, r2, Undone(r, q.id, e), Serve(r, q.id, e)}
      BY DEF AddLeaves
    <2> HIDE DEF r2, r
    <2>5. GoodGateway(left, PlacesAfter(c))
      BY <1>4, <2>1, <2>2, <2>3, <2>4
    <2> QED
      BY <1>1, <1>9, <2>5, BreaksForm
  <1>6. CASE /\ gw' = [gw EXCEPT ![q.gw] = r2]
             /\ Discards(q.inst, e.trash)
             /\ troubled' = [troubled EXCEPT ![q.gw] = TRUE]
             /\ Answer(c)
             /\ UNCHANGED <<omapVars, local, update, budgetVars, drift>>
    <2>1. GoodGateway(r2, PlacesAfter(c))
      BY <1>2, <1>4, UnlistIsGood
    <2> HIDE DEF r2
    <2>2. Stays(c)
      BY <1>1, <1>6, <2>1 DEF Stays, budgetVars
    <2>3. UNCHANGED <<faults, crashes, drift>>
      BY <1>6 DEF budgetVars
    <2>4. troubled' \in [Gateways -> BOOLEAN]
      BY <1>2, <1>6, BaseIsGood DEF RestTypes
    <2> QED
      BY <1>6, <1>9, <2>2, <2>3, <2>4, BaseIsGood DEF RestTypes
  <1>7. \/ Succeeds(c, Serve(r, q.id, e), [omap EXCEPT ![q.id].ns = e]) /\ UNCHANGED images
        \/ \E left \in AddLeaves(r, q.id, e) : Breaks(c, left) /\ Discards(q.inst, e.trash)
        \/ /\ gw' = [gw EXCEPT ![q.gw] = r2]
           /\ Discards(q.inst, e.trash)
           /\ troubled' = [troubled EXCEPT ![q.gw] = TRUE]
           /\ Answer(c)
           /\ UNCHANGED <<omapVars, local, update, budgetVars, drift>>
    BY DEF AddNamespace
  <1> QED
    BY <1>5, <1>6, <1>7, <1>10

LEMMA ChangeGroupForm ==
    ASSUME BaseInv, NEW c \in Clients, ChangeGroup(c)
    PROVE  /\ Waits(c) \/ Writes(c) \/ Stays(c) \/ Restarts(req[c].gw)
           /\ RestTypes'
  <1> DEFINE q == req[c]
             r == gw[q.gw]
             e == [Entry(c) EXCEPT !.grp = q.ask.grp]
  <1>1. q # None /\ ~Behind(q.gw) /\ q.ask.op = "group"
    BY DEF ChangeGroup, Locked
  <1>2. /\ q.ask \in Asks /\ q.gw \in Gateways /\ q.id \in Ids
        /\ r \in GatewayStates
        /\ local[q.gw].st = omap
    BY <1>1, RequestIs
  <1>3. /\ GoodGateway(r, PlacesAfter(c)) /\ GoodContent(omap, PlacesAfter(c))
    BY <1>1, PlacesGrow
  <1>4. q.ask.grp \in Groups
    BY <1>1, <1>2, AskFields
  <1>5. CASE Fails(c)
    BY <1>1, <1>5, FailsForm
  <1>6. CASE Abort(q.gw)
    BY <1>2, <1>6, AbortForm
  <1>7. CASE /\ Entry(c) # None /\ Namespace(c) # None /\ r.list[q.id] # None
             /\ Effect(c, Regroup(r, q.id, q.found, q.ask.grp), [omap EXCEPT ![q.id].ns = e])
             /\ UNCHANGED images
    <2>1. Effect(c, Regroup(r, q.id, q.found, q.ask.grp), NsSet(omap, q.id, e))
      BY <1>7 DEF NsSet
    <2>2. GoodGateway(Regroup(r, q.id, q.found, q.ask.grp), PlacesAfter(c))
      BY <1>2, <1>3, <1>4, <1>7, RegroupIsGood DEF Namespace
    <2>3. Entry(c) = omap[q.id].ns /\ Entry(c) \in Entries
      BY <1>2, <1>3, <1>7, KeyFields DEF Entry, GoodContent
    <2>4. e \in Entries /\ e.inst = omap[q.id].ns.inst
      <3>1. e = Placed(Entry(c).inst, q.ask.grp, Entry(c).vis, Entry(c).trash)
        BY <1>4, <2>3, EntryWith
      <3> HIDE DEF e
      <3> QED
        BY <1>4, <2>3, <3>1, PlacedFields, EntryFields
    <2> HIDE DEF e
    <2>5. GoodContent(NsSet(omap, q.id, e), PlacesAfter(c))
      <3>1. Differs(NsSet(omap, q.id, e), omap, q.id, e, omap[q.id].qos, omap[q.id].hosts)
        BY <1>2, <1>3, <2>4, NsSetIs DEF GoodContent
      <3>2. e.inst \in Insts /\ q.id \in PlacesAfter(c)[e.inst]
        BY <1>2, <1>3, <1>7, <2>3, <2>4, EntryFields DEF GoodContent, Is
      <3> QED
        BY <1>2, <1>3, <3>1, <3>2, DiffersIsGood
    <2> QED
      BY <1>1, <1>7, <2>1, <2>2, <2>5, EffectForm
  <1> QED
    BY <1>5, <1>6, <1>7 DEF ChangeGroup

LEMMA ChangeVisibilityForm ==
    ASSUME BaseInv, NEW c \in Clients, ChangeVisibility(c)
    PROVE  (Waits(c) \/ Writes(c) \/ Stays(c)) /\ RestTypes'
  <1> DEFINE q == req[c]
             r == gw[q.gw]
             e == [Entry(c) EXCEPT !.vis = q.ask.vis]
             z == Show(r, q.id, q.found, q.ask.vis, q.ask.force)
  <1>1. q # None /\ ~Behind(q.gw) /\ q.ask.op = "vis"
    BY DEF ChangeVisibility, Locked
  <1>2. /\ q.ask \in Asks /\ q.gw \in Gateways /\ q.id \in Ids
        /\ r \in GatewayStates
        /\ local[q.gw].st = omap
    BY <1>1, RequestIs
  <1>3. /\ GoodGateway(r, PlacesAfter(c)) /\ GoodContent(omap, PlacesAfter(c))
    BY <1>1, PlacesGrow
  <1>4. q.ask.vis \in BOOLEAN
    BY <1>1, <1>2, AskFields
  <1>5. CASE Fails(c)
    BY <1>1, <1>5, FailsForm
  <1>7. CASE /\ Entry(c) # None /\ Entry(c).vis # q.ask.vis /\ Namespace(c) # None
             /\ Effect(c, z, [omap EXCEPT ![q.id].ns = e])
             /\ UNCHANGED images
    <2>1. Effect(c, z, NsSet(omap, q.id, e))
      BY <1>7 DEF NsSet
    <2>2. GoodGateway(z, PlacesAfter(c))
      BY <1>2, <1>3, <1>4, <1>7, ShowIsGood DEF Namespace
    <2>3. Entry(c) = omap[q.id].ns /\ Entry(c) \in Entries
      BY <1>2, <1>3, <1>7, KeyFields DEF Entry, GoodContent
    <2>4. e \in Entries /\ e.inst = omap[q.id].ns.inst
      <3>1. e = Placed(Entry(c).inst, Entry(c).grp, q.ask.vis, Entry(c).trash)
        BY <1>4, <2>3, EntryWith
      <3> HIDE DEF e
      <3> QED
        BY <1>4, <2>3, <3>1, PlacedFields, EntryFields
    <2> HIDE DEF e, z
    <2>5. GoodContent(NsSet(omap, q.id, e), PlacesAfter(c))
      <3>1. Differs(NsSet(omap, q.id, e), omap, q.id, e, omap[q.id].qos, omap[q.id].hosts)
        BY <1>2, <1>3, <2>4, NsSetIs DEF GoodContent
      <3>2. e.inst \in Insts /\ q.id \in PlacesAfter(c)[e.inst]
        BY <1>2, <1>3, <1>7, <2>3, <2>4, EntryFields DEF GoodContent, Is
      <3> QED
        BY <1>2, <1>3, <3>1, <3>2, DiffersIsGood
    <2> QED
      BY <1>1, <1>7, <2>1, <2>2, <2>5, EffectForm
  <1> QED
    BY <1>5, <1>7 DEF ChangeVisibility

LEMMA ChangeTrashForm ==
    ASSUME BaseInv, NEW c \in Clients, ChangeTrash(c)
    PROVE  (Waits(c) \/ Writes(c) \/ Stays(c)) /\ RestTypes'
  <1> DEFINE q == req[c]
             r == gw[q.gw]
             e == [Entry(c) EXCEPT !.trash = q.ask.trash]
             z == SetTrash(r, q.id, q.found, q.ask.trash)
  <1>1. q # None /\ ~Behind(q.gw) /\ q.ask.op = "trash"
    BY DEF ChangeTrash, Locked
  <1>2. /\ q.ask \in Asks /\ q.gw \in Gateways /\ q.id \in Ids
        /\ r \in GatewayStates
        /\ local[q.gw].st = omap
    BY <1>1, RequestIs
  <1>3. /\ GoodGateway(r, PlacesAfter(c)) /\ GoodContent(omap, PlacesAfter(c))
    BY <1>1, PlacesGrow
  <1>4. q.ask.trash \in BOOLEAN
    BY <1>1, <1>2, AskFields
  <1>5. CASE Fails(c)
    BY <1>1, <1>5, FailsForm
  <1>6. GoodGateway(z, PlacesAfter(c))
    BY <1>2, <1>3, <1>4, SetTrashIsGood
  <1>7. CASE /\ Entry(c) # None
             /\ Succeeds(c, z, [omap EXCEPT ![q.id].ns = e]) \/ Breaks(c, r)
             /\ UNCHANGED images
    <2>1. Succeeds(c, z, NsSet(omap, q.id, e)) \/ Breaks(c, r)
      BY <1>7 DEF NsSet
    <2>3. Entry(c) = omap[q.id].ns /\ Entry(c) \in Entries
      BY <1>2, <1>3, <1>7, KeyFields DEF Entry, GoodContent
    <2>4. e \in Entries /\ e.inst = omap[q.id].ns.inst
      <3>1. e = Placed(Entry(c).inst, Entry(c).grp, Entry(c).vis, q.ask.trash)
        BY <1>4, <2>3, EntryWith
      <3> HIDE DEF e
      <3> QED
        BY <1>4, <2>3, <3>1, PlacedFields, EntryFields
    <2> HIDE DEF e, z
    <2>5. GoodContent(NsSet(omap, q.id, e), PlacesAfter(c))
      <3>1. Differs(NsSet(omap, q.id, e), omap, q.id, e, omap[q.id].qos, omap[q.id].hosts)
        BY <1>2, <1>3, <2>4, NsSetIs DEF GoodContent
      <3>2. e.inst \in Insts /\ q.id \in PlacesAfter(c)[e.inst]
        BY <1>2, <1>3, <1>7, <2>3, <2>4, EntryFields DEF GoodContent, Is
      <3> QED
        BY <1>2, <1>3, <3>1, <3>2, DiffersIsGood
    <2>6. images' \in [trashed : SUBSET Insts, kept : SUBSET Insts]
      BY <1>7, BaseIsGood DEF RestTypes
    <2> QED
      BY <1>1, <1>3, <1>6, <2>1, <2>5, <2>6, SucceedsForm, BreaksForm
  <1>8. CASE /\ gw' = [gw EXCEPT ![q.gw] = z]
             /\ Answer(c)
             /\ UNCHANGED <<omapVars, local, update, images, budgetVars, historyVars>>
    <2> HIDE DEF z
    <2>1. Stays(c)
      BY <1>1, <1>6, <1>8 DEF Stays, budgetVars
    <2> QED
      BY <1>8, <2>1, BaseIsGood DEF RestTypes, budgetVars, historyVars
  <1> QED
    BY <1>5, <1>7, <1>8 DEF ChangeTrash

LEMMA SetLimitsForm ==
    ASSUME BaseInv, NEW c \in Clients, SetLimits(c)
    PROVE  (Waits(c) \/ Writes(c) \/ Stays(c)) /\ RestTypes'
  <1> DEFINE q == req[c]
             r == gw[q.gw]
             asked == [NoLimits EXCEPT ![q.ask.limit] = q.ask.value]
             merged == [l \in Limits |-> IF asked[l] # None THEN asked[l] ELSE q.qos[l]]
             z == Limit(r, q.found, asked)
  <1>1. q # None /\ ~Behind(q.gw) /\ q.ask.op = "qos" /\ q.waiting
    BY DEF SetLimits, Locked
  <1>2. /\ q.ask \in Asks /\ q.gw \in Gateways /\ q.id \in Ids
        /\ r \in GatewayStates /\ q.qos \in Limited
        /\ q.found \in Insts \cup {None} /\ HasFound(q)
    BY <1>1, RequestIs
  <1>3. /\ GoodGateway(r, PlacesAfter(c)) /\ GoodContent(omap, PlacesAfter(c))
    BY <1>1, PlacesGrow
  <1>4. q.found \in Insts
    BY <1>1, <1>2 DEF HasFound
  <1>5. CASE Fails(c)
    BY <1>1, <1>5, FailsForm
  <1>6. asked \in Limited
    BY <1>1, <1>2, AskFields, NoLimitsIsLimited DEF Limited
  <1> HIDE DEF asked
  <1>7. merged \in Limited
    BY <1>2, <1>6 DEF Limited
  <1> HIDE DEF merged
  <1>8. CASE /\ r.bdev[q.found] # None
             /\ Effect(c, z, [omap EXCEPT ![q.id].qos = merged])
             /\ UNCHANGED images
    <2>1. Effect(c, z, QosSet(omap, q.id, merged))
      BY <1>8 DEF QosSet
    <2>2. GoodGateway(z, PlacesAfter(c))
      BY <1>3, <1>4, <1>6, <1>8, LimitIsGood
    <2>3. GoodContent(QosSet(omap, q.id, merged), PlacesAfter(c))
      <3>1. omap \in Contents
        BY <1>3 DEF GoodContent
      <3>2. Differs(QosSet(omap, q.id, merged), omap, q.id, omap[q.id].ns, merged, omap[q.id].hosts)
        BY <1>2, <1>7, <3>1, QosSetIs
      <3>3. omap[q.id].ns # None =>
               omap[q.id].ns.inst \in Insts /\ q.id \in PlacesAfter(c)[omap[q.id].ns.inst]
        BY <1>2, <1>3, <3>1, KeyFields, EntryFields DEF GoodContent, Is
      <3> QED
        BY <1>2, <1>3, <3>2, <3>3, DiffersIsGood
    <2> QED
      BY <1>1, <1>8, <2>1, <2>2, <2>3, EffectForm
  <1>9. \/ Fails(c)
        \/ /\ r.bdev[q.found] # None
           /\ Effect(c, z, [omap EXCEPT ![q.id].qos = merged])
           /\ UNCHANGED images
    BY DEF SetLimits, asked, merged
  <1> QED
    BY <1>5, <1>8, <1>9

LEMMA ChangeHostsForm ==
    ASSUME BaseInv, NEW c \in Clients, NEW op \in {"addhost", "delhost"}, ChangeHosts(c, op)
    PROVE  /\ Writes(c) \/ Stays(c) \/ Restarts(req[c].gw)
           /\ RestTypes'
  <1> DEFINE q == req[c]
             r == gw[q.gw]
             a == HostsAfter(q.ask, r.list[q.id].hosts)
             b == HostsAfter(q.ask, omap[q.id].hosts)
             z == SetHosts(r, q.id, q.found, a)
  <1>1. q # None /\ ~Behind(q.gw) /\ q.ask.op = op
    BY DEF ChangeHosts, Locked
  <1>2. /\ q.ask \in Asks /\ q.gw \in Gateways /\ q.id \in Ids
        /\ r \in GatewayStates
    BY <1>1, RequestIs
  <1>3. /\ GoodGateway(r, PlacesAfter(c)) /\ GoodContent(omap, PlacesAfter(c))
    BY <1>1, PlacesGrow
  <1>4. q.ask.host \in Hosts
    BY <1>1, <1>2, AskFields
  <1>5. CASE Abort(q.gw)
    BY <1>2, <1>5, AbortForm
  <1>6. CASE /\ \/ Succeeds(c, z, [omap EXCEPT ![q.id].hosts = HostsAfter(q.ask, @)])
                \/ Breaks(c, z)
             /\ UNCHANGED images
    <2>1. Succeeds(c, z, HostsSet(omap, q.id, b)) \/ Breaks(c, z)
      <3>1. [omap EXCEPT ![q.id].hosts = HostsAfter(q.ask, @)] = HostsSet(omap, q.id, b)
        BY DEF HostsSet
      <3> HIDE DEF b, z
      <3> QED
        BY <1>6, <3>1
    <2>2. AtFound(r, q.id, q.found) => a \in SUBSET Hosts
      <3> SUFFICES ASSUME r.list[q.id] # None
                   PROVE  a \in SUBSET Hosts
        BY DEF AtFound
      <3>1. r.list[q.id] \in ListEntries
        BY <1>2, GatewayFields
      <3>2. r.list[q.id].hosts \in SUBSET Hosts
        BY <3>1, ListEntryFields
      <3> QED
        BY <1>4, <3>2 DEF HostsAfter
    <2>3. omap \in Contents /\ b \in SUBSET Hosts
      BY <1>2, <1>3, <1>4, KeyFields DEF GoodContent, HostsAfter
    <2> HIDE DEF a, b
    <2>4. GoodGateway(z, PlacesAfter(c))
      BY <1>2, <1>3, <2>2, SetHostsIsGood
    <2>5. GoodContent(HostsSet(omap, q.id, b), PlacesAfter(c))
      <3>2. Differs(HostsSet(omap, q.id, b), omap, q.id, omap[q.id].ns, omap[q.id].qos, b)
        BY <1>2, <2>3, HostsSetIs
      <3>3. omap[q.id].ns # None =>
               omap[q.id].ns.inst \in Insts /\ q.id \in PlacesAfter(c)[omap[q.id].ns.inst]
        BY <1>2, <1>3, <2>3, KeyFields, EntryFields DEF GoodContent, Is
      <3> QED
        BY <1>2, <1>3, <3>2, <3>3, DiffersIsGood
    <2>6. images' \in [trashed : SUBSET Insts, kept : SUBSET Insts]
      BY <1>6, BaseIsGood DEF RestTypes
    <2> HIDE DEF z
    <2> QED
      BY <1>1, <2>1, <2>4, <2>5, <2>6, SucceedsForm, BreaksForm
  <1> QED
    BY <1>5, <1>6 DEF ChangeHosts

\* namespaces a content leaves
LEMMA FewerIsGood ==
    ASSUME NEW P, NEW st, GoodContent(st, P), NEW x \in Contents,
           \A i \in Ids : x[i].ns = None \/ x[i].ns = st[i].ns
    PROVE  GoodContent(x, P)
  BY DEF GoodContent, Is

LEMMA DeleteNamespaceForm ==
    ASSUME BaseInv, NEW c \in Clients, DeleteNamespace(c)
    PROVE  (Writes(c) \/ Stays(c)) /\ RestTypes'
  <1> DEFINE q == req[c]
             r == gw[q.gw]
             discarded == IF Trashed(q) THEN {q.found} ELSE {}
             z == Removed(r, q.id, q.found)
             y == AfterRemoveErr(r, q.id)
  <1>1. q # None /\ ~Behind(q.gw) /\ q.ask.op = "delete" /\ q.waiting
    BY DEF DeleteNamespace, Locked
  <1>2. /\ q.ask \in Asks /\ q.gw \in Gateways /\ q.id \in Ids
        /\ r \in GatewayStates /\ q.found \in Insts \cup {None} /\ HasFound(q)
        /\ local[q.gw].st = omap
    BY <1>1, RequestIs
  <1>3. /\ GoodGateway(r, PlacesAfter(c)) /\ GoodContent(omap, PlacesAfter(c))
        /\ PlacesAfter(c) = Places
    BY <1>1, PlacesGrow
  <1>4. q.found \in Insts
    BY <1>1, <1>2 DEF HasFound
  <1>5. \A j \in Places[q.found] : j = q.id
    <2>1. q.id \in Places[q.found]
      BY <1>1, <1>4, EntryNone, EntryBounds, BaseIsGood
         DEF GoodCore, GoodState, GoodRequest, Insts
    <2> QED
      BY <1>4, <2>1 DEF BaseInv, OwnInv, Sole
  <1>6. GoodGateway(z, PlacesAfter(c))
    BY <1>2, <1>3, <1>4, <1>5, RemovedIsGood
  <1>7. omap \in Contents /\ GoodContent(WithoutNamespace(q.id), PlacesAfter(c))
    <2>1. omap \in Contents
      BY <1>3 DEF GoodContent
    <2>2. /\ WithoutNamespace(q.id) \in Contents
          /\ \A j \in Ids : WithoutNamespace(q.id)[j].ns = None
                             \/ WithoutNamespace(q.id)[j].ns = omap[j].ns
      BY <1>2, <2>1, WithoutNamespaceIs, NoKeysAreKeys
    <2> QED
      BY <1>3, <2>1, <2>2, FewerIsGood
  <1>8. discarded \subseteq Insts
    BY <1>4
  <1>9. images \in [trashed : SUBSET Insts, kept : SUBSET Insts]
    BY BaseIsGood DEF RestTypes
  <1> HIDE DEF discarded, z
  <1>10. CASE /\ RemoveErrs(r, q.id)
              /\ gw' = [gw EXCEPT ![q.gw] = y]
              /\ troubled' = [troubled EXCEPT ![q.gw] = TRUE]
              /\ Answer(c)
              /\ UNCHANGED <<omapVars, local, update, images, budgetVars, drift>>
    <2>1. GoodGateway(y, PlacesAfter(c))
      BY <1>2, <1>3, <1>10, AfterRemoveErrIsGood
    <2> HIDE DEF y
    <2>2. Stays(c)
      BY <1>1, <1>10, <2>1 DEF Stays, budgetVars
    <2>3. UNCHANGED <<images, faults, crashes, drift>>
      BY <1>10 DEF budgetVars
    <2>4. troubled' \in [Gateways -> BOOLEAN]
      BY <1>2, <1>10, BaseIsGood DEF RestTypes
    <2> QED
      BY <2>2, <2>3, <2>4, BaseIsGood DEF RestTypes
  <1>11. CASE /\ Succeeds(c, z, WithoutNamespace(q.id))
              /\ images' = [trashed |-> images.trashed \cup discarded,
                            kept |-> IF Entry(c) # None /\ ~Entry(c).trash
                                     THEN images.kept \cup {Entry(c).inst}
                                     ELSE images.kept]
    <2>1. Entry(c) # None => Entry(c).inst \in Insts
      BY <1>2, <1>7, KeyFields, EntryFields DEF Entry
    <2>2. images' \in [trashed : SUBSET Insts, kept : SUBSET Insts]
      BY <1>8, <1>9, <1>11, <2>1
    <2> QED
      BY <1>1, <1>6, <1>7, <1>11, <2>2, SucceedsForm
  <1>12. CASE /\ Breaks(c, z)
              /\ images' = [images EXCEPT !.trashed = @ \cup discarded]
    <2>1. images' \in [trashed : SUBSET Insts, kept : SUBSET Insts]
      BY <1>8, <1>9, <1>12
    <2> QED
      BY <1>1, <1>6, <1>12, <2>1, BreaksForm
  <1> QED
    BY <1>10, <1>11, <1>12 DEF DeleteNamespace, discarded, z

LEMMA UnfinishedIs ==
    ASSUME omap \in Contents, NEW g, NEW i \in Ids, NEW x \in Unfinished(g, i)
    PROVE  /\ x \in Contents
           /\ x[i].qos = NoLimits
           /\ x[i].hosts \subseteq omap[i].hosts
           /\ \/ x[i].ns = omap[i].ns
              \/ x[i].ns = None /\ x[i].hosts = omap[i].hosts \ HostsOf(g, i)
           /\ \A j \in Ids : j # i => x[j] = omap[j]
  <1>1. CASE \E hosts \in SUBSET HostsOf(g, i) : x = WithoutKeys(i, hosts)
    BY <1>1, WithoutKeysIs DEF Differs
  <1>2. CASE x = NsSet(WithoutKeys(i, HostsOf(g, i)), i, None)
    <2> DEFINE w == WithoutKeys(i, HostsOf(g, i))
    <2>1. Differs(w, omap, i, omap[i].ns, NoLimits, omap[i].hosts \ HostsOf(g, i))
      BY WithoutKeysIs
    <2> HIDE DEF w
    <2>2. Differs(NsSet(w, i, None), w, i, None, w[i].qos, w[i].hosts)
      BY <2>1, NsSetIs DEF Differs
    <2> QED
      BY <1>2, <2>1, <2>2 DEF Differs, w
  <1> QED
    BY <1>1, <1>2 DEF Unfinished, NsSet

\* a deletion cut short has the form of a restart
LEMMA CrashInDeleteForm ==
    ASSUME BaseInv, NEW c \in Clients, CrashInDelete(c)
    PROVE  Restarts(req[c].gw) /\ RestTypes'
  <1> DEFINE q == req[c]
  <1>1. /\ q # None /\ omap' \in Unfinished(q.gw, q.id) /\ version' = version + 1
        /\ Restart(q.gw) /\ UNCHANGED <<images, requests, faults>>
        /\ crashes' = crashes + 1
        /\ drift' = drift \cup Drifted(q, omap')
    BY DEF CrashInDelete, Locked, Drifts
  <1>2. q.gw \in Gateways /\ q.id \in Ids
    BY <1>1, RequestIs
  <1>3. GoodContent(omap, Places)
    BY BaseIsGood DEF GoodCore, GoodState
  <1>4. GoodContent(omap', Places)
    <2>1. omap \in Contents
      BY <1>3 DEF GoodContent
    <2>2. omap' \in Contents /\ \A i \in Ids : omap'[i].ns = None \/ omap'[i].ns = omap[i].ns
      BY <1>1, <1>2, <2>1, UnfinishedIs
    <2> QED
      BY <1>3, <2>2, FewerIsGood
  <1>5. Restarts(q.gw)
    BY <1>1, <1>4 DEF Restarts
  <1>6. RestTypes
    BY BaseIsGood
  <1>7. drift' \in SUBSET {"qos", "hosts"}
    BY <1>1, <1>6 DEF Drifted, RestTypes
  <1>8. troubled' \in [Gateways -> BOOLEAN] /\ crashes' \in Nat
    BY <1>1, <1>2, <1>6 DEF Restart, RestTypes
  <1> QED
    BY <1>1, <1>5, <1>6, <1>7, <1>8 DEF RestTypes

LEMMA CheckForm ==
    ASSUME BaseInv, NEW c \in Clients, Check(c)
    PROVE  Waits(c) /\ RestTypes'
  <1> DEFINE old == req[c]
             r == gw[old.gw]
             q == [old EXCEPT !.waiting = TRUE, !.found = FoundNow(r, old.id),
                              !.flag = r.list[old.id] # None /\ r.list[old.id].trash,
                              !.qos = local[old.gw].st[old.id].qos]
  <1>1. /\ old # None
        /\ IF Refused(r, old.id, old.ask) THEN Answer(c) ELSE req' = [req EXCEPT ![c] = q]
        /\ UNCHANGED <<omapVars, local, gw, update, images, budgetVars, historyVars>>
    BY DEF Check
  <1>2. /\ old \in Requests /\ old.id \in Ids /\ r \in GatewayStates
        /\ local[old.gw].st \in Contents
        /\ GoodGateway(r, Places)
    BY <1>1, RequestIs
  <1>3. local[old.gw].st[old.id].qos \in Limited
    BY SMTT(30), <1>2, KeyFields
  <1>4. FoundNow(r, old.id) \in Insts \cup {None}
        /\ (FoundNow(r, old.id) # None => old.id \in Places[FoundNow(r, old.id)])
        /\ (r.list[old.id] # None => FoundNow(r, old.id) # None)
    BY <1>2, GatewayFields, ListEntryFields DEF FoundNow, GoodGateway, InGateway, Is
  <1>5. (r.list[old.id] # None /\ r.list[old.id].trash) \in BOOLEAN
    BY <1>2, GatewayFields, ListEntryFields
  <1>6. /\ q \in Requests /\ q.inst = old.inst /\ q.id = old.id /\ q.ask = old.ask
        /\ q.found = FoundNow(r, old.id)
    <2> DEFINE flag == r.list[old.id] # None /\ r.list[old.id].trash
               found == FoundNow(r, old.id)
               qos == local[old.gw].st[old.id].qos
    <2>1. flag \in BOOLEAN /\ found \in Insts \cup {None} /\ qos \in Limited
      BY <1>3, <1>4, <1>5
    <2> HIDE DEF flag, found, qos
    <2>2. q = [old EXCEPT !.waiting = TRUE, !.found = found, !.flag = flag, !.qos = qos]
      BY DEF flag, found, qos
    <2> HIDE DEF q
    <2>3. /\ q \in Requests /\ q.inst = old.inst /\ q.id = old.id /\ q.ask = old.ask
          /\ q.found = found
      BY <1>2, <2>1, <2>2 DEF Requests
    <2> QED
      BY <2>3 DEF found
  <1> HIDE DEF q
  <1>7. ~Refused(r, old.id, old.ask) => IsRequest(q, old)
    <2> HAVE ~Refused(r, old.id, old.ask)
    <2>1. q.ask.op \notin {"add", "group"} => r.list[old.id] # None
      BY <1>6 DEF Refused
    <2>2. HasFound(q)
      BY <1>4, <1>6, <2>1 DEF HasFound
    <2>3. GoodRequest(q, Places)
      BY <1>4, <1>6 DEF GoodRequest
    <2> QED
      BY <1>6, <2>2, <2>3 DEF IsRequest
  <1>8. \E x : (x = None \/ IsRequest(x, old)) /\ req' = [req EXCEPT ![c] = x]
    <2>1. CASE Refused(r, old.id, old.ask)
      BY <1>1, <2>1 DEF Answer
    <2>2. CASE ~Refused(r, old.id, old.ask)
      BY <1>1, <1>7, <2>2
    <2> QED
      BY <2>1, <2>2
  <1>9. Waits(c)
    BY <1>1, <1>8 DEF Waits, budgetVars
  <1> QED
    BY <1>1, <1>9, BaseIsGood DEF RestTypes, budgetVars, historyVars

LEMMA RetryForm ==
    ASSUME BaseInv, NEW c \in Clients, Retry(c)
    PROVE  Waits(c) /\ RestTypes'
  <1> DEFINE old == req[c]
             q == [old EXCEPT !.waiting = FALSE, !.found = None, !.flag = FALSE,
                              !.qos = NoLimits]
  <1>1. /\ old # None
        /\ req' = [req EXCEPT ![c] = q]
        /\ UNCHANGED <<omapVars, local, gw, update, images, budgetVars, historyVars>>
    BY DEF Retry
  <1>2. old \in Requests
    BY <1>1, RequestIs
  <1>3. /\ q \in Requests /\ q.inst = old.inst /\ q.id = old.id
        /\ q.found = None /\ q.waiting = FALSE
    BY <1>2, NoLimitsIsLimited DEF Requests
  <1> HIDE DEF q
  <1>4. IsRequest(q, old)
    BY <1>3 DEF IsRequest, HasFound, GoodRequest
  <1>5. Waits(c)
    BY <1>1, <1>4 DEF Waits, budgetVars
  <1> QED
    BY <1>1, <1>5, BaseIsGood DEF RestTypes, budgetVars, historyVars

(***************************************************************************)
(* The first invariant holds                                               *)
(***************************************************************************)
LEMMA TypesMakeItSole == EntryTypeOK => GoodThenSole
  BY GoodIsSole

\* the types after a step make every image's place the only one
LEMMA NextTypesMakeItSole == (EntryTypeOK => GoodThenSole)'
  BY TypesMakeItSole, PTL

\* What a form shows is the invariant in the next state.
LEMMA CoreIsBase ==
    ASSUME NEW P \in [Insts -> SUBSET Ids], CoreNext(P), RestTypes'
    PROVE  BaseInv'
  <1>1. Core' /\ GoodState(P)' /\ Sole(P)'
    BY DEF CoreNext
  <1>2. EntryTypeOK'
    BY <1>1 DEF Core, CoreTypes, RestTypes, EntryTypeOK
  <1>3. GoodThenSole'
    BY <1>2, NextTypesMakeItSole
  <1>4. OwnInv' /\ AllServed'
    BY <1>1, <1>3 DEF GoodThenSole
  <1> QED
    BY <1>1, <1>2, <1>4 DEF Core, BaseInv

\* Each form leads to it.
LEMMA FormIsBase ==
    ASSUME BaseInv, RestTypes',
           \/ \E c \in Clients : Waits(c) \/ Writes(c) \/ Stays(c) \/ Ask(c)
           \/ \E g \in Gateways : \/ Calls(g) \/ Restarts(g)
                                  \/ StartUpdate(g) \/ UpdateEnd(g)
    PROVE  BaseInv'
  <1>0. GoodCore(Places)
    BY BaseIsGood
  <1>1. Places \in [Insts -> SUBSET Ids]
    BY DEF Places
  <1>2. ASSUME NEW c \in Clients, Waits(c) \/ Ask(c)
        PROVE  BaseInv'
    <2> PICK P \in [Insts -> SUBSET Ids] : P = Places
      BY <1>1
    <2>1. CoreNext(P)
      BY <1>0, <1>2, WaitsCore, AskCore
    <2> QED
      BY <2>1, CoreIsBase
  <1>3. ASSUME NEW c \in Clients, Writes(c) \/ Stays(c)
        PROVE  BaseInv'
    <2>1. req[c] # None /\ Answer(c) /\ UNCHANGED requests
      BY <1>3 DEF Writes, Stays
    <2>2. PlacesAfter(c) \in [Insts -> SUBSET Ids]
      BY <1>0, <2>1, PlacesAfterAreSole
    <2> PICK P \in [Insts -> SUBSET Ids] : P = PlacesAfter(c)
      BY <2>2
    <2>3. CoreNext(P)
      BY <1>0, <1>3, WritesCore, StaysCore
    <2> QED
      BY <2>3, CoreIsBase
  <1>4. ASSUME NEW g \in Gateways, Calls(g) \/ Restarts(g) \/ StartUpdate(g) \/ UpdateEnd(g)
        PROVE  BaseInv'
    <2> PICK P \in [Insts -> SUBSET Ids] : P = Places
      BY <1>1
    <2>1. CoreNext(P)
      BY <1>0, <1>4, CallsCore, RestartsCore, StartUpdateCore, UpdateEndCore
    <2> QED
      BY <2>1, CoreIsBase
  <1> QED
    BY <1>2, <1>3, <1>4

\* update() keeps the first invariant
LEMMA UpdateStepBase ==
    ASSUME BaseInv, NEW g \in Gateways, UpdateStep(g)
    PROVE  BaseInv'
  <1>0. RestTypes
    BY BaseIsGood
  <1>1. CASE StartUpdate(g)
    <2>1. RestTypes'
      BY <1>0, <1>1 DEF RestTypes, StartUpdate, budgetVars
    <2> QED
      BY <1>1, <2>1, FormIsBase
  <1>2. CASE UpdateEnd(g)
    <2>1. RestTypes'
      BY <1>0, <1>2 DEF RestTypes, UpdateEnd, budgetVars, historyVars
    <2> QED
      BY <1>2, <2>1, FormIsBase
  <1>3. CASE UpdateDeleteHost(g)
    BY <1>3, UpdateDeleteHostForm, FormIsBase
  <1>4. CASE UpdateDelete(g)
    BY <1>4, UpdateDeleteForm, FormIsBase
  <1>5. CASE UpdateAdd(g)
    BY <1>5, UpdateAddForm, FormIsBase
  <1>6. CASE UpdateLimits(g)
    BY <1>6, UpdateLimitsForm, FormIsBase
  <1>7. CASE UpdateAddHost(g)
    BY <1>7, UpdateAddHostForm, FormIsBase
  <1>8. CASE UpdateGroup(g)
    BY <1>8, UpdateGroupForm, FormIsBase
  <1>9. CASE UpdateVisibility(g)
    BY <1>9, UpdateVisibilityForm, FormIsBase
  <1>10. CASE UpdateTrash(g)
    BY <1>10, UpdateTrashForm, FormIsBase
  <1> QED
    BY <1>1, <1>2, <1>3, <1>4, <1>5, <1>6, <1>7, <1>8, <1>9, <1>10 DEF UpdateStep

\* requests keep it
LEMMA RequestStepBase ==
    ASSUME BaseInv, NEW c \in Clients,
           \/ Ask(c) \/ Check(c) \/ Retry(c)
           \/ AddNamespace(c) \/ DeleteNamespace(c) \/ CrashInDelete(c)
           \/ ChangeGroup(c) \/ ChangeVisibility(c) \/ ChangeTrash(c)
           \/ SetLimits(c) \/ AddHost(c) \/ DeleteHost(c)
    PROVE  BaseInv'
  <1>1. CASE Ask(c)
    <2>1. RestTypes'
      BY <1>1, BaseIsGood DEF RestTypes, Ask, historyVars
    <2> QED
      BY <1>1, <2>1, FormIsBase
  <1>2. CASE Check(c)
    BY <1>2, CheckForm, FormIsBase
  <1>3. CASE Retry(c)
    BY <1>3, RetryForm, FormIsBase
  <1>4. CASE AddNamespace(c)
    BY <1>4, AddNamespaceForm, FormIsBase
  <1>5. CASE DeleteNamespace(c)
    BY <1>5, DeleteNamespaceForm, FormIsBase
  <1>6. CASE CrashInDelete(c)
    <2>1. req[c] # None
      BY <1>6 DEF CrashInDelete, Locked
    <2>2. req[c].gw \in Gateways
      BY <2>1, RequestIs
    <2> QED
      BY <1>6, <2>2, CrashInDeleteForm, FormIsBase
  <1>7. CASE ChangeGroup(c)
    <2>1. req[c] # None
      BY <1>7 DEF ChangeGroup, Locked
    <2>2. req[c].gw \in Gateways
      BY <2>1, RequestIs
    <2> QED
      BY <1>7, <2>2, ChangeGroupForm, FormIsBase
  <1>8. CASE ChangeVisibility(c)
    BY <1>8, ChangeVisibilityForm, FormIsBase
  <1>9. CASE ChangeTrash(c)
    BY <1>9, ChangeTrashForm, FormIsBase
  <1>10. CASE SetLimits(c)
    BY <1>10, SetLimitsForm, FormIsBase
  <1>11. ASSUME NEW op \in {"addhost", "delhost"}, ChangeHosts(c, op)
         PROVE  BaseInv'
    <2>1. req[c] # None
      BY <1>11 DEF ChangeHosts, Locked
    <2>2. req[c].gw \in Gateways
      BY <2>1, RequestIs
    <2> QED
      BY <1>11, <2>2, ChangeHostsForm, FormIsBase
  <1> QED
    BY <1>1, <1>2, <1>3, <1>4, <1>5, <1>6, <1>7, <1>8, <1>9, <1>10, <1>11
       DEF AddHost, DeleteHost

\* every step keeps it
LEMMA BaseStep == BaseInv /\ [EntryNext]_entryVars => BaseInv'
  <1> SUFFICES ASSUME BaseInv, [EntryNext]_entryVars
               PROVE  BaseInv'
    OBVIOUS
  <1>1. ASSUME NEW g \in Gateways, Crash(g)
        PROVE  BaseInv'
    BY <1>1, AbortForm, FormIsBase
  <1>2. CASE UNCHANGED entryVars
    <2>1. UNCHANGED <<omap, version, local, gw, update, req, images, requests, faults, crashes,
                      troubled, drift>>
      BY <1>2 DEF entryVars, omapVars, budgetVars, historyVars
    <2>2. EntryTypeOK' /\ VersionInv' /\ PlannedInv' /\ RequestInv' /\ AllServed'
      BY <2>1 DEF BaseInv, EntryTypeOK, VersionInv, PlannedInv, RequestInv, AllServed
    <2>3. \A n, i : Held(n, i)' <=> Held(n, i)
      BY <2>1 DEF Held
    <2>4. OwnInv'
      BY <2>1, <2>3 DEF BaseInv, OwnInv, Sole, Places
    <2> QED
      BY <2>2, <2>4 DEF BaseInv
  <1> QED
    BY <1>1, <1>2, UpdateStepBase, RequestStepBase DEF EntryNext

\* the gateways and the OMAP of a group that starts with keys k at ID i
StartGateway(i, k) == Limit(SetHosts(Serve(NewGateway, i, k.ns), i, 0, k.hosts), 0, k.qos)
StartContent(i, k) == [EmptyContent EXCEPT ![i] = k]

\* of two values given to one argument the last one counts
LEMMA SetTwice ==
    ASSUME NEW S, NEW T, NEW f \in [S -> T], NEW z, NEW a, NEW b
    PROVE  [[f EXCEPT ![z] = a] EXCEPT ![z] = b] = [f EXCEPT ![z] = b]
  OBVIOUS

\* the state the group starts in: one namespace, known to every gateway
LEMMA StartIs ==
    ASSUME NEW i \in Ids, NEW k \in Starts
    PROVE  /\ k \in Keys /\ k.ns \in Entries /\ k.ns # None /\ k.ns.inst = 0
           /\ k.qos \in Limited /\ k.hosts \in SUBSET Hosts
           /\ 0 \in Insts
           /\ StartContent(i, k) \in Contents
           /\ StartContent(i, k)[i] = k
           /\ \A j \in Ids : j # i => StartContent(i, k)[j] = NoKeys
           /\ Has(StartGateway(i, k),
                  [NewGateway.list EXCEPT ![i] = Listed(k.ns, k.hosts)],
                  [NewGateway.spdk EXCEPT ![i] = SpdkOf(k.ns)],
                  [NewGateway.bdev EXCEPT ![0] = k.qos],
                  [NewGateway.load EXCEPT ![k.ns.grp] = @ + 1])
  <1>1. /\ k \in Keys /\ k.ns \in Entries /\ k.ns # None /\ k.ns.inst = 0
        /\ k.qos \in Limited /\ k.hosts \in SUBSET Hosts
    BY EntryStarts DEF Keys
  <1>2. 0 \in Insts
    BY EntryBounds DEF Insts
  <1>3. EmptyContent \in Contents /\ \A j \in Ids : EmptyContent[j] = NoKeys
    BY NoKeysAreKeys DEF EmptyContent, Contents
  <1>4. /\ StartContent(i, k) \in Contents /\ StartContent(i, k)[i] = k
        /\ \A j \in Ids : j # i => StartContent(i, k)[j] = NoKeys
    BY <1>1, <1>3 DEF StartContent, Contents
  <1> DEFINE r0 == NewGateway
             r1 == Serve(r0, i, k.ns)
             r2 == SetHosts(r1, i, 0, k.hosts)
             x == Listed(k.ns, {})
             y == Listed(k.ns, k.hosts)
  <1>5. /\ r0 \in GatewayStates
        /\ r0.list \in [Ids -> ListEntries \cup {None}]
        /\ r0.bdev \in [Insts -> Limited \cup {None}]
    BY DEF NewGateway, GatewayStates
  <1>6. Has(r1, [r0.list EXCEPT ![i] = x], [r0.spdk EXCEPT ![i] = SpdkOf(k.ns)],
            [r0.bdev EXCEPT ![0] = NoLimits], [r0.load EXCEPT ![k.ns.grp] = @ + 1])
    BY <1>1, <1>5, ServeIs
  <1>7. /\ x.inst = 0 /\ x # None /\ x.grp = k.ns.grp /\ x.vis = k.ns.vis
        /\ x.trash = k.ns.trash /\ x \in ListEntries
    BY <1>1, EntryFields, GatewayNone DEF Listed
  <1> HIDE DEF r0, r1, r2, x
  <1>8. r1 \in GatewayStates /\ r1.list[i] = x /\ AtFound(r1, i, 0)
    BY <1>5, <1>6, <1>7 DEF Has, AtFound
  <1>9. Has(r2, ListSet(r1, i, 0, Entered(x.inst, x.grp, x.vis, x.trash, k.hosts)),
            r1.spdk, r1.bdev, r1.load)
    BY <1>1, <1>8, SetHostsIs DEF r2
  <1>10. Entered(x.inst, x.grp, x.vis, x.trash, k.hosts) = y
    BY <1>1, <1>7 DEF Entered, Listed
  <1>11. ListSet(r1, i, 0, y) = [r0.list EXCEPT ![i] = y]
    <2>1. r1.list = [r0.list EXCEPT ![i] = x]
      BY <1>6 DEF Has
    <2>2. ListSet(r1, i, 0, y) = [r1.list EXCEPT ![i] = y]
      BY <1>8 DEF ListSet
    <2> HIDE DEF y
    <2> QED
      BY <1>5, <2>1, <2>2, SetTwice
  <1> HIDE DEF y
  <1>12. r2 \in GatewayStates /\ r2.bdev[0] = NoLimits
    BY <1>2, <1>5, <1>6, <1>9 DEF Has
  <1>13. Has(StartGateway(i, k), r2.list, r2.spdk,
             [r2.bdev EXCEPT ![0] = Merged(k.qos, r2.bdev[0])], r2.load)
    BY <1>1, <1>2, <1>12, LimitIs, NoLimitsIsLimited DEF StartGateway, r0, r1, r2
  <1>14. Merged(k.qos, NoLimits) = k.qos
    <2>1. \A l \in Limits : Merged(k.qos, NoLimits)[l] = k.qos[l]
      BY <1>1 DEF Merged, NoLimits, Limited
    <2>2. Merged(k.qos, NoLimits) \in Limited
      BY <1>1, MergedIs, NoLimitsIsLimited
    <2> QED
      BY <1>1, <2>1, <2>2 DEF Limited
  <1>15. [r2.bdev EXCEPT ![0] = k.qos] = [r0.bdev EXCEPT ![0] = k.qos]
    <2>1. r2.bdev = [r0.bdev EXCEPT ![0] = NoLimits]
      BY <1>6, <1>9 DEF Has
    <2> QED
      BY <1>5, <2>1, SetTwice
  <1>16. r2.list = [r0.list EXCEPT ![i] = y]
    <2>1. r2.list = ListSet(r1, i, 0, Entered(x.inst, x.grp, x.vis, x.trash, k.hosts))
      BY <1>9 DEF Has
    <2> QED
      BY <1>10, <1>11, <2>1
  <1>17. /\ r2.spdk = [r0.spdk EXCEPT ![i] = SpdkOf(k.ns)]
         /\ r2.load = [r0.load EXCEPT ![k.ns.grp] = @ + 1]
    BY <1>6, <1>9 DEF Has
  <1>18. Has(StartGateway(i, k), [r0.list EXCEPT ![i] = y],
             [r0.spdk EXCEPT ![i] = SpdkOf(k.ns)], [r0.bdev EXCEPT ![0] = k.qos],
             [r0.load EXCEPT ![k.ns.grp] = @ + 1])
    BY <1>12, <1>13, <1>14, <1>15, <1>16, <1>17
  <1> QED
    BY <1>1, <1>2, <1>4, <1>18 DEF r0, y

\* it holds at the start
LEMMA BaseInit == EntryInit => BaseInv
  <1> SUFFICES ASSUME EntryInit
               PROVE  BaseInv
    OBVIOUS
  <1> PICK i \in Ids, k \in Starts :
        /\ omap = StartContent(i, k)
        /\ version = 2
        /\ local = [g \in Gateways |-> [ver |-> 2, st |-> omap]]
        /\ gw = [g \in Gateways |-> StartGateway(i, k)]
        /\ update = [g \in Gateways |-> None]
        /\ req = [c \in Clients |-> None]
        /\ images = [trashed |-> {}, kept |-> {}]
        /\ requests = 0 /\ faults = 0 /\ crashes = 0
        /\ troubled = [g \in Gateways |-> FALSE]
        /\ drift = {}
    BY DEF EntryInit, StartContent, StartGateway
  <1> DEFINE P == [n \in Insts |-> IF n = 0 THEN {i} ELSE {}]
             r == StartGateway(i, k)
  <1>1. P \in [Insts -> SUBSET Ids]
    OBVIOUS
  <1>2. Has(r, [NewGateway.list EXCEPT ![i] = Listed(k.ns, k.hosts)],
            [NewGateway.spdk EXCEPT ![i] = SpdkOf(k.ns)],
            [NewGateway.bdev EXCEPT ![0] = k.qos],
            [NewGateway.load EXCEPT ![k.ns.grp] = @ + 1])
    BY StartIs
  <1>3. /\ NewGateway.list = [j \in Ids |-> None] /\ NewGateway.spdk = [j \in Ids |-> None]
        /\ NewGateway.bdev = [n \in Insts |-> None]
    BY DEF NewGateway
  <1>4. /\ k.qos \in Limited /\ k.ns # None /\ k.ns.inst = 0 /\ 0 \in Insts
        /\ omap \in Contents /\ omap[i] = k
        /\ \A j \in Ids : j # i => omap[j] = NoKeys
    BY StartIs
  <1>5. /\ Listed(k.ns, k.hosts).inst = 0 /\ SpdkOf(k.ns).inst = 0
        /\ SpdkOf(k.ns) \in SpdkEntries /\ SpdkOf(k.ns) # None /\ k.qos # None
    BY <1>4, StartIs, EntryFields, GatewayNone, EntryNone DEF Listed, SpdkOf
  <1> HIDE DEF r
  <1>6. r \in GatewayStates
    BY SMTT(30), <1>2 DEF Has
  <1>7. /\ r.list[i].inst = 0 /\ r.spdk[i] # None /\ r.spdk[i].inst = 0
        /\ r.bdev[0] # None
        /\ \A j \in Ids : j # i => r.list[j] = None /\ r.spdk[j] = None
    <2>1. /\ r.list = [[j \in Ids |-> None] EXCEPT ![i] = Listed(k.ns, k.hosts)]
          /\ r.spdk = [[j \in Ids |-> None] EXCEPT ![i] = SpdkOf(k.ns)]
          /\ r.bdev = [[n \in Insts |-> None] EXCEPT ![0] = k.qos]
      BY <1>2, <1>3 DEF Has
    <2>2. r.list[i].inst = 0 /\ \A j \in Ids : j # i => r.list[j] = None
      BY <1>5, <2>1
    <2>3. /\ r.spdk[i] # None /\ r.spdk[i].inst = 0
          /\ \A j \in Ids : j # i => r.spdk[j] = None
      BY <1>5, <2>1
    <2>4. r.bdev[0] # None
      BY <1>4, <1>5, <2>1
    <2> QED
      BY <2>2, <2>3, <2>4
  <1>8. GoodGateway(r, P)
    BY <1>6, <1>7 DEF GoodGateway, ServedAsListed, InGateway, Is
  <1>9. GoodContent(omap, P)
    BY <1>4, NoKeysAreKeys DEF GoodContent, Is
  <1>10. EntryTypeOK
    BY <1>4, <1>6 DEF EntryTypeOK, r
  <1>11. GoodState(P)
    BY <1>8, <1>9 DEF GoodState, GoodRequest, r
  <1>12. Sole(P)
    BY EntryBounds DEF Sole, Insts
  <1>13. OwnInv /\ AllServed
    BY <1>1, <1>10, <1>11, <1>12, GoodIsSole DEF GoodThenSole
  <1>14. VersionInv /\ PlannedInv /\ RequestInv
    BY EntryBounds DEF VersionInv, PlannedInv, RequestInv
  <1> QED
    BY <1>10, <1>13, <1>14 DEF BaseInv

\* Every image is at one namespace ID at most and the list is served, in every
\* reachable state: the first inductive invariant.
THEOREM AlwaysBase == EntrySpec => []BaseInv
  BY BaseInit, BaseStep, PTL DEF EntrySpec

\* Every table, request and plan keeps its shape, whatever requests, crashes
\* and failures the group meets (control/grpc.py, control/state.py).
THEOREM EntryTypeCorrect == EntrySpec => []EntryTypeOK
  <1>1. BaseInv => EntryTypeOK
    BY DEF BaseInv
  <1> QED
    BY <1>1, AlwaysBase, PTL

\* No image is at two namespace IDs, in the OMAP, in any copy of it or at any
\* gateway, not even in different ones of these.
THEOREM ImagesKeepTheirID == EntrySpec => []OwnInv
  <1>1. BaseInv => OwnInv
    BY DEF BaseInv
  <1> QED
    BY <1>1, AlwaysBase, PTL

(***************************************************************************)
(* Requests write the entry as it is                                       *)
(***************************************************************************)
\* With the lock held the entry of a request is the one of the OMAP.
LEMMA EntryIsStored ==
    ASSUME BaseInv, NEW c \in Clients, NEW op, Locked(c, op)
    PROVE  req[c].id \in Ids /\ Entry(c) = omap[req[c].id].ns
  BY RequestIs DEF Locked, Entry

\* A step that writes an entry with one other field changes no more.
LEMMA WritesOneField ==
    ASSUME BaseInv, NEW i \in Ids, omap[i].ns # None, NEW field, NEW value,
           NEW e, e = [omap[i].ns EXCEPT ![field] = value],
           omap' = [omap EXCEPT ![i].ns = e]
    PROVE  SetsOnly(i, field, value)
  BY DEF SetsOnly

\* Whatever has changed while a request waited, it writes the entry as it is
\* in the OMAP now but for the one field it is about.
THEOREM SettersKeep == EntrySpec => SettersKeepTheRest
  <1> DEFINE Kept == \A c \in Clients :
                 /\ ChangeGroup(c) => SetsOnly(req[c].id, "grp", req[c].ask.grp)
                 /\ ChangeVisibility(c) => SetsOnly(req[c].id, "vis", req[c].ask.vis)
                 /\ ChangeTrash(c) => SetsOnly(req[c].id, "trash", req[c].ask.trash)
  <1>1. ASSUME BaseInv, NEW c \in Clients, ChangeGroup(c)
        PROVE  SetsOnly(req[c].id, "grp", req[c].ask.grp)
    <2>1. req[c].id \in Ids /\ Entry(c) = omap[req[c].id].ns
      BY <1>1, EntryIsStored DEF ChangeGroup
    <2>2. CASE omap' = omap
      BY <2>2 DEF SetsOnly
    <2>3. CASE omap' # omap
      <3>1. /\ Entry(c) # None
            /\ omap' = [omap EXCEPT ![req[c].id].ns = [Entry(c) EXCEPT !.grp = req[c].ask.grp]]
        BY <1>1, <2>3
           DEF ChangeGroup, Fails, Abort, Effect, Succeeds, Breaks, Write, omapVars
      <3> QED
        BY <1>1, <2>1, <3>1, WritesOneField
    <2> QED
      BY <2>2, <2>3
  <1>2. ASSUME BaseInv, NEW c \in Clients, ChangeVisibility(c)
        PROVE  SetsOnly(req[c].id, "vis", req[c].ask.vis)
    <2>1. req[c].id \in Ids /\ Entry(c) = omap[req[c].id].ns
      BY <1>2, EntryIsStored DEF ChangeVisibility
    <2>2. CASE omap' = omap
      BY <2>2 DEF SetsOnly
    <2>3. CASE omap' # omap
      <3>1. /\ Entry(c) # None
            /\ omap' = [omap EXCEPT ![req[c].id].ns = [Entry(c) EXCEPT !.vis = req[c].ask.vis]]
        BY <1>2, <2>3
           DEF ChangeVisibility, Fails, Effect, Succeeds, Breaks, Write, omapVars
      <3> QED
        BY <1>2, <2>1, <3>1, WritesOneField
    <2> QED
      BY <2>2, <2>3
  <1>3. ASSUME BaseInv, NEW c \in Clients, ChangeTrash(c)
        PROVE  SetsOnly(req[c].id, "trash", req[c].ask.trash)
    <2>1. req[c].id \in Ids /\ Entry(c) = omap[req[c].id].ns
      BY <1>3, EntryIsStored DEF ChangeTrash
    <2>2. CASE omap' = omap
      BY <2>2 DEF SetsOnly
    <2>3. CASE omap' # omap
      <3>1. /\ Entry(c) # None
            /\ omap' = [omap EXCEPT ![req[c].id].ns = [Entry(c) EXCEPT !.trash = req[c].ask.trash]]
        BY <1>3, <2>3
           DEF ChangeTrash, Fails, Succeeds, Breaks, Write, omapVars
      <3> QED
        BY <1>3, <2>1, <3>1, WritesOneField
    <2> QED
      BY <2>2, <2>3
  <1>4. BaseInv => [Kept]_entryVars
    BY <1>1, <1>2, <1>3
  <1> QED
    BY <1>4, AlwaysBase, PTL DEF SettersKeepTheRest

(***************************************************************************)
(* The second invariant: gateways follow the keys, between two versions    *)
(* of them while update() is under way                                     *)
(***************************************************************************)
\* what an update u of the content o has made of namespace i by now
NsNow(u, o, i) ==
    IF i \in u.drop THEN o[i].ns
    ELSE IF i \in u.add \/ u.st[i].ns = None THEN None
    ELSE Placed(u.st[i].ns.inst,
                IF i \in u.grp THEN o[i].ns.grp ELSE u.st[i].ns.grp,
                IF i \in u.vis THEN o[i].ns.vis ELSE u.st[i].ns.vis,
                IF i \in u.trash THEN o[i].ns.trash ELSE u.st[i].ns.trash)
QosNow(u, o, i) == IF i \in u.drop \cup u.qos THEN o[i].qos ELSE u.st[i].qos
HostsOfPairs(pairs, i) == {h \in Hosts : <<i, h>> \in pairs}
HostsNow(u, i) ==
    (u.st[i].hosts \cup HostsOfPairs(u.delhost, i)) \ HostsOfPairs(u.addhost, i)
KeysNow(u, o) == [i \in Ids |-> Keyed(NsNow(u, o, i), QosNow(u, o, i), HostsNow(u, i))]
Now(g) == IF update[g] = None THEN local[g].st ELSE KeysNow(update[g], local[g].st)

\* Follows(r, i, k), d being the drift
Agrees(r, i, k, d) ==
    /\ k.ns = None => r.list[i] = None /\ r.spdk[i] = None
    /\ k.ns # None =>
        /\ r.list[i] # None
        /\ r.spdk[i] = SpdkOf(k.ns)
        /\ r.list[i] = Listed(k.ns, r.list[i].hosts)
        /\ "hosts" \notin d => r.list[i].hosts = k.hosts
        /\ "qos" \notin d => r.bdev[k.ns.inst] = k.qos
ListOn(list, b) == {i \in Ids : list[i] # None /\ list[i].grp = b}
Counts(list, load) == \A b \in Groups : load[b] = Cardinality(ListOn(list, b))
Tracks(r, st, d) == (\A i \in Ids : Agrees(r, i, st[i], d)) /\ Counts(r.list, r.load)
FollowInv == \A g \in Gateways : ~troubled[g] => Tracks(gw[g], Now(g), drift)

\* no hosts without a namespace that lists them, no limits without one, and a
\* namespace that stays loses no limits, as far as the drift d tells
CleanHosts(k) == k.hosts # {} => k.ns # None /\ ~k.ns.vis /\ Cardinality(k.hosts) <= MaxHosts
CleanQos(k) == k.ns = None => k.qos = NoLimits
Clean(st, d) ==
    \A i \in Ids : ("hosts" \notin d => CleanHosts(st[i])) /\ ("qos" \notin d => CleanQos(st[i]))
Grows(a, b) == Same(a, b) => \A l \in Limits : b.qos[l] = None => a.qos[l] = None
Grown(st, new, d) == "qos" \notin d => \A i \in Ids : Grows(st[i], new[i])
DriftInv ==
    /\ Clean(omap, drift)
    /\ \A g \in Gateways :
          /\ Clean(local[g].st, drift) /\ Grown(local[g].st, omap, drift)
          /\ update[g] # None =>
                /\ Clean(update[g].st, drift)
                /\ Grown(local[g].st, update[g].st, drift) /\ Grown(update[g].st, omap, drift)

\* nothing an update u of the content o was to do is left out: ~LeavesOut, as
\* far as it is still to be done
WholeAt(u, o, i) ==
    /\ i \in u.drop /\ u.st[i].ns # None => i \in u.add
    /\ i \in u.add =>
        /\ o[i].ns # None => u.st[i].qos = NoLimits /\ u.st[i].hosts = {}
        /\ u.st[i].qos = NoLimits \/ u.st[i].qos = o[i].qos \/ i \in u.qos
        /\ u.st[i].hosts \subseteq o[i].hosts \cup HostsOfPairs(u.addhost, i)
    /\ i \in u.qos => o[i].ns = None \/ u.st[i].ns = None \/ Same(o[i], u.st[i])
    /\ i \in u.vis => u.st[i].ns.vis \/ u.st[i].hosts = {}
    /\ u.delhost # {} /\ o[i].ns # None => NsNow(u, o, i) = o[i].ns
Whole(u, o) == \A i \in Ids : WholeAt(u, o, i)
WholeInv == \A g \in Gateways : update[g] # None /\ ~troubled[g] => Whole(update[g], local[g].st)

SecondInv == DriftInv /\ WholeInv /\ FollowInv
EntryInv == BaseInv /\ SecondInv

(***************************************************************************)
(* The namespaces of a group                                               *)
(***************************************************************************)
On(e, b) == IF e # None /\ e.grp = b THEN 1 ELSE 0

\* how the entries of a group change when one entry of the list does
LEMMA ListOnWith ==
    ASSUME NEW list \in [Ids -> ListEntries \cup {None}], NEW i \in Ids,
           NEW e \in ListEntries \cup {None}, NEW b
    PROVE  /\ Cardinality(ListOn([list EXCEPT ![i] = e], b))
                = (Cardinality(ListOn(list, b)) - On(list[i], b)) + On(e, b)
           /\ Cardinality(ListOn(list, b)) \in Nat
  <1> DEFINE X == {j \in Ids : j # i /\ list[j] # None /\ list[j].grp = b}
             M == [list EXCEPT ![i] = e]
  <1>1. IsFiniteSet(X) /\ i \notin X
    BY EntryFinite, FS_Subset
  <1>2. Cardinality(X) \in Nat /\ Cardinality(X \cup {i}) = Cardinality(X) + 1
    BY <1>1, FS_AddElement, FS_CardinalityType
  <1>3. ListOn(list, b) = IF On(list[i], b) = 1 THEN X \cup {i} ELSE X
    <2>1. CASE list[i] # None /\ list[i].grp = b
      BY <2>1 DEF ListOn, On
    <2>2. CASE ~(list[i] # None /\ list[i].grp = b)
      BY <2>2 DEF ListOn, On
    <2> QED
      BY <2>1, <2>2
  <1>4. ListOn(M, b) = IF On(e, b) = 1 THEN X \cup {i} ELSE X
    <2>1. M[i] = e /\ \A j \in Ids : j # i => M[j] = list[j]
      OBVIOUS
    <2> HIDE DEF M
    <2>2. CASE e # None /\ e.grp = b
      BY <2>1, <2>2 DEF ListOn, On
    <2>3. CASE ~(e # None /\ e.grp = b)
      BY <2>1, <2>3 DEF ListOn, On
    <2> QED
      BY <2>2, <2>3
  <1>5. On(list[i], b) \in {0, 1} /\ On(e, b) \in {0, 1}
    BY DEF On
  <1> HIDE DEF X, M
  <1>6. Cardinality(ListOn(list, b)) = Cardinality(X) + On(list[i], b)
    BY <1>2, <1>3, <1>5
  <1>7. Cardinality(ListOn(M, b)) = Cardinality(X) + On(e, b)
    BY <1>2, <1>4, <1>5
  <1> QED
    BY <1>2, <1>5, <1>6, <1>7 DEF M

\* the entry of ID i becomes e, and the counters change by what that does
Recounted(list, load, i, e, list2, load2) ==
    /\ list \in [Ids -> ListEntries \cup {None}] /\ load \in [Groups \cup {0} -> Int]
    /\ load2 \in [Groups \cup {0} -> Int]
    /\ e \in ListEntries \cup {None}
    /\ list2 = [list EXCEPT ![i] = e]
    /\ \A b \in Groups : load2[b] = (load[b] - On(list[i], b)) + On(e, b)

\* The counters stay right if what they change by is what the list does.
LEMMA CountsWith ==
    ASSUME NEW list, NEW load, NEW i \in Ids, NEW e, NEW list2, NEW load2,
           Recounted(list, load, i, e, list2, load2), Counts(list, load)
    PROVE  Counts(list2, load2)
  <1> SUFFICES ASSUME NEW b \in Groups
               PROVE  load2[b] = Cardinality(ListOn([list EXCEPT ![i] = e], b))
    BY DEF Counts, Recounted
  <1>1. load[b] = Cardinality(ListOn(list, b))
    BY DEF Counts
  <1>2. Cardinality(ListOn([list EXCEPT ![i] = e], b))
           = (Cardinality(ListOn(list, b)) - On(list[i], b)) + On(e, b)
    BY ListOnWith DEF Recounted
  <1> QED
    BY <1>1, <1>2 DEF Recounted

(***************************************************************************)
(* What a call does to a gateway that follows the content st               *)
(***************************************************************************)
\* st and st2 say the same of the namespaces but i
AlikeBut(st, st2, d, i) ==
    \A j \in Ids : j # i =>
        /\ st2[j].ns = st[j].ns
        /\ st[j].ns # None => /\ "hosts" \notin d => st2[j].hosts = st[j].hosts
                              /\ "qos" \notin d => st2[j].qos = st[j].qos

\* no other namespace has image n
Alone(st, i, n) == \A j \in Ids : j # i /\ st[j].ns # None => st[j].ns.inst # n

LEMMA InstsOf ==
    ASSUME NEW st \in Contents, NEW j \in Ids
    PROVE  st[j].ns # None => st[j].ns \in Entries /\ st[j].ns.inst \in Insts
  BY KeyFields, EntryFields

\* a gateway that agrees with the keys of every ID but one
LEMMA TracksBut ==
    ASSUME NEW r, NEW r2, NEW st, NEW st2, NEW d, NEW i \in Ids,
           Tracks(r, st, d), AlikeBut(st, st2, d, i),
           \A j \in Ids : j # i =>
              /\ r2.list[j] = r.list[j] /\ r2.spdk[j] = r.spdk[j]
              /\ st[j].ns # None => r2.bdev[st[j].ns.inst] = r.bdev[st[j].ns.inst],
           Agrees(r2, i, st2[i], d), Counts(r2.list, r2.load)
    PROVE  Tracks(r2, st2, d)
  BY DEF Tracks, AlikeBut, Agrees

\* what a gateway has of a namespace it follows
LEMMA AgreesFields ==
    ASSUME NEW r \in GatewayStates, NEW i \in Ids, NEW k \in Keys, NEW d, Agrees(r, i, k, d),
           k.ns # None
    PROVE  /\ k.ns \in Entries /\ k.ns.inst \in Insts
           /\ r.list[i] \in ListEntries /\ r.list[i] # None
           /\ r.list[i].inst = k.ns.inst /\ r.list[i].grp = k.ns.grp
           /\ r.list[i].vis = k.ns.vis /\ r.list[i].trash = k.ns.trash
           /\ r.list[i].hosts \in SUBSET Hosts
           /\ r.spdk[i] # None /\ r.spdk[i].inst = k.ns.inst
           /\ r.spdk[i].grp = k.ns.grp /\ r.spdk[i].vis = k.ns.vis
           /\ AtFound(r, i, k.ns.inst) /\ FoundNow(r, i) = k.ns.inst
           /\ GroupOf(r, i) = k.ns.grp
           /\ ~RemoveErrs(r, i)
           /\ "hosts" \notin d => r.list[i].hosts = k.hosts
           /\ "qos" \notin d => r.bdev[k.ns.inst] = k.qos
  <1>1. k.ns \in Entries
    BY DEF Keys
  <1>2. r.list[i] \in ListEntries
    BY GatewayFields DEF Agrees
  <1>3. /\ r.list[i] # None /\ r.spdk[i] = SpdkOf(k.ns)
        /\ r.list[i] = Listed(k.ns, r.list[i].hosts)
        /\ "hosts" \notin d => r.list[i].hosts = k.hosts
        /\ "qos" \notin d => r.bdev[k.ns.inst] = k.qos
    BY DEF Agrees
  <1>4. /\ r.list[i].inst = k.ns.inst /\ r.list[i].grp = k.ns.grp
        /\ r.list[i].vis = k.ns.vis /\ r.list[i].trash = k.ns.trash
        /\ r.list[i].hosts \in SUBSET Hosts
    BY <1>1, <1>2, <1>3, EntryFields, ListEntryFields
  <1>5. /\ r.spdk[i] # None /\ r.spdk[i].inst = k.ns.inst
        /\ r.spdk[i].grp = k.ns.grp /\ r.spdk[i].vis = k.ns.vis
    BY <1>1, <1>3, EntryFields DEF SpdkOf
  <1> QED
    BY <1>1, <1>2, <1>3, <1>4, <1>5, EntryFields DEF AtFound, FoundNow, GroupOf, RemoveErrs

\* each call the gateway makes keeps it on the keys as they are after the call
LEMMA TracksServe ==
    ASSUME NEW r \in GatewayStates, NEW st \in Contents, NEW st2 \in Contents, NEW d,
           NEW i \in Ids, NEW e \in Entries,
           Tracks(r, st, d), AlikeBut(st, st2, d, i), Alone(st, i, e.inst),
           st[i].ns = None, st2[i].ns = e,
           "hosts" \notin d => st2[i].hosts = {},
           "qos" \notin d => st2[i].qos = NoLimits
    PROVE  Tracks(Serve(r, i, e), st2, d)
  <1> DEFINE r2 == Serve(r, i, e)
             x == Listed(e, {})
  <1>1. Has(r2, [r.list EXCEPT ![i] = x], [r.spdk EXCEPT ![i] = SpdkOf(e)],
            [r.bdev EXCEPT ![e.inst] = NoLimits], [r.load EXCEPT ![e.grp] = @ + 1])
    BY ServeIs
  <1>2. /\ r.list \in [Ids -> ListEntries \cup {None}] /\ r.spdk \in [Ids -> SpdkEntries \cup {None}]
        /\ r.bdev \in [Insts -> Limited \cup {None}] /\ r.load \in [Groups \cup {0} -> Int]
    BY GatewayFields
  <1>3. /\ x \in ListEntries /\ x # None /\ x.hosts = {} /\ x.grp = e.grp
        /\ e # None /\ e.inst \in Insts /\ e.grp \in Groups
    BY EntryFields, ListEntryFields
  <1>4. x = Listed(e, x.hosts)
    BY <1>3
  <1>5. r.list[i] = None
    BY DEF Tracks, Agrees
  <1> HIDE DEF r2, x
  <1>6. Agrees(r2, i, st2[i], d)
    <2>1. r2.list[i] = x /\ r2.spdk[i] = SpdkOf(e) /\ r2.bdev[e.inst] = NoLimits
      BY <1>1, <1>2, <1>3 DEF Has
    <2> QED
      BY <1>3, <1>4, <2>1 DEF Agrees
  <1>7. Counts(r2.list, r2.load)
    <2>1. r2.list = [r.list EXCEPT ![i] = x] /\ r2.load = [r.load EXCEPT ![e.grp] = @ + 1]
      BY <1>1 DEF Has
    <2>2. \A b \in Groups : r2.load[b] = (r.load[b] - On(r.list[i], b)) + On(x, b)
      BY <1>2, <1>3, <1>5, <2>1 DEF On
    <2>3. Recounted(r.list, r.load, i, x, r2.list, r2.load)
      BY <1>2, <1>3, <2>1, <2>2 DEF Recounted
    <2> QED
      BY <2>3, CountsWith DEF Tracks
  <1>8. \A j \in Ids : j # i =>
          /\ r2.list[j] = r.list[j] /\ r2.spdk[j] = r.spdk[j]
          /\ st[j].ns # None => r2.bdev[st[j].ns.inst] = r.bdev[st[j].ns.inst]
    BY <1>1, <1>2, InstsOf DEF Has, Alone
  <1>9. Tracks(r2, st2, d)
    BY <1>6, <1>7, <1>8, TracksBut
  <1> QED
    BY <1>9 DEF r2

LEMMA TracksRemoved ==
    ASSUME NEW r \in GatewayStates, NEW st \in Contents, NEW st2 \in Contents, NEW d,
           NEW i \in Ids, NEW n,
           Tracks(r, st, d), AlikeBut(st, st2, d, i), Alone(st, i, n),
           st[i].ns # None, n = st[i].ns.inst, st2[i].ns = None
    PROVE  Tracks(Removed(r, i, n), st2, d)
  <1> DEFINE r2 == Removed(r, i, n)
  <1>1. /\ n \in Insts /\ st[i].ns.grp \in Groups
    BY InstsOf, EntryFields
  <1>2. Agrees(r, i, st[i], d) /\ st[i] \in Keys
    BY KeyFields DEF Tracks
  <1>3. r.list[i] # None /\ r.list[i].grp = st[i].ns.grp /\ GroupOf(r, i) = st[i].ns.grp
    BY <1>2, AgreesFields
  <1>4. Has(r2, [r.list EXCEPT ![i] = None], SpdkWithout(r.spdk, i, n),
            [r.bdev EXCEPT ![n] = None], [r.load EXCEPT ![st[i].ns.grp] = @ - 1])
    BY <1>1, <1>3, RemovedIs
  <1>5. /\ r.list \in [Ids -> ListEntries \cup {None}] /\ r.spdk \in [Ids -> SpdkEntries \cup {None}]
        /\ r.bdev \in [Insts -> Limited \cup {None}] /\ r.load \in [Groups \cup {0} -> Int]
    BY GatewayFields
  <1>6. r2 \in GatewayStates
    BY <1>4 DEF Has
  <1> HIDE DEF r2
  <1>7. Agrees(r2, i, st2[i], d)
    BY <1>4, <1>5 DEF Agrees, Has, SpdkWithout
  <1>8. Counts(r2.list, r2.load)
    <2>1. r2.list = [r.list EXCEPT ![i] = None] /\ r2.load = [r.load EXCEPT ![st[i].ns.grp] = @ - 1]
      BY <1>4 DEF Has
    <2>2. \A b \in Groups : r2.load[b] = (r.load[b] - On(r.list[i], b)) + On(None, b)
      BY <1>1, <1>3, <1>5, <2>1 DEF On
    <2>3. Recounted(r.list, r.load, i, None, r2.list, r2.load)
      BY <1>5, <1>6, <2>1, <2>2, GatewayFields DEF Recounted
    <2> QED
      BY <2>3, CountsWith DEF Tracks
  <1>9. \A j \in Ids : j # i =>
          /\ r2.list[j] = r.list[j] /\ r2.spdk[j] = r.spdk[j]
          /\ st[j].ns # None => r2.bdev[st[j].ns.inst] = r.bdev[st[j].ns.inst]
    <2> SUFFICES ASSUME NEW j \in Ids, j # i
                 PROVE  /\ r2.list[j] = r.list[j] /\ r2.spdk[j] = r.spdk[j]
                        /\ st[j].ns # None => r2.bdev[st[j].ns.inst] = r.bdev[st[j].ns.inst]
      OBVIOUS
    <2>1. Agrees(r, j, st[j], d) /\ st[j] \in Keys
      BY KeyFields DEF Tracks
    <2>2. r.spdk[j] # None => r.spdk[j].inst # n
      <3>1. CASE st[j].ns = None
        BY <2>1, <3>1 DEF Agrees
      <3>2. CASE st[j].ns # None
        BY <2>1, <3>2, AgreesFields DEF Alone
      <3> QED
        BY <3>1, <3>2
    <2>3. r2.spdk[j] = r.spdk[j]
      <3>1. SpdkWithout(r.spdk, i, n)[j] = r.spdk[j]
        BY <2>2 DEF SpdkWithout
      <3> QED
        BY <1>4, <3>1 DEF Has
    <2>4. r2.list[j] = r.list[j]
      BY SMTT(30), <1>4, <1>5 DEF Has
    <2>5. st[j].ns # None => r2.bdev[st[j].ns.inst] = r.bdev[st[j].ns.inst]
      BY <1>4, <1>5, InstsOf DEF Has, Alone
    <2> QED
      BY <2>3, <2>4, <2>5
  <1>10. Tracks(r2, st2, d)
    BY <1>7, <1>8, <1>9, TracksBut
  <1> QED
    BY <1>10 DEF r2

\* the namespace of ID i has e as its entry now
LEMMA AgreesEntered ==
    ASSUME NEW r, NEW i \in Ids, NEW k \in Keys, NEW d,
           k.ns # None, NEW hosts \in SUBSET Hosts,
           r.list[i] = Entered(k.ns.inst, k.ns.grp, k.ns.vis, k.ns.trash, hosts),
           r.spdk[i] = Served(k.ns.inst, k.ns.grp, k.ns.vis),
           "hosts" \notin d => k.hosts = hosts,
           "qos" \notin d => r.bdev[k.ns.inst] = k.qos
    PROVE  Agrees(r, i, k, d)
  <1>1. k.ns \in Entries
    BY DEF Keys
  <1>2. Entered(k.ns.inst, k.ns.grp, k.ns.vis, k.ns.trash, hosts) = Listed(k.ns, hosts)
    BY DEF Entered, Listed
  <1>3. Served(k.ns.inst, k.ns.grp, k.ns.vis) = SpdkOf(k.ns)
    BY DEF Served, SpdkOf
  <1>4. Listed(k.ns, hosts) \in ListEntries /\ Listed(k.ns, hosts).hosts = hosts
    BY <1>1, EntryFields
  <1>5. r.list[i] # None /\ r.list[i].hosts = hosts
    BY <1>2, <1>4, ListEntryFields
  <1> QED
    BY <1>2, <1>3, <1>5 DEF Agrees

\* ... and so had it before, with other values of some fields
LEMMA AgreesAreEntered ==
    ASSUME NEW r \in GatewayStates, NEW i \in Ids, NEW k \in Keys, NEW d, Agrees(r, i, k, d),
           k.ns # None
    PROVE  r.spdk[i] = Served(k.ns.inst, k.ns.grp, k.ns.vis)
  BY DEF Agrees, Served, SpdkOf

LEMMA TracksRegroup ==
    ASSUME NEW r \in GatewayStates, NEW st \in Contents, NEW st2 \in Contents, NEW d,
           NEW i \in Ids, NEW grp \in Groups, NEW n,
           Tracks(r, st, d), AlikeBut(st, st2, d, i),
           st[i].ns # None, n = st[i].ns.inst,
           st2[i].ns = Placed(n, grp, st[i].ns.vis, st[i].ns.trash),
           "hosts" \notin d => st2[i].hosts = st[i].hosts,
           "qos" \notin d => st2[i].qos = st[i].qos
    PROVE  Tracks(Regroup(r, i, n, grp), st2, d)
  <1> DEFINE r2 == Regroup(r, i, n, grp)
             e == r.list[i]
             m == Entered(e.inst, grp, e.vis, e.trash, e.hosts)
  <1>1. Agrees(r, i, st[i], d) /\ st[i] \in Keys /\ st2[i] \in Keys
    BY KeyFields DEF Tracks
  <1>2. /\ e \in ListEntries /\ e # None /\ e.inst = n /\ e.grp = st[i].ns.grp
        /\ e.vis = st[i].ns.vis /\ e.trash = st[i].ns.trash /\ e.hosts \in SUBSET Hosts
        /\ r.spdk[i] # None /\ r.spdk[i].inst = n /\ r.spdk[i].vis = st[i].ns.vis
        /\ AtFound(r, i, n)
        /\ "hosts" \notin d => e.hosts = st[i].hosts
        /\ "qos" \notin d => r.bdev[n] = st[i].qos
    BY <1>1, AgreesFields
  <1>3. Has(r2, ListSet(r, i, n, m),
            [r.spdk EXCEPT ![i] = Served(r.spdk[i].inst, grp, r.spdk[i].vis)],
            r.bdev, Moved(r.load, e.grp, grp))
    BY <1>2, RegroupIs
  <1>4. ListSet(r, i, n, m) = [r.list EXCEPT ![i] = m]
    BY <1>2 DEF ListSet
  <1>5. /\ r.list \in [Ids -> ListEntries \cup {None}] /\ r.spdk \in [Ids -> SpdkEntries \cup {None}]
        /\ r.load \in [Groups \cup {0} -> Int] /\ e.grp \in Groups
    BY <1>2, GatewayFields, ListEntryFields
  <1>6. m \in ListEntries /\ m # None /\ m.grp = grp
    <2>1. e.inst \in Insts /\ e.vis \in BOOLEAN /\ e.trash \in BOOLEAN /\ e.hosts \in SUBSET Hosts
      BY <1>2, ListEntryFields
    <2> HIDE DEF e
    <2> QED
      BY <2>1, EnteredFields
  <1>7. /\ r2 \in GatewayStates /\ r2.list = [r.list EXCEPT ![i] = m]
        /\ r2.spdk = [r.spdk EXCEPT ![i] = Served(n, grp, st[i].ns.vis)]
        /\ r2.bdev = r.bdev /\ r2.load = Moved(r.load, e.grp, grp)
    BY <1>2, <1>3, <1>4 DEF Has
  <1>8. /\ st2[i].ns.inst = n /\ st2[i].ns.grp = grp
        /\ st2[i].ns.vis = st[i].ns.vis /\ st2[i].ns.trash = st[i].ns.trash /\ st2[i].ns # None
    <2>1. Placed(n, grp, st[i].ns.vis, st[i].ns.trash) \in Entries
      BY <1>1, PlacedFields, InstsOf, EntryFields
    <2> QED
      BY <2>1, PlacedFields, EntryFields
  <1>9. m = Entered(n, grp, st[i].ns.vis, st[i].ns.trash, e.hosts)
    BY <1>2
  <1> HIDE DEF r2, m, e
  <1>10. Agrees(r2, i, st2[i], d)
    <2>1. r2.list[i] = Entered(n, grp, st[i].ns.vis, st[i].ns.trash, e.hosts)
      BY <1>5, <1>7, <1>9
    <2>2. r2.spdk[i] = Served(n, grp, st[i].ns.vis)
      BY <1>5, <1>7
    <2> QED
      BY <1>1, <1>2, <1>7, <1>8, <2>1, <2>2, AgreesEntered
  <1>11. Counts(r2.list, r2.load)
    <2>1. \A b \in Groups : r2.load[b] = (r.load[b] - On(e, b)) + On(m, b)
      BY <1>2, <1>5, <1>6, <1>7 DEF On, Moved
    <2>2. Recounted(r.list, r.load, i, m, r2.list, r2.load)
      BY <1>5, <1>6, <1>7, <2>1, GatewayFields DEF Recounted, e
    <2> QED
      BY <2>2, CountsWith DEF Tracks
  <1>12. \A j \in Ids : j # i =>
           /\ r2.list[j] = r.list[j] /\ r2.spdk[j] = r.spdk[j]
           /\ st[j].ns # None => r2.bdev[st[j].ns.inst] = r.bdev[st[j].ns.inst]
    BY <1>5, <1>7
  <1>13. Tracks(r2, st2, d)
    BY <1>10, <1>11, <1>12, TracksBut
  <1> QED
    BY <1>13 DEF r2

\* r2 is r with this entry for namespace i, n being its image
Relisted(r, r2, i, n, grp, vis, trash, hosts) ==
    Has(r2, ListSet(r, i, n, Entered(n, grp, vis, trash, hosts)),
        [r.spdk EXCEPT ![i] = Served(n, grp, vis)], r.bdev, r.load)

\* st2 is st with this entry for namespace i, which keeps its image and its group
Reentered(st, st2, d, i, n, grp, vis, trash, hosts) ==
    /\ st \in Contents /\ st2 \in Contents
    /\ vis \in BOOLEAN /\ trash \in BOOLEAN /\ hosts \in SUBSET Hosts
    /\ st[i].ns # None /\ n = st[i].ns.inst /\ grp = st[i].ns.grp
    /\ AlikeBut(st, st2, d, i)
    /\ st2[i].ns = Placed(n, grp, vis, trash)
    /\ "hosts" \notin d => st2[i].hosts = hosts
    /\ "qos" \notin d => st2[i].qos = st[i].qos

LEMMA TracksEntered ==
    ASSUME NEW r \in GatewayStates, NEW r2, NEW st, NEW st2, NEW d, NEW i \in Ids,
           NEW n, NEW grp, NEW vis, NEW trash, NEW hosts,
           Tracks(r, st, d),
           Relisted(r, r2, i, n, grp, vis, trash, hosts),
           Reentered(st, st2, d, i, n, grp, vis, trash, hosts)
    PROVE  Tracks(r2, st2, d)
  <1> DEFINE m == Entered(n, grp, vis, trash, hosts)
  <1>0. /\ st \in Contents /\ st2 \in Contents
        /\ vis \in BOOLEAN /\ trash \in BOOLEAN /\ hosts \in SUBSET Hosts
        /\ st[i].ns # None /\ n = st[i].ns.inst /\ grp = st[i].ns.grp
        /\ AlikeBut(st, st2, d, i)
        /\ st2[i].ns = Placed(n, grp, vis, trash)
        /\ "hosts" \notin d => st2[i].hosts = hosts
        /\ "qos" \notin d => st2[i].qos = st[i].qos
    BY DEF Reentered
  <1>1. Agrees(r, i, st[i], d) /\ st[i] \in Keys /\ st2[i] \in Keys
    BY <1>0, KeyFields DEF Tracks
  <1>2. /\ r.list[i] # None /\ r.list[i].grp = grp /\ AtFound(r, i, n)
        /\ "qos" \notin d => r.bdev[n] = st[i].qos
    BY <1>0, <1>1, AgreesFields
  <1>3. grp \in Groups /\ n \in Insts
    BY <1>0, InstsOf, EntryFields
  <1>4. m \in ListEntries /\ m # None /\ m.grp = grp
    BY <1>0, <1>3, EnteredFields
  <1>5. /\ r.list \in [Ids -> ListEntries \cup {None}] /\ r.spdk \in [Ids -> SpdkEntries \cup {None}]
        /\ r.load \in [Groups \cup {0} -> Int]
    BY GatewayFields
  <1>6. /\ r2.list = [r.list EXCEPT ![i] = m] /\ r2.spdk = [r.spdk EXCEPT ![i] = Served(n, grp, vis)]
        /\ r2.bdev = r.bdev /\ r2.load = r.load
    BY <1>2 DEF Relisted, Has, ListSet
  <1>7. /\ st2[i].ns.inst = n /\ st2[i].ns.grp = grp
        /\ st2[i].ns.vis = vis /\ st2[i].ns.trash = trash /\ st2[i].ns # None
    <2>1. Placed(n, grp, vis, trash) \in Entries
      BY <1>0, <1>3, PlacedFields
    <2> QED
      BY <1>0, <2>1, PlacedFields, EntryFields
  <1> HIDE DEF m
  <1>8. Agrees(r2, i, st2[i], d)
    <2>1. r2.list[i] = Entered(n, grp, vis, trash, hosts) /\ r2.spdk[i] = Served(n, grp, vis)
      BY <1>5, <1>6 DEF m
    <2> QED
      BY <1>0, <1>1, <1>2, <1>6, <1>7, <2>1, AgreesEntered
  <1>9. Counts(r2.list, r2.load)
    <2>1. \A b \in Groups : r2.load[b] = (r.load[b] - On(r.list[i], b)) + On(m, b)
      BY <1>2, <1>4, <1>5, <1>6 DEF On
    <2>2. Recounted(r.list, r.load, i, m, r2.list, r2.load)
      BY <1>4, <1>5, <1>6, <2>1 DEF Recounted
    <2> QED
      BY <2>2, CountsWith DEF Tracks
  <1>10. \A j \in Ids : j # i =>
           /\ r2.list[j] = r.list[j] /\ r2.spdk[j] = r.spdk[j]
           /\ st[j].ns # None => r2.bdev[st[j].ns.inst] = r.bdev[st[j].ns.inst]
    BY <1>5, <1>6
  <1> QED
    BY <1>0, <1>8, <1>9, <1>10, TracksBut

LEMMA TracksShow ==
    ASSUME NEW r \in GatewayStates, NEW st \in Contents, NEW st2 \in Contents, NEW d,
           NEW i \in Ids, NEW n, NEW vis \in BOOLEAN, NEW force,
           Tracks(r, st, d), AlikeBut(st, st2, d, i),
           st[i].ns # None, n = st[i].ns.inst,
           st2[i].ns = Placed(n, st[i].ns.grp, vis, st[i].ns.trash),
           "hosts" \notin d => st2[i].hosts = IF force /\ vis THEN {} ELSE st[i].hosts,
           "qos" \notin d => st2[i].qos = st[i].qos
    PROVE  Tracks(Show(r, i, n, vis, force), st2, d)
  <1> DEFINE e == r.list[i]
             hosts == IF force /\ vis THEN {} ELSE e.hosts
             grp == st[i].ns.grp
             trash == st[i].ns.trash
  <1>1. Agrees(r, i, st[i], d) /\ st[i] \in Keys
    BY KeyFields DEF Tracks
  <1>2. /\ r.spdk[i] # None /\ r.spdk[i].inst = n /\ r.spdk[i].grp = grp
        /\ e.inst = n /\ e.grp = grp /\ e.trash = trash /\ e.hosts \in SUBSET Hosts
        /\ "hosts" \notin d => e.hosts = st[i].hosts
        /\ trash \in BOOLEAN
    BY <1>1, AgreesFields, EntryFields
  <1>3. Relisted(r, Show(r, i, n, vis, force), i, n, grp, vis, trash, hosts)
    BY <1>2, ShowIs DEF Relisted
  <1>4. hosts \in SUBSET Hosts /\ ("hosts" \notin d => st2[i].hosts = hosts)
    BY <1>2
  <1> HIDE DEF e, hosts
  <1>5. Reentered(st, st2, d, i, n, grp, vis, trash, hosts)
    BY <1>2, <1>4 DEF Reentered
  <1> HIDE DEF grp, trash
  <1> QED
    BY <1>3, <1>5, TracksEntered

LEMMA TracksTrash ==
    ASSUME NEW r \in GatewayStates, NEW st \in Contents, NEW st2 \in Contents, NEW d,
           NEW i \in Ids, NEW n, NEW trash \in BOOLEAN,
           Tracks(r, st, d), AlikeBut(st, st2, d, i),
           st[i].ns # None, n = st[i].ns.inst,
           st2[i].ns = Placed(n, st[i].ns.grp, st[i].ns.vis, trash),
           "hosts" \notin d => st2[i].hosts = st[i].hosts,
           "qos" \notin d => st2[i].qos = st[i].qos
    PROVE  Tracks(SetTrash(r, i, n, trash), st2, d)
  <1> DEFINE e == r.list[i]
             grp == st[i].ns.grp
             vis == st[i].ns.vis
             hosts == e.hosts
  <1>1. Agrees(r, i, st[i], d) /\ st[i] \in Keys
    BY KeyFields DEF Tracks
  <1>2. /\ e.inst = n /\ e.grp = grp /\ e.vis = vis /\ hosts \in SUBSET Hosts
        /\ "hosts" \notin d => st2[i].hosts = hosts
        /\ vis \in BOOLEAN
    BY <1>1, AgreesFields, EntryFields
  <1>3. r.spdk = [r.spdk EXCEPT ![i] = Served(n, grp, vis)]
    BY <1>1, AgreesAreEntered, GatewayFields
  <1>4. Has(SetTrash(r, i, n, trash), ListSet(r, i, n, Entered(n, grp, vis, trash, hosts)),
            r.spdk, r.bdev, r.load)
    BY <1>2, SetTrashIs
  <1>5. Relisted(r, SetTrash(r, i, n, trash), i, n, grp, vis, trash, hosts)
    BY <1>3, <1>4 DEF Relisted
  <1> HIDE DEF e, hosts
  <1>6. Reentered(st, st2, d, i, n, grp, vis, trash, hosts)
    BY <1>2 DEF Reentered
  <1> HIDE DEF grp, vis
  <1> QED
    BY <1>5, <1>6, TracksEntered

LEMMA TracksHosts ==
    ASSUME NEW r \in GatewayStates, NEW st \in Contents, NEW st2 \in Contents, NEW d,
           NEW i \in Ids, NEW n, NEW hosts \in SUBSET Hosts,
           Tracks(r, st, d), AlikeBut(st, st2, d, i),
           st[i].ns # None, n = st[i].ns.inst, st2[i].ns = st[i].ns,
           "hosts" \notin d => st2[i].hosts = hosts,
           "qos" \notin d => st2[i].qos = st[i].qos
    PROVE  Tracks(SetHosts(r, i, n, hosts), st2, d)
  <1> DEFINE e == r.list[i]
             grp == st[i].ns.grp
             vis == st[i].ns.vis
             trash == st[i].ns.trash
  <1>1. Agrees(r, i, st[i], d) /\ st[i] \in Keys
    BY KeyFields DEF Tracks
  <1>2. /\ e.inst = n /\ e.grp = grp /\ e.vis = vis /\ e.trash = trash
        /\ vis \in BOOLEAN /\ trash \in BOOLEAN
    BY <1>1, AgreesFields, EntryFields
  <1>3. r.spdk = [r.spdk EXCEPT ![i] = Served(n, grp, vis)]
    BY <1>1, AgreesAreEntered, GatewayFields
  <1>4. Has(SetHosts(r, i, n, hosts), ListSet(r, i, n, Entered(n, grp, vis, trash, hosts)),
            r.spdk, r.bdev, r.load)
    BY <1>2, SetHostsIs
  <1>5. Relisted(r, SetHosts(r, i, n, hosts), i, n, grp, vis, trash, hosts)
    BY <1>3, <1>4 DEF Relisted
  <1>6. st2[i].ns = Placed(n, grp, vis, trash)
    BY InstsOf, EntryWith
  <1> HIDE DEF e
  <1>7. Reentered(st, st2, d, i, n, grp, vis, trash, hosts)
    BY <1>2, <1>6 DEF Reentered
  <1> HIDE DEF grp, vis, trash
  <1> QED
    BY <1>5, <1>7, TracksEntered

LEMMA TracksLimit ==
    ASSUME NEW r \in GatewayStates, NEW st \in Contents, NEW st2 \in Contents, NEW d,
           NEW i \in Ids, NEW n, NEW limits \in Limited, r.bdev[n] # None,
           Tracks(r, st, d), AlikeBut(st, st2, d, i), Alone(st, i, n),
           st[i].ns # None, n = st[i].ns.inst, st2[i].ns = st[i].ns,
           "hosts" \notin d => st2[i].hosts = st[i].hosts,
           "qos" \notin d => st2[i].qos = Merged(limits, st[i].qos)
    PROVE  Tracks(Limit(r, n, limits), st2, d)
  <1> DEFINE r2 == Limit(r, n, limits)
  <1>1. n \in Insts /\ Agrees(r, i, st[i], d)
    BY InstsOf DEF Tracks
  <1>2. Has(r2, r.list, r.spdk, [r.bdev EXCEPT ![n] = Merged(limits, r.bdev[n])], r.load)
    BY <1>1, LimitIs
  <1>3. r.bdev \in [Insts -> Limited \cup {None}]
    BY GatewayFields
  <1> HIDE DEF r2
  <1>4. Agrees(r2, i, st2[i], d)
    <2>1. r2.list = r.list /\ r2.spdk = r.spdk /\ r2.bdev[n] = Merged(limits, r.bdev[n])
      BY <1>1, <1>2, <1>3 DEF Has
    <2> QED
      BY <1>1, <2>1 DEF Agrees
  <1>5. Counts(r2.list, r2.load)
    BY SMTT(30), <1>2 DEF Tracks, Has
  <1>6. \A j \in Ids : j # i =>
          /\ r2.list[j] = r.list[j] /\ r2.spdk[j] = r.spdk[j]
          /\ st[j].ns # None => r2.bdev[st[j].ns.inst] = r.bdev[st[j].ns.inst]
    BY <1>2, <1>3, InstsOf DEF Has, Alone
  <1>7. Tracks(r2, st2, d)
    BY <1>4, <1>5, <1>6, TracksBut
  <1> QED
    BY <1>7 DEF r2

\* A gateway follows a content that says the same of every namespace.
LEMMA TracksSame ==
    ASSUME NEW r, NEW st, NEW st2, NEW d, NEW d2, Tracks(r, st, d), d \subseteq d2,
           \A i \in Ids :
              /\ st2[i].ns = st[i].ns
              /\ st[i].ns # None => /\ "hosts" \notin d2 => st2[i].hosts = st[i].hosts
                                    /\ "qos" \notin d2 => st2[i].qos = st[i].qos
    PROVE  Tracks(r, st2, d2)
  BY DEF Tracks, Agrees

LEMMA TracksNew ==
    ASSUME NEW d
    PROVE  Tracks(NewGateway, EmptyContent, d)
  <1>1. NewGateway.list = [i \in Ids |-> None] /\ NewGateway.spdk = [i \in Ids |-> None]
        /\ NewGateway.load = [b \in Groups \cup {0} |-> 0]
    BY DEF NewGateway
  <1>2. \A i \in Ids : EmptyContent[i].ns = None
    BY NoKeysAreKeys DEF EmptyContent
  <1>3. \A b : ListOn(NewGateway.list, b) = {}
    BY <1>1 DEF ListOn
  <1>4. Counts(NewGateway.list, NewGateway.load)
    BY <1>1, <1>3, FS_EmptySet DEF Counts
  <1> QED
    BY <1>1, <1>2, <1>4 DEF Tracks, Agrees

(***************************************************************************)
(* What the actions have in common, as far as the second invariant goes    *)
(***************************************************************************)
Untouched(h) ==
    /\ gw'[h] = gw[h] /\ local'[h] = local[h] /\ update'[h] = update[h]
    /\ troubled'[h] = troubled[h]

\* The invariant is about each gateway on its own.
LEMMA FollowFrame ==
    ASSUME SecondInv, drift \subseteq drift', NEW g \in Gateways,
           \A h \in Gateways : h # g => Untouched(h),
           ~troubled'[g] => Tracks(gw'[g], Now(g)', drift'),
           ~troubled'[g] /\ update'[g] # None => Whole(update'[g], local'[g].st)
    PROVE  FollowInv' /\ WholeInv'
  <1>1. ASSUME NEW h \in Gateways, ~troubled'[h]
        PROVE  Tracks(gw'[h], Now(h)', drift')
    <2>1. CASE h = g
      BY <1>1, <2>1
    <2>2. CASE h # g
      <3>1. Now(h)' = Now(h) /\ gw'[h] = gw[h] /\ ~troubled[h]
        BY <1>1, <2>2 DEF Untouched, Now
      <3>2. Tracks(gw[h], Now(h), drift)
        BY <3>1 DEF SecondInv, FollowInv
      <3> QED
        BY <3>1, <3>2, TracksSame
    <2> QED
      BY <2>1, <2>2
  <1>2. ASSUME NEW h \in Gateways, update'[h] # None, ~troubled'[h]
        PROVE  Whole(update'[h], local'[h].st)
    <2>1. CASE h = g
      BY <1>2, <2>1
    <2>2. CASE h # g
      BY <1>2, <2>2 DEF Untouched, SecondInv, WholeInv
    <2> QED
      BY <2>1, <2>2
  <1> QED
    BY <1>1, <1>2 DEF FollowInv, WholeInv

\* With more drift less is said.
LEMMA DriftMore ==
    ASSUME NEW d, NEW d2, d \subseteq d2
    PROVE  /\ \A st : Clean(st, d) => Clean(st, d2)
           /\ \A st, new : Grown(st, new, d) => Grown(st, new, d2)
  BY DEF Clean, Grown

\* what has drifted is kept by a step that leaves keys and copies alone
LEMMA DriftFrame ==
    ASSUME SecondInv, drift \subseteq drift', UNCHANGED <<omap, local>>,
           \A h \in Gateways : update'[h] # None =>
                update[h] # None /\ update'[h].st = update[h].st
    PROVE  DriftInv'
  <1>1. Clean(omap, drift')
    BY DriftMore DEF SecondInv, DriftInv
  <1>2. ASSUME NEW h \in Gateways
        PROVE  /\ Clean(local[h].st, drift') /\ Grown(local[h].st, omap, drift')
               /\ update'[h] # None =>
                     /\ Clean(update'[h].st, drift')
                     /\ Grown(local[h].st, update'[h].st, drift')
                     /\ Grown(update'[h].st, omap, drift')
    BY DriftMore DEF SecondInv, DriftInv
  <1> QED
    BY <1>1, <1>2 DEF DriftInv

\* Requests that change no gateway and no key.
LEMMA RequestOnly ==
    ASSUME SecondInv, UNCHANGED <<omap, local, gw, update, troubled, drift>>
    PROVE  SecondInv'
  <1>1. DriftInv'
    BY DriftFrame
  <1>2. \A h : Now(h)' = Now(h)
    BY DEF Now
  <1>3. WholeInv' /\ FollowInv'
    BY <1>2 DEF SecondInv, WholeInv, FollowInv
  <1> QED
    BY <1>1, <1>3 DEF SecondInv

\* the keys a write leaves: those of namespaces that stay, and of request c's own
KeepsImages(c, new) ==
    \A i \in Ids : \/ new[i].ns = None \/ Same(omap[i], new[i]) \/ new[i].ns.inst = req[c].inst

\* and by one that writes what the request's gateway has
LEMMA WriteDrifts ==
    ASSUME BaseInv, SecondInv, NEW c \in Clients, req[c] # None, NEW new \in Contents,
           Drifts(req[c], new), KeepsImages(c, new)
    PROVE  /\ drift \subseteq drift'
           /\ Clean(new, drift')
           /\ \A st : Grown(st, omap, drift) /\ GoodContent(st, Places) => Grown(st, new, drift')
  <1>1. drift' = drift \cup Drifted(req[c], new)
    BY DEF Drifts
  <1>2. Clean(new, drift')
    <2> SUFFICES ASSUME NEW i \in Ids
                 PROVE  /\ "hosts" \notin drift' => CleanHosts(new[i])
                        /\ "qos" \notin drift' => CleanQos(new[i])
      BY DEF Clean
    <2>1. ASSUME "hosts" \notin drift'
          PROVE  CleanHosts(new[i])
      <3>1. "hosts" \notin Drifted(req[c], new)
        BY <1>1, <2>1
      <3>2. /\ new[i].hosts \in SUBSET Hosts
            /\ Cardinality(new[i].hosts) \in Nat /\ MaxHosts \in Nat
        BY KeyFields, EntryFinite, EntryBounds, FS_Subset, FS_CardinalityType
      <3> QED
        BY <3>1, <3>2 DEF Drifted, CleanHosts
    <2>2. ASSUME "qos" \notin drift'
          PROVE  CleanQos(new[i])
      <3>1. "qos" \notin Drifted(req[c], new)
        BY <1>1, <2>2
      <3> QED
        BY <3>1 DEF Drifted, CleanQos
    <2> QED
      BY <2>1, <2>2
  <1>3. ASSUME NEW st, Grown(st, omap, drift), GoodContent(st, Places), "qos" \notin drift',
               NEW i \in Ids, Same(st[i], new[i]), NEW l \in Limits, new[i].qos[l] = None
        PROVE  st[i].qos[l] = None
    <2>1. "qos" \notin Drifted(req[c], new) /\ "qos" \notin drift
      BY <1>1, <1>3
    <2>2. st[i].ns # None /\ new[i].ns # None /\ st[i].ns.inst = new[i].ns.inst
      BY <1>3 DEF Same
    <2>3. omap[i].qos[l] = None
      BY <1>3, <2>1, <2>2 DEF Drifted
    <2>4. st[i].ns.inst # req[c].inst
      <3>1. st \in Contents
        BY <1>3 DEF GoodContent
      <3>2. st[i].ns.inst \in Insts
        BY <2>2, <3>1, InstsOf
      <3>3. i \in Places[st[i].ns.inst]
        BY <1>3, <2>2, <3>2 DEF GoodContent, Is
      <3> QED
        BY <3>2, <3>3 DEF BaseInv, OwnInv, Sole
    <2>5. Same(omap[i], new[i])
      BY <2>2, <2>4 DEF KeepsImages
    <2>6. Same(st[i], omap[i])
      BY <2>2, <2>5 DEF Same
    <2> QED
      BY <1>3, <2>1, <2>3, <2>6 DEF Grown, Grows
  <1>4. ASSUME NEW st, Grown(st, omap, drift), GoodContent(st, Places)
        PROVE  Grown(st, new, drift')
    BY <1>3, <1>4 DEF Grown, Grows
  <1> QED
    BY <1>1, <1>2, <1>4

\* A content has grown to itself, and from nothing to any.
LEMMA GrownFrom ==
    ASSUME NEW st, NEW d
    PROVE  /\ Grown(st, st, d) /\ Grown(EmptyContent, st, d) /\ Clean(EmptyContent, d)
  <1>1. \A i \in Ids : EmptyContent[i] = NoKeys
    BY DEF EmptyContent
  <1>2. NoKeys.ns = None /\ NoKeys.qos = NoLimits /\ NoKeys.hosts = {}
    BY NoKeysAreKeys
  <1> QED
    BY <1>1, <1>2 DEF Grown, Grows, Same, Clean, CleanHosts, CleanQos

\* a gateway that starts again has nothing and knows no keys
LEMMA RestartFollows ==
    ASSUME BaseInv, SecondInv, NEW g \in Gateways, Restart(g), drift \subseteq drift',
           Clean(omap', drift'),
           \A st : Grown(st, omap, drift) /\ GoodContent(st, Places) => Grown(st, omap', drift')
    PROVE  SecondInv'
  <1>1. /\ gw \in [Gateways -> GatewayStates] /\ troubled \in [Gateways -> BOOLEAN]
        /\ local \in [Gateways -> [ver : Nat, st : Contents]]
        /\ update \in [Gateways -> Updates \cup {None}]
    BY DEF BaseInv, EntryTypeOK
  <1>2. /\ gw'[g] = NewGateway /\ local'[g].st = EmptyContent /\ update'[g] = None
        /\ \A h \in Gateways : h # g => Untouched(h)
    BY <1>1 DEF Restart, Untouched
  <1>3. Now(g)' = EmptyContent
    BY <1>2 DEF Now
  <1>4. FollowInv' /\ WholeInv'
    BY <1>2, <1>3, TracksNew, FollowFrame
  <1>5. ASSUME NEW h \in Gateways
        PROVE  /\ Clean(local'[h].st, drift') /\ Grown(local'[h].st, omap', drift')
               /\ update'[h] # None =>
                     /\ Clean(update'[h].st, drift')
                     /\ Grown(local'[h].st, update'[h].st, drift')
                     /\ Grown(update'[h].st, omap', drift')
    <2>1. CASE h = g
      BY <1>2, <2>1, GrownFrom
    <2>2. CASE h # g
      <3>1. local'[h] = local[h] /\ update'[h] = update[h]
        BY <1>2, <2>2 DEF Untouched
      <3>2. /\ GoodContent(local[h].st, Places)
            /\ update[h] # None => GoodContent(update[h].st, Places)
        BY BaseIsGood DEF GoodCore, GoodState
      <3> QED
        BY <3>1, <3>2, DriftMore DEF SecondInv, DriftInv
    <2> QED
      BY <2>1, <2>2
  <1>6. DriftInv'
    BY <1>5 DEF DriftInv
  <1> QED
    BY <1>4, <1>6 DEF SecondInv

\* every step that ends a process keeps the second invariant
LEMMA EndsFollow ==
    ASSUME BaseInv, SecondInv, NEW g \in Gateways, Abort(g) \/ Crash(g)
    PROVE  SecondInv'
  <1>1. Restart(g) /\ omap' = omap /\ drift' = drift
    BY DEF Abort, Crash, omapVars
  <1> QED
    BY <1>1, RestartFollows DEF SecondInv, DriftInv

\* what is known of a request that has the lock, at a gateway without trouble
LEMMA CurrentIs ==
    ASSUME BaseInv, SecondInv, NEW c \in Clients, req[c] # None, ~Behind(req[c].gw)
    PROVE  LET q == req[c]
               g == q.gw
           IN  /\ g \in Gateways /\ q.id \in Ids /\ gw[g] \in GatewayStates
               /\ local[g].st = omap /\ update[g] = None /\ omap \in Contents
               /\ ~troubled[g] => Tracks(gw[g], omap, drift)
               /\ \A i \in Ids : \A n : omap[i].ns # None /\ n = omap[i].ns.inst => Alone(omap, i, n)
               /\ Alone(omap, q.id, q.inst)
  <1>1. /\ req[c].gw \in Gateways /\ req[c].id \in Ids /\ gw[req[c].gw] \in GatewayStates
        /\ local[req[c].gw].st = omap /\ update[req[c].gw] = None
    BY RequestIs
  <1>2. omap \in Contents /\ GoodContent(omap, Places)
    BY BaseIsGood DEF GoodCore, GoodState, GoodContent
  <1>3. ~troubled[req[c].gw] => Tracks(gw[req[c].gw], omap, drift)
    BY <1>1 DEF SecondInv, FollowInv, Now
  <1>4. ASSUME NEW j \in Ids, omap[j].ns # None
        PROVE  omap[j].ns.inst \in Insts /\ j \in Places[omap[j].ns.inst]
    BY <1>2, <1>4, InstsOf DEF GoodContent, Is
  <1>5. ASSUME NEW i \in Ids, NEW n, omap[i].ns # None, n = omap[i].ns.inst
        PROVE  Alone(omap, i, n)
    BY <1>4, <1>5 DEF Alone, BaseInv, OwnInv, Sole
  <1>6. Alone(omap, req[c].id, req[c].inst)
    BY <1>4 DEF Alone, BaseInv, OwnInv, Sole
  <1> QED
    BY <1>1, <1>2, <1>3, <1>5, <1>6

\* a request that writes and calls alike keeps its gateway on the keys
LEMMA SucceedsFollows ==
    ASSUME BaseInv, SecondInv, NEW c \in Clients, req[c] # None, ~Behind(req[c].gw),
           NEW r, NEW new \in Contents, Succeeds(c, r, new), KeepsImages(c, new),
           ~troubled[req[c].gw] /\ ~Outdated(req[c]) => Tracks(r, new, drift')
    PROVE  SecondInv'
  <1> PICK g \in Gateways : g = req[c].gw
    BY CurrentIs
  <1>1. update[g] = None
    BY CurrentIs
  <1>2. /\ gw \in [Gateways -> GatewayStates] /\ troubled \in [Gateways -> BOOLEAN]
        /\ local \in [Gateways -> [ver : Nat, st : Contents]]
    BY DEF BaseInv, EntryTypeOK
  <1>3. /\ gw' = [gw EXCEPT ![g] = r] /\ omap' = new /\ UNCHANGED update
        /\ local' = [local EXCEPT ![g] = [ver |-> version + 1, st |-> new]]
        /\ troubled' = [troubled EXCEPT ![g] = @ \/ Outdated(req[c])]
        /\ Drifts(req[c], new)
    BY DEF Succeeds, Write
  <1>4. /\ gw'[g] = r /\ local'[g].st = new /\ update'[g] = None
        /\ troubled'[g] = (troubled[g] \/ Outdated(req[c]))
        /\ \A h \in Gateways : h # g => Untouched(h)
    BY <1>1, <1>2, <1>3 DEF Untouched
  <1>5. /\ drift \subseteq drift' /\ Clean(new, drift')
        /\ \A st : Grown(st, omap, drift) /\ GoodContent(st, Places) => Grown(st, new, drift')
    BY <1>3, WriteDrifts
  <1>6. Now(g)' = new
    BY <1>4 DEF Now
  <1>7. FollowInv' /\ WholeInv'
    BY <1>4, <1>5, <1>6, FollowFrame
  <1>8. ASSUME NEW h \in Gateways
        PROVE  /\ Clean(local'[h].st, drift') /\ Grown(local'[h].st, new, drift')
               /\ update'[h] # None =>
                     /\ Clean(update'[h].st, drift')
                     /\ Grown(local'[h].st, update'[h].st, drift')
                     /\ Grown(update'[h].st, new, drift')
    <2>1. CASE h = g
      BY <1>4, <1>5, <2>1, GrownFrom
    <2>2. CASE h # g
      <3>1. local'[h] = local[h] /\ update'[h] = update[h]
        BY <1>4, <2>2 DEF Untouched
      <3>2. /\ GoodContent(local[h].st, Places)
            /\ update[h] # None => GoodContent(update[h].st, Places)
        BY BaseIsGood DEF GoodCore, GoodState
      <3> QED
        BY <1>5, <3>1, <3>2, DriftMore DEF SecondInv, DriftInv
    <2> QED
      BY <2>1, <2>2
  <1>9. DriftInv'
    BY <1>3, <1>5, <1>8 DEF DriftInv
  <1> QED
    BY <1>7, <1>9 DEF SecondInv

\* A gateway that gets into trouble is not asked to follow.
LEMMA TroubledFollows ==
    ASSUME BaseInv, SecondInv, NEW g \in Gateways, NEW r,
           gw' = [gw EXCEPT ![g] = r], troubled' = [troubled EXCEPT ![g] = TRUE],
           UNCHANGED <<omap, local, update, drift>>
    PROVE  SecondInv'
  <1>1. gw \in [Gateways -> GatewayStates] /\ troubled \in [Gateways -> BOOLEAN]
    BY DEF BaseInv, EntryTypeOK
  <1>2. troubled'[g] = TRUE /\ \A h \in Gateways : h # g => Untouched(h)
    BY <1>1 DEF Untouched
  <1>3. FollowInv' /\ WholeInv'
    BY <1>2, FollowFrame
  <1>4. DriftInv'
    BY DriftFrame
  <1> QED
    BY <1>3, <1>4 DEF SecondInv

\* one whose calls fail half-way makes its gateway troubled
LEMMA BreaksFollows ==
    ASSUME BaseInv, SecondInv, NEW c \in Clients, req[c] # None, NEW r, Breaks(c, r)
    PROVE  SecondInv'
  <1>1. req[c].gw \in Gateways
    BY RequestIs
  <1> QED
    BY <1>1, TroubledFollows DEF Breaks, omapVars

\* one that fails before its calls changes nothing
LEMMA FailsFollow ==
    ASSUME SecondInv, NEW c, Fails(c)
    PROVE  SecondInv'
  BY RequestOnly DEF Fails, omapVars, historyVars

LEMMA EffectFollows ==
    ASSUME BaseInv, SecondInv, NEW c \in Clients, req[c] # None, ~Behind(req[c].gw),
           NEW r, NEW new \in Contents, Effect(c, r, new), KeepsImages(c, new),
           Drifts(req[c], new) /\ ~troubled[req[c].gw] /\ ~Outdated(req[c])
              => Tracks(r, new, drift')
    PROVE  SecondInv'
  <1>1. CASE Succeeds(c, r, new)
    BY <1>1, SucceedsFollows DEF Succeeds
  <1>2. CASE Breaks(c, r)
    BY <1>2, BreaksFollows
  <1>3. CASE Fails(c)
    BY <1>3, FailsFollow
  <1> QED
    BY <1>1, <1>2, <1>3 DEF Effect

\* One namespace's keys are written: those of the image the namespace has, or
\* of the request's own.
OwnEntry(c, i, ns) ==
    \/ ns = omap[i].ns
    \/ ns # None /\ omap[i].ns # None /\ ns.inst = omap[i].ns.inst
    \/ ns # None /\ ns.inst = req[c].inst
LEMMA DiffersKeeps ==
    ASSUME NEW c, NEW x, NEW i \in Ids, NEW ns, NEW qos, NEW hosts,
           Differs(x, omap, i, ns, qos, hosts), OwnEntry(c, i, ns)
    PROVE  x \in Contents /\ KeepsImages(c, x) /\ \A d : AlikeBut(omap, x, d, i)
  <1>1. x \in Contents /\ \A d : AlikeBut(omap, x, d, i)
    BY DEF Differs, AlikeBut
  <1>2. KeepsImages(c, x)
    BY DEF Differs, KeepsImages, Same, OwnEntry
  <1> QED
    BY <1>1, <1>2

\* what a request q finds that has the lock, if neither it nor its gateway r is
\* outdated
Fresh(q, r, d) ==
    /\ Tracks(r, omap, d)
    /\ omap[q.id].ns = None => q.found = None /\ r.list[q.id] = None
    /\ omap[q.id].ns # None =>
        /\ q.found = omap[q.id].ns.inst /\ r.list[q.id] # None /\ ~RemoveErrs(r, q.id)
        /\ "hosts" \notin d => r.list[q.id].hosts = omap[q.id].hosts
    /\ q.ask.op # "trash" => ~Refused(r, q.id, q.ask)

\* what a request of a gateway without trouble has found is what the OMAP has
LEMMA FreshIs ==
    ASSUME BaseInv, SecondInv, NEW c \in Clients, req[c] # None, ~Behind(req[c].gw),
           ~troubled[req[c].gw], ~Outdated(req[c]), drift \subseteq drift'
    PROVE  Fresh(req[c], gw[req[c].gw], drift')
  <1> DEFINE q == req[c]
             r == gw[q.gw]
  <1>1. /\ q.id \in Ids /\ r \in GatewayStates /\ omap \in Contents /\ Tracks(r, omap, drift)
    BY CurrentIs
  <1> HIDE DEF r
  <1>2. Tracks(r, omap, drift')
    BY <1>1, TracksSame
  <1>3. Agrees(r, q.id, omap[q.id], drift') /\ omap[q.id] \in Keys
    BY <1>1, <1>2, KeyFields DEF Tracks
  <1>4. q.found = FoundNow(r, q.id) /\ (q.ask.op # "trash" => ~Refused(r, q.id, q.ask))
    BY DEF Outdated, r
  <1>5. CASE omap[q.id].ns = None
    BY <1>2, <1>3, <1>4, <1>5 DEF Agrees, FoundNow, Fresh, r
  <1>6. CASE omap[q.id].ns # None
    BY SMTT(30), <1>1, <1>2, <1>3, <1>4, <1>6, AgreesFields DEF Fresh, r
  <1> QED
    BY <1>5, <1>6

\* each request keeps the second invariant
LEMMA AddNamespaceFollows ==
    ASSUME BaseInv, SecondInv, NEW c \in Clients, AddNamespace(c)
    PROVE  SecondInv'
  <1> DEFINE q == req[c]
             r == gw[q.gw]
             e == [inst |-> q.inst, grp |-> q.ask.grp, vis |-> q.ask.vis, trash |-> q.ask.trash]
             r2 == [r EXCEPT !.list[q.id] = None]
             new == NsSet(omap, q.id, e)
  <1>1. q # None /\ ~Behind(q.gw) /\ q.ask.op = "add"
    BY DEF AddNamespace, Locked
  <1>2. /\ q.ask \in Asks /\ q.gw \in Gateways /\ q.id \in Ids /\ q.inst \in Insts
        /\ r \in GatewayStates
    BY <1>1, RequestIs
  <1>3. e \in Entries /\ e.inst = q.inst
    BY <1>1, <1>2, AskFields DEF Entries
  <1>4. e # None /\ omap \in Contents /\ Alone(omap, q.id, e.inst)
    BY <1>1, <1>3, EntryFields, CurrentIs
  <1>5. CASE Succeeds(c, Serve(r, q.id, e), [omap EXCEPT ![q.id].ns = e])
    <2>1. Succeeds(c, Serve(r, q.id, e), new)
      BY <1>5 DEF NsSet
    <2> HIDE DEF e
    <2>2. Differs(new, omap, q.id, e, omap[q.id].qos, omap[q.id].hosts)
      BY <1>2, <1>3, <1>4, NsSetIs
    <2>3. new \in Contents /\ KeepsImages(c, new) /\ \A d : AlikeBut(omap, new, d, q.id)
      <3>1. OwnEntry(c, q.id, e)
        BY <1>3, <1>4 DEF OwnEntry
      <3> QED
        BY <1>2, <2>2, <3>1, DiffersKeeps
    <2> HIDE DEF new
    <2>4. ASSUME Drifts(q, new), ~troubled[q.gw], ~Outdated(q)
          PROVE  Tracks(Serve(r, q.id, e), new, drift')
      <3>0. drift \subseteq drift'
        BY <2>4 DEF Drifts
      <3>1. /\ Tracks(r, omap, drift')
            /\ omap[q.id].ns # None => r.list[q.id] # None
            /\ ~Refused(r, q.id, q.ask)
        BY <1>1, <2>4, <3>0, FreshIs DEF Fresh
      <3>2. omap[q.id].ns = None
        BY <1>1, <3>1 DEF Refused
      <3>3. /\ "hosts" \notin drift' => omap[q.id].hosts = {}
            /\ "qos" \notin drift' => omap[q.id].qos = NoLimits
        BY <1>2, <3>0, <3>2 DEF SecondInv, DriftInv, Clean, CleanHosts, CleanQos
      <3>4. /\ new[q.id].ns = e
            /\ "hosts" \notin drift' => new[q.id].hosts = {}
            /\ "qos" \notin drift' => new[q.id].qos = NoLimits
        BY <2>2, <3>3 DEF Differs
      <3> HIDE DEF q, r
      <3> QED
        BY <1>2, <1>3, <1>4, <2>3, <3>1, <3>2, <3>4, TracksServe
    <2> QED
      BY <1>1, <2>1, <2>3, <2>4, SucceedsFollows DEF Succeeds
  <1>6. CASE /\ gw' = [gw EXCEPT ![q.gw] = r2]
             /\ troubled' = [troubled EXCEPT ![q.gw] = TRUE]
             /\ UNCHANGED <<omapVars, local, update, drift>>
    BY <1>2, <1>6, TroubledFollows DEF omapVars
  <1>7. ASSUME NEW left \in AddLeaves(r, q.id, e), Breaks(c, left)
        PROVE  SecondInv'
    BY <1>1, <1>7, BreaksFollows
  <1>8. \/ Succeeds(c, Serve(r, q.id, e), [omap EXCEPT ![q.id].ns = e])
        \/ \E left \in AddLeaves(r, q.id, e) : Breaks(c, left)
        \/ /\ gw' = [gw EXCEPT ![q.gw] = r2]
           /\ troubled' = [troubled EXCEPT ![q.gw] = TRUE]
           /\ UNCHANGED <<omapVars, local, update, drift>>
    BY DEF AddNamespace
  <1> HIDE DEF e, r, r2, q
  <1> QED
    BY <1>5, <1>6, <1>7, <1>8

LEMMA ChangeGroupFollows ==
    ASSUME BaseInv, SecondInv, NEW c \in Clients, ChangeGroup(c)
    PROVE  SecondInv'
  <1> DEFINE q == req[c]
             r == gw[q.gw]
             e == [Entry(c) EXCEPT !.grp = q.ask.grp]
             new == NsSet(omap, q.id, e)
  <1>1. q # None /\ ~Behind(q.gw) /\ q.ask.op = "group"
    BY DEF ChangeGroup, Locked
  <1>2. /\ q.ask \in Asks /\ q.gw \in Gateways /\ q.id \in Ids /\ r \in GatewayStates
        /\ Entry(c) = omap[q.id].ns /\ omap \in Contents
    BY <1>1, RequestIs, CurrentIs DEF Entry
  <1>3. q.ask.grp \in Groups
    BY <1>1, <1>2, AskFields
  <1>4. CASE Fails(c)
    BY <1>4, FailsFollow
  <1>5. CASE Abort(q.gw)
    BY <1>2, <1>5, EndsFollow
  <1>6. CASE /\ Entry(c) # None
             /\ Effect(c, Regroup(r, q.id, q.found, q.ask.grp), [omap EXCEPT ![q.id].ns = e])
    <2>1. Effect(c, Regroup(r, q.id, q.found, q.ask.grp), new)
      BY <1>6 DEF NsSet
    <2>2. Entry(c) \in Entries
      BY <1>2, <1>6, KeyFields
    <2>3. e = Placed(omap[q.id].ns.inst, q.ask.grp, omap[q.id].ns.vis, omap[q.id].ns.trash)
      BY <1>2, <1>3, <2>2, EntryWith
    <2> HIDE DEF e
    <2>4. e \in Entries /\ e # None /\ e.inst = omap[q.id].ns.inst
      BY <1>2, <1>3, <2>2, <2>3, PlacedFields, EntryFields
    <2>5. Differs(new, omap, q.id, e, omap[q.id].qos, omap[q.id].hosts)
      BY <1>2, <2>4, NsSetIs
    <2>6. new \in Contents /\ KeepsImages(c, new) /\ \A d : AlikeBut(omap, new, d, q.id)
      <3>1. OwnEntry(c, q.id, e)
        BY <1>2, <1>6, <2>4 DEF OwnEntry
      <3> QED
        BY <1>2, <2>5, <3>1, DiffersKeeps
    <2> HIDE DEF new
    <2>7. ASSUME Drifts(q, new), ~troubled[q.gw], ~Outdated(q)
          PROVE  Tracks(Regroup(r, q.id, q.found, q.ask.grp), new, drift')
      <3>0. drift \subseteq drift'
        BY <2>7 DEF Drifts
      <3>1. Tracks(r, omap, drift') /\ omap[q.id].ns # None /\ q.found = omap[q.id].ns.inst
        BY <1>1, <1>2, <1>6, <2>7, <3>0, FreshIs DEF Fresh
      <3>2. /\ new[q.id].ns = Placed(q.found, q.ask.grp, omap[q.id].ns.vis, omap[q.id].ns.trash)
            /\ new[q.id].hosts = omap[q.id].hosts /\ new[q.id].qos = omap[q.id].qos
        BY <2>3, <2>5, <3>1 DEF Differs
      <3> HIDE DEF q, r
      <3> QED
        BY SMTT(30), <1>2, <1>3, <2>6, <3>1, <3>2, TracksRegroup
    <2> QED
      BY <1>1, <2>1, <2>6, <2>7, EffectFollows
  <1> QED
    BY <1>4, <1>5, <1>6 DEF ChangeGroup

LEMMA ChangeVisibilityFollows ==
    ASSUME BaseInv, SecondInv, NEW c \in Clients, ChangeVisibility(c)
    PROVE  SecondInv'
  <1> DEFINE q == req[c]
             r == gw[q.gw]
             e == [Entry(c) EXCEPT !.vis = q.ask.vis]
             z == Show(r, q.id, q.found, q.ask.vis, q.ask.force)
             new == NsSet(omap, q.id, e)
  <1>1. q # None /\ ~Behind(q.gw) /\ q.ask.op = "vis"
    BY DEF ChangeVisibility, Locked
  <1>2. /\ q.ask \in Asks /\ q.gw \in Gateways /\ q.id \in Ids /\ r \in GatewayStates
        /\ Entry(c) = omap[q.id].ns /\ omap \in Contents
    BY <1>1, RequestIs, CurrentIs DEF Entry
  <1>3. q.ask.vis \in BOOLEAN
    BY <1>1, <1>2, AskFields
  <1>4. CASE Fails(c)
    BY <1>4, FailsFollow
  <1>5. CASE /\ Entry(c) # None
             /\ Effect(c, z, [omap EXCEPT ![q.id].ns = e])
    <2>1. Effect(c, z, new)
      BY <1>5 DEF NsSet
    <2>2. Entry(c) \in Entries
      BY <1>2, <1>5, KeyFields
    <2>3. e = Placed(omap[q.id].ns.inst, omap[q.id].ns.grp, q.ask.vis, omap[q.id].ns.trash)
      BY SMTT(30), <1>2, <1>3, <2>2, EntryWith
    <2> HIDE DEF e
    <2>4. e \in Entries /\ e # None /\ e.inst = omap[q.id].ns.inst /\ e.vis = q.ask.vis
      BY <1>2, <1>3, <2>2, <2>3, PlacedFields, EntryFields
    <2>5. Differs(new, omap, q.id, e, omap[q.id].qos, omap[q.id].hosts)
      BY <1>2, <2>4, NsSetIs
    <2>6. new \in Contents /\ KeepsImages(c, new) /\ \A d : AlikeBut(omap, new, d, q.id)
      <3>1. OwnEntry(c, q.id, e)
        BY <1>2, <1>5, <2>4 DEF OwnEntry
      <3> QED
        BY <1>2, <2>5, <3>1, DiffersKeeps
    <2> HIDE DEF new
    <2>7. ASSUME Drifts(q, new), ~troubled[q.gw], ~Outdated(q)
          PROVE  Tracks(z, new, drift')
      <3>0. drift \subseteq drift'
        BY <2>7 DEF Drifts
      <3>1. Tracks(r, omap, drift') /\ omap[q.id].ns # None /\ q.found = omap[q.id].ns.inst
        BY SMTT(30), <1>1, <1>2, <1>5, <2>7, <3>0, FreshIs DEF Fresh
      <3>2. /\ new[q.id].ns = Placed(q.found, omap[q.id].ns.grp, q.ask.vis, omap[q.id].ns.trash)
            /\ new[q.id].hosts = omap[q.id].hosts /\ new[q.id].qos = omap[q.id].qos
            /\ new[q.id].ns.vis = q.ask.vis
        BY <2>3, <2>4, <2>5, <3>1 DEF Differs
      <3>3. Clean(new, drift')
        BY <1>1, <2>6, <2>7, WriteDrifts
      <3>4. "hosts" \notin drift' =>
               new[q.id].hosts = IF q.ask.force /\ q.ask.vis THEN {} ELSE omap[q.id].hosts
        BY <1>2, <3>2, <3>3 DEF Clean, CleanHosts
      <3> HIDE DEF q, r
      <3> QED
        BY SMTT(30), <1>2, <1>3, <2>6, <3>1, <3>2, <3>4, TracksShow
    <2> QED
      BY <1>1, <2>1, <2>6, <2>7, EffectFollows
  <1> QED
    BY <1>4, <1>5 DEF ChangeVisibility

LEMMA ChangeTrashFollows ==
    ASSUME BaseInv, SecondInv, NEW c \in Clients, ChangeTrash(c)
    PROVE  SecondInv'
  <1> DEFINE q == req[c]
             r == gw[q.gw]
             e == [Entry(c) EXCEPT !.trash = q.ask.trash]
             z == SetTrash(r, q.id, q.found, q.ask.trash)
             new == NsSet(omap, q.id, e)
  <1>1. q # None /\ ~Behind(q.gw) /\ q.ask.op = "trash"
    BY DEF ChangeTrash, Locked
  <1>2. /\ q.ask \in Asks /\ q.gw \in Gateways /\ q.id \in Ids /\ r \in GatewayStates
        /\ Entry(c) = omap[q.id].ns /\ omap \in Contents
    BY <1>1, RequestIs, CurrentIs DEF Entry
  <1>3. q.ask.trash \in BOOLEAN
    BY <1>1, <1>2, AskFields
  <1>4. CASE Fails(c)
    BY <1>4, FailsFollow
  <1>5. CASE /\ Entry(c) # None
             /\ Succeeds(c, z, [omap EXCEPT ![q.id].ns = e]) \/ Breaks(c, r)
    <2>1. Succeeds(c, z, new) \/ Breaks(c, r)
      BY <1>5 DEF NsSet
    <2>2. Entry(c) \in Entries
      BY <1>2, <1>5, KeyFields
    <2>3. e = Placed(omap[q.id].ns.inst, omap[q.id].ns.grp, omap[q.id].ns.vis, q.ask.trash)
      BY <1>2, <1>3, <2>2, EntryWith
    <2> HIDE DEF e
    <2>4. e \in Entries /\ e # None /\ e.inst = omap[q.id].ns.inst
      BY <1>2, <1>3, <2>2, <2>3, PlacedFields, EntryFields
    <2>5. Differs(new, omap, q.id, e, omap[q.id].qos, omap[q.id].hosts)
      BY <1>2, <2>4, NsSetIs
    <2>6. new \in Contents /\ KeepsImages(c, new) /\ \A d : AlikeBut(omap, new, d, q.id)
      <3>1. OwnEntry(c, q.id, e)
        BY <1>2, <1>5, <2>4 DEF OwnEntry
      <3> QED
        BY <1>2, <2>5, <3>1, DiffersKeeps
    <2> HIDE DEF new
    <2>7. ASSUME Drifts(q, new), ~troubled[q.gw], ~Outdated(q)
          PROVE  Tracks(z, new, drift')
      <3>0. drift \subseteq drift'
        BY <2>7 DEF Drifts
      <3>1. Tracks(r, omap, drift') /\ omap[q.id].ns # None /\ q.found = omap[q.id].ns.inst
        BY <1>1, <1>2, <1>5, <2>7, <3>0, FreshIs DEF Fresh
      <3>2. /\ new[q.id].ns = Placed(q.found, omap[q.id].ns.grp, omap[q.id].ns.vis, q.ask.trash)
            /\ new[q.id].hosts = omap[q.id].hosts /\ new[q.id].qos = omap[q.id].qos
        BY <2>3, <2>5, <3>1 DEF Differs
      <3> HIDE DEF q, r
      <3> QED
        BY SMTT(30), <1>2, <1>3, <2>6, <3>1, <3>2, TracksTrash
    <2>8. CASE Succeeds(c, z, new)
      BY <1>1, <2>6, <2>7, <2>8, SucceedsFollows DEF Succeeds
    <2> QED
      BY <1>1, <2>1, <2>8, BreaksFollows
  <1>6. CASE /\ Entry(c) # None /\ Entry(c).trash = q.ask.trash
             /\ gw' = [gw EXCEPT ![q.gw] = z]
             /\ UNCHANGED <<omapVars, local, update, images, budgetVars, historyVars>>
    <2> PICK g \in Gateways : g = q.gw
      BY <1>2
    <2>1. UNCHANGED <<omap, local, update, troubled, drift>> /\ gw'[g] = z
          /\ \A h \in Gateways : h # g => Untouched(h)
      BY <1>6, BaseIsGood DEF omapVars, historyVars, Untouched, CoreTypes
    <2>2. update[g] = None
      BY <1>1, CurrentIs
    <2>3. ASSUME ~troubled[g]
          PROVE  Tracks(z, omap, drift)
      <3>1. Tracks(r, omap, drift)
        BY SMTT(30), <1>1, <2>3, CurrentIs
      <3>2. CASE ~AtFound(r, q.id, q.found)
        BY <3>1, <3>2 DEF SetTrash, SetFound, AtFound
      <3>3. CASE AtFound(r, q.id, q.found)
        <4>1. Agrees(r, q.id, omap[q.id], drift) /\ omap[q.id] \in Keys
          BY <1>2, <3>1, KeyFields DEF Tracks
        <4>2. q.found = omap[q.id].ns.inst
          BY <1>2, <1>6, <3>3, <4>1, AgreesFields DEF AtFound
        <4>3. omap[q.id].ns \in Entries
          BY <1>2, <1>6, KeyFields
        <4>4. omap[q.id].ns = Placed(q.found, omap[q.id].ns.grp, omap[q.id].ns.vis, q.ask.trash)
          BY <1>2, <1>6, <4>2, <4>3, EntryWith
        <4>5. AlikeBut(omap, omap, drift, q.id)
          BY DEF AlikeBut
        <4> HIDE DEF q, r
        <4> QED
          BY <1>2, <1>3, <1>6, <3>1, <4>2, <4>4, <4>5, TracksTrash
      <3> QED
        BY <3>2, <3>3
    <2>4. Now(g)' = local[g].st /\ local[g].st = omap
      BY <1>1, <2>1, <2>2, CurrentIs DEF Now
    <2>5. FollowInv' /\ WholeInv'
      BY <2>1, <2>2, <2>3, <2>4, FollowFrame
    <2>6. DriftInv'
      BY <2>1, DriftFrame
    <2> QED
      BY <2>5, <2>6 DEF SecondInv
  <1> QED
    BY <1>4, <1>5, <1>6 DEF ChangeTrash

LEMMA SetLimitsFollows ==
    ASSUME BaseInv, SecondInv, NEW c \in Clients, SetLimits(c)
    PROVE  SecondInv'
  <1> DEFINE q == req[c]
             r == gw[q.gw]
             asked == [NoLimits EXCEPT ![q.ask.limit] = q.ask.value]
             merged == [l \in Limits |-> IF asked[l] # None THEN asked[l] ELSE q.qos[l]]
             z == Limit(r, q.found, asked)
             new == QosSet(omap, q.id, merged)
  <1>1. q # None /\ ~Behind(q.gw) /\ q.ask.op = "qos" /\ q.waiting
    BY DEF SetLimits, Locked
  <1>2. /\ q.ask \in Asks /\ q.gw \in Gateways /\ q.id \in Ids /\ r \in GatewayStates
        /\ q.qos \in Limited /\ HasFound(q) /\ omap \in Contents
    BY <1>1, RequestIs, CurrentIs
  <1>3. asked \in Limited
    BY <1>1, <1>2, AskFields, NoLimitsIsLimited DEF Limited
  <1> HIDE DEF asked
  <1>4. merged \in Limited /\ merged = Merged(asked, q.qos)
    BY <1>2, <1>3 DEF Limited, Merged
  <1> HIDE DEF merged
  <1>5. CASE /\ r.bdev[q.found] # None
             /\ Effect(c, z, [omap EXCEPT ![q.id].qos = merged])
    <2>1. Effect(c, z, new)
      BY <1>5 DEF QosSet
    <2>2. Differs(new, omap, q.id, omap[q.id].ns, merged, omap[q.id].hosts)
      BY <1>2, <1>4, QosSetIs
    <2>3. new \in Contents /\ KeepsImages(c, new) /\ \A d : AlikeBut(omap, new, d, q.id)
      <3>1. OwnEntry(c, q.id, omap[q.id].ns)
        BY DEF OwnEntry
      <3> QED
        BY <1>2, <2>2, <3>1, DiffersKeeps
    <2> HIDE DEF new
    <2>4. ASSUME Drifts(q, new), ~troubled[q.gw], ~Outdated(q)
          PROVE  Tracks(z, new, drift')
      <3>0. drift \subseteq drift'
        BY <2>4 DEF Drifts
      <3>1. /\ Tracks(r, omap, drift')
            /\ omap[q.id].ns = None => q.found = None
            /\ omap[q.id].ns # None => q.found = omap[q.id].ns.inst
        BY <1>1, <2>4, <3>0, FreshIs DEF Fresh
      <3>2. omap[q.id].ns # None /\ q.found = omap[q.id].ns.inst
        BY <1>1, <1>2, <3>1 DEF HasFound
      <3>3. Alone(omap, q.id, q.found)
        BY <1>1, <1>2, <3>2, CurrentIs
      <3>4. "qos" \notin drift' => q.qos = omap[q.id].qos
        BY <1>1, <1>2, <2>4 DEF Drifts, Drifted
      <3>5. /\ new[q.id].ns = omap[q.id].ns /\ new[q.id].hosts = omap[q.id].hosts
            /\ "qos" \notin drift' => new[q.id].qos = Merged(asked, omap[q.id].qos)
        BY <1>4, <2>2, <3>4 DEF Differs
      <3> HIDE DEF q, r
      <3> QED
        BY <1>2, <1>3, <1>5, <2>3, <3>1, <3>2, <3>3, <3>5, TracksLimit
    <2> QED
      BY <1>1, <2>1, <2>3, <2>4, EffectFollows
  <1>6. Fails(c) \/ /\ r.bdev[q.found] # None
                    /\ Effect(c, z, [omap EXCEPT ![q.id].qos = merged])
    BY DEF SetLimits, asked, merged
  <1> QED
    BY <1>5, <1>6, FailsFollow

LEMMA ChangeHostsFollows ==
    ASSUME BaseInv, SecondInv, NEW c \in Clients, NEW op \in {"addhost", "delhost"},
           ChangeHosts(c, op)
    PROVE  SecondInv'
  <1> DEFINE q == req[c]
             r == gw[q.gw]
             a == HostsAfter(q.ask, r.list[q.id].hosts)
             b == HostsAfter(q.ask, omap[q.id].hosts)
             z == SetHosts(r, q.id, q.found, a)
             new == HostsSet(omap, q.id, b)
  <1>1. q # None /\ ~Behind(q.gw) /\ q.ask.op \in {"addhost", "delhost"}
    BY DEF ChangeHosts, Locked
  <1>2. /\ q.ask \in Asks /\ q.gw \in Gateways /\ q.id \in Ids /\ r \in GatewayStates
        /\ omap \in Contents
    BY <1>1, RequestIs, CurrentIs
  <1>3. q.ask.host \in Hosts
    BY <1>1, <1>2, AskFields
  <1>4. CASE Abort(q.gw)
    BY <1>2, <1>4, EndsFollow
  <1>5. CASE \/ Succeeds(c, z, [omap EXCEPT ![q.id].hosts = HostsAfter(q.ask, @)])
             \/ Breaks(c, z)
    <2>1. Effect(c, z, new)
      BY <1>5 DEF HostsSet, Effect
    <2>2. b \in SUBSET Hosts
      BY <1>2, <1>3, KeyFields DEF HostsAfter
    <2>3. r.list[q.id] # None => a \in SUBSET Hosts
      BY <1>2, <1>3, GatewayFields, ListEntryFields DEF HostsAfter
    <2>4. r.list[q.id].hosts = omap[q.id].hosts => a = b
      OBVIOUS
    <2> HIDE DEF a, b
    <2>5. Differs(new, omap, q.id, omap[q.id].ns, omap[q.id].qos, b)
      BY <1>2, <2>2, HostsSetIs
    <2>6. new \in Contents /\ KeepsImages(c, new) /\ \A d : AlikeBut(omap, new, d, q.id)
      <3>1. OwnEntry(c, q.id, omap[q.id].ns)
        BY DEF OwnEntry
      <3> QED
        BY <1>2, <2>5, <3>1, DiffersKeeps
    <2> HIDE DEF new
    <2>7. ASSUME Drifts(q, new), ~troubled[q.gw], ~Outdated(q)
          PROVE  Tracks(z, new, drift')
      <3>0. drift \subseteq drift'
        BY <2>7 DEF Drifts
      <3>1. Fresh(q, r, drift')
        BY SMTT(30), <1>1, <2>7, <3>0, FreshIs
      <3>2. omap[q.id].ns # None /\ q.found = omap[q.id].ns.inst /\ r.list[q.id] # None
        BY <1>1, <3>1 DEF Fresh, Refused
      <3>3. /\ new[q.id].ns = omap[q.id].ns /\ new[q.id].qos = omap[q.id].qos
            /\ "hosts" \notin drift' => new[q.id].hosts = a
        BY <2>4, <2>5, <3>1, <3>2 DEF Differs, Fresh
      <3>4. Tracks(r, omap, drift') /\ a \in SUBSET Hosts
        BY <2>3, <3>1, <3>2 DEF Fresh
      <3> HIDE DEF q, r
      <3> QED
        BY <1>2, <2>6, <3>2, <3>3, <3>4, TracksHosts
    <2> QED
      BY SMTT(30), <1>1, <2>1, <2>6, <2>7, EffectFollows
  <1> QED
    BY <1>4, <1>5 DEF ChangeHosts

LEMMA DeleteNamespaceFollows ==
    ASSUME BaseInv, SecondInv, NEW c \in Clients, DeleteNamespace(c)
    PROVE  SecondInv'
  <1> DEFINE q == req[c]
             r == gw[q.gw]
             y == AfterRemoveErr(r, q.id)
             z == Removed(r, q.id, q.found)
             new == WithoutNamespace(q.id)
  <1>1. q # None /\ ~Behind(q.gw) /\ q.ask.op = "delete"
    BY DEF DeleteNamespace, Locked
  <1>2. /\ q.ask \in Asks /\ q.gw \in Gateways /\ q.id \in Ids /\ r \in GatewayStates
        /\ omap \in Contents
    BY <1>1, RequestIs, CurrentIs
  <1>3. CASE /\ gw' = [gw EXCEPT ![q.gw] = y]
             /\ troubled' = [troubled EXCEPT ![q.gw] = TRUE]
             /\ UNCHANGED <<omapVars, local, update, images, budgetVars, drift>>
    BY <1>2, <1>3, TroubledFollows DEF omapVars
  <1>4. CASE Succeeds(c, z, new)
    <2>1. /\ new \in Contents /\ new[q.id].ns = None
          /\ \A j \in Ids : j # q.id =>
                /\ new[j].ns = omap[j].ns /\ new[j].hosts = omap[j].hosts
                /\ new[j].qos = omap[j].qos \/ new[j].qos = NoLimits
      BY <1>2, WithoutNamespaceIs, NoKeysAreKeys
    <2> HIDE DEF new
    <2>2. KeepsImages(c, new)
      BY <1>2, <2>1 DEF KeepsImages, Same
    <2>3. ASSUME Drifts(q, new), ~troubled[q.gw], ~Outdated(q)
          PROVE  Tracks(z, new, drift')
      <3>0. drift \subseteq drift' /\ Drifted(q, new) \subseteq drift'
        BY <2>3 DEF Drifts
      <3>1. Fresh(q, r, drift')
        BY <1>1, <2>3, <3>0, FreshIs
      <3>2. omap[q.id].ns # None /\ q.found = omap[q.id].ns.inst
        BY <1>1, <3>1 DEF Fresh, Refused
      <3>3. Alone(omap, q.id, q.found)
        BY <1>1, <1>2, <3>2, CurrentIs
      <3>4. ASSUME NEW j \in Ids, j # q.id, omap[j].ns # None, "qos" \notin drift'
            PROVE  new[j].qos = omap[j].qos
        <4>1. CASE new[j].qos = NoLimits
          <5>1. \A l \in Limits : omap[j].qos[l] = None \/ new[j].qos[l] # None
            BY <2>1, <3>0, <3>4 DEF Drifted
          <5>2. omap[j].qos \in Limited
            BY <1>2, KeyFields
          <5> QED
            BY <4>1, <5>1, <5>2 DEF NoLimits, Limited
        <4> QED
          BY <2>1, <3>4, <4>1
      <3>5. AlikeBut(omap, new, drift', q.id)
        BY <2>1, <3>4 DEF AlikeBut
      <3>6. Tracks(r, omap, drift')
        BY <3>1 DEF Fresh
      <3> HIDE DEF q, r
      <3> QED
        BY <1>2, <2>1, <3>2, <3>3, <3>5, <3>6, TracksRemoved
    <2> QED
      BY <1>1, <1>4, <2>1, <2>2, <2>3, SucceedsFollows DEF Succeeds
  <1>5. CASE Breaks(c, z)
    BY <1>1, <1>5, BreaksFollows
  <1> QED
    BY <1>3, <1>4, <1>5 DEF DeleteNamespace

\* so does a deletion cut short by the death of its gateway
LEMMA CrashInDeleteFollows ==
    ASSUME BaseInv, SecondInv, NEW c \in Clients, CrashInDelete(c)
    PROVE  SecondInv'
  <1> DEFINE q == req[c]
  <1>1. /\ q # None /\ omap' \in Unfinished(q.gw, q.id) /\ Restart(q.gw) /\ Drifts(q, omap')
    BY DEF CrashInDelete, Locked
  <1>2. q.gw \in Gateways /\ q.id \in Ids /\ omap \in Contents
    BY <1>1, RequestIs, BaseIsGood DEF CoreTypes
  <1>3. omap' \in Contents /\ \A i \in Ids : omap'[i].ns = None \/ omap'[i].ns = omap[i].ns
    BY <1>1, <1>2, UnfinishedIs
  <1>4. KeepsImages(c, omap')
    BY <1>3 DEF KeepsImages, Same
  <1>5. /\ drift \subseteq drift' /\ Clean(omap', drift')
        /\ \A st : Grown(st, omap, drift) /\ GoodContent(st, Places) => Grown(st, omap', drift')
    BY <1>1, <1>3, <1>4, WriteDrifts
  <1> QED
    BY <1>1, <1>2, <1>5, RestartFollows

\* and every step of a request
LEMMA RequestStepFollows ==
    ASSUME BaseInv, SecondInv, NEW c \in Clients,
           \/ Ask(c) \/ Check(c) \/ Retry(c)
           \/ AddNamespace(c) \/ DeleteNamespace(c) \/ CrashInDelete(c)
           \/ ChangeGroup(c) \/ ChangeVisibility(c) \/ ChangeTrash(c)
           \/ SetLimits(c) \/ AddHost(c) \/ DeleteHost(c)
    PROVE  SecondInv'
  <1>1. CASE Ask(c) \/ Check(c) \/ Retry(c)
    <2>1. UNCHANGED <<omap, local, gw, update, troubled, drift>>
      BY <1>1 DEF Ask, Check, Retry, omapVars, historyVars
    <2> QED
      BY SMTT(30), <2>1, RequestOnly
  <1>2. CASE AddNamespace(c) \/ DeleteNamespace(c) \/ CrashInDelete(c)
    BY <1>2, AddNamespaceFollows, DeleteNamespaceFollows, CrashInDeleteFollows
  <1>3. CASE ChangeGroup(c) \/ ChangeVisibility(c) \/ ChangeTrash(c) \/ SetLimits(c)
    BY <1>3, ChangeGroupFollows, ChangeVisibilityFollows, ChangeTrashFollows, SetLimitsFollows
  <1>4. CASE AddHost(c) \/ DeleteHost(c)
    BY <1>4, ChangeHostsFollows DEF AddHost, DeleteHost
  <1> QED
    BY <1>1, <1>2, <1>3, <1>4

(***************************************************************************)
(* The keys a gateway has come to, as an update goes on                    *)
(***************************************************************************)
LEMMA KeysNowFields ==
    ASSUME NEW u, NEW o, NEW i \in Ids
    PROVE  /\ KeysNow(u, o)[i].ns = NsNow(u, o, i)
           /\ KeysNow(u, o)[i].qos = QosNow(u, o, i)
           /\ KeysNow(u, o)[i].hosts = HostsNow(u, i)
  BY KeyedFields DEF KeysNow

\* a namespace that is there before and after, or has been added
LEMMA NsNowIsEntry ==
    ASSUME NEW u \in Updates, NEW o \in Contents, Planned(u, o), NEW i \in Ids,
           i \notin u.drop, i \notin u.add, u.st[i].ns # None
    PROVE  NsNow(u, o, i) \in Entries /\ NsNow(u, o, i) # None
  <1> DEFINE grp == IF i \in u.grp THEN o[i].ns.grp ELSE u.st[i].ns.grp
             vis == IF i \in u.vis THEN o[i].ns.vis ELSE u.st[i].ns.vis
             trash == IF i \in u.trash THEN o[i].ns.trash ELSE u.st[i].ns.trash
  <1>1. o[i] \in Keys /\ u.st[i] \in Keys
    BY UpdateFields, KeyFields
  <1>2. i \in u.grp \cup u.vis \cup u.trash => o[i].ns \in Entries
    BY <1>1, KeyFields DEF Planned, Same
  <1>3. u.st[i].ns \in Entries
    BY <1>1, UpdateFields, KeyFields
  <1>4. grp \in Groups /\ vis \in BOOLEAN /\ trash \in BOOLEAN /\ u.st[i].ns.inst \in Insts
    BY <1>2, <1>3, EntryFields
  <1>5. NsNow(u, o, i) = Placed(u.st[i].ns.inst, grp, vis, trash)
    BY DEF NsNow
  <1> HIDE DEF grp, vis, trash
  <1> QED
    BY <1>4, <1>5, PlacedFields, EntryFields

\* what update() has brought so far are keys
LEMMA KeysNowAreKeys ==
    ASSUME NEW u \in Updates, NEW o \in Contents, Planned(u, o)
    PROVE  KeysNow(u, o) \in Contents
  <1>1. ASSUME NEW i \in Ids
        PROVE  Keyed(NsNow(u, o, i), QosNow(u, o, i), HostsNow(u, i)) \in Keys
    <2>1. u.st \in Contents
      BY UpdateFields
    <2>2. /\ o[i].ns \in Entries \cup {None} /\ o[i].qos \in Limited
          /\ u.st[i].ns \in Entries \cup {None} /\ u.st[i].qos \in Limited
          /\ u.st[i].hosts \in SUBSET Hosts
      BY <2>1, KeyFields
    <2>3. NsNow(u, o, i) \in Entries \cup {None}
      <3>1. CASE i \in u.drop
        BY <2>2, <3>1 DEF NsNow
      <3>2. CASE i \notin u.drop /\ (i \in u.add \/ u.st[i].ns = None)
        BY <3>2 DEF NsNow
      <3>3. CASE i \notin u.drop /\ i \notin u.add /\ u.st[i].ns # None
        BY <3>3, NsNowIsEntry
      <3> QED
        BY <3>1, <3>2, <3>3
    <2>4. QosNow(u, o, i) \in Limited
      BY <2>2 DEF QosNow
    <2>5. HostsNow(u, i) \in SUBSET Hosts
      BY <2>2 DEF HostsNow, HostsOfPairs
    <2> QED
      BY <2>3, <2>4, <2>5, KeyedFields
  <1> QED
    BY <1>1 DEF KeysNow, Contents

\* v has done the same for the namespaces but i
AlikeElse(u, v, i) ==
    /\ v.st = u.st
    /\ \A j \in Ids : j # i =>
          /\ (j \in v.drop <=> j \in u.drop) /\ (j \in v.add <=> j \in u.add)
          /\ (j \in v.qos <=> j \in u.qos) /\ (j \in v.grp <=> j \in u.grp)
          /\ (j \in v.vis <=> j \in u.vis) /\ (j \in v.trash <=> j \in u.trash)
          /\ HostsOfPairs(v.delhost, j) = HostsOfPairs(u.delhost, j)
          /\ HostsOfPairs(v.addhost, j) = HostsOfPairs(u.addhost, j)

\* plans that differ at one ID say the same of every other one
LEMMA KeysNowAlike ==
    ASSUME NEW u, NEW v, NEW o, NEW i, AlikeElse(u, v, i), NEW d
    PROVE  AlikeBut(KeysNow(u, o), KeysNow(v, o), d, i)
  <1>1. ASSUME NEW j \in Ids, j # i
        PROVE  /\ NsNow(v, o, j) = NsNow(u, o, j) /\ QosNow(v, o, j) = QosNow(u, o, j)
               /\ HostsNow(v, j) = HostsNow(u, j)
    <2>1. NsNow(v, o, j) = NsNow(u, o, j)
      BY <1>1 DEF AlikeElse, NsNow
    <2>2. QosNow(v, o, j) = QosNow(u, o, j)
      BY <1>1 DEF AlikeElse, QosNow
    <2>3. HostsNow(v, j) = HostsNow(u, j)
      BY <1>1 DEF AlikeElse, HostsNow
    <2> QED
      BY <2>1, <2>2, <2>3
  <1> QED
    BY <1>1, KeysNowFields DEF AlikeBut

\* the order in which an update's sets become empty
Ordered(v, u) ==
    /\ v.drop # {} => v.add = u.add
    /\ v.add # {} => v.qos = u.qos /\ v.addhost = u.addhost
    /\ v.delhost # {} => /\ v.drop = u.drop /\ v.add = u.add /\ v.grp = u.grp
                         /\ v.vis = u.vis /\ v.trash = u.trash

\* a plan that was whole stays whole as its calls are made in order
LEMMA WholeStays ==
    ASSUME NEW u, NEW v, NEW o, Whole(u, o), Less(v, u), Ordered(v, u)
    PROVE  Whole(v, o)
  <1> SUFFICES ASSUME NEW i \in Ids
               PROVE  WholeAt(v, o, i)
    BY DEF Whole
  <1>1. WholeAt(u, o, i)
    BY DEF Whole
  <1>2. i \in v.drop /\ v.st[i].ns # None => i \in v.add
    BY <1>1 DEF WholeAt, Less, Ordered
  <1>3. i \in v.add =>
          /\ o[i].ns # None => v.st[i].qos = NoLimits /\ v.st[i].hosts = {}
          /\ v.st[i].qos = NoLimits \/ v.st[i].qos = o[i].qos \/ i \in v.qos
          /\ v.st[i].hosts \subseteq o[i].hosts \cup HostsOfPairs(v.addhost, i)
    BY <1>1 DEF WholeAt, Less, Ordered
  <1>4. /\ i \in v.qos => o[i].ns = None \/ v.st[i].ns = None \/ Same(o[i], v.st[i])
        /\ i \in v.vis => v.st[i].ns.vis \/ v.st[i].hosts = {}
    BY <1>1 DEF WholeAt, Less
  <1>5. ASSUME v.delhost # {}, o[i].ns # None
        PROVE  NsNow(v, o, i) = o[i].ns
    <2>1. u.delhost # {}
      BY <1>5 DEF Less
    <2>2. NsNow(v, o, i) = NsNow(u, o, i)
      BY <1>5 DEF Less, Ordered, NsNow
    <2> QED
      BY <1>1, <1>5, <2>1, <2>2 DEF WholeAt
  <1> QED
    BY <1>2, <1>3, <1>4, <1>5 DEF WholeAt

\* what is done when a call of update() is made
Done(u, n) ==
    /\ n > 1 => u.delhost = {}
    /\ n > 2 => u.drop = {}
    /\ n > 3 => u.add = {}
    /\ n > 4 => u.qos = {}
    /\ n > 5 => u.addhost = {}
    /\ n > 6 => u.grp = {}
    /\ n > 7 => u.vis = {}
    /\ n > 8 => u.trash = {}

LEMMA ReachedIs ==
    ASSUME NEW g, NEW n \in 1..9, Reached(g, n)
    PROVE  update[g] # None /\ Done(update[g], n)
  <1>1. \A k \in 1..(n - 1) : update[g][Kinds[k]] = {}
    BY DEF Reached
  <1>2. /\ Kinds[1] = "delhost" /\ Kinds[2] = "drop" /\ Kinds[3] = "add" /\ Kinds[4] = "qos"
        /\ Kinds[5] = "addhost" /\ Kinds[6] = "grp" /\ Kinds[7] = "vis" /\ Kinds[8] = "trash"
    BY DEF Kinds
  <1>3. n > 1 => update[g].delhost = {}
    BY <1>1, <1>2
  <1>4. n > 2 => update[g].drop = {}
    BY <1>1, <1>2
  <1>5. n > 3 => update[g].add = {}
    BY <1>1, <1>2
  <1>6. n > 4 => update[g].qos = {}
    BY <1>1, <1>2
  <1>7. n > 5 => update[g].addhost = {}
    BY <1>1, <1>2
  <1>8. n > 6 => update[g].grp = {}
    BY <1>1, <1>2
  <1>9. n > 7 => update[g].vis = {}
    BY <1>1, <1>2
  <1>10. n > 8 => update[g].trash = {}
    BY <1>1, <1>2
  <1> QED
    BY <1>3, <1>4, <1>5, <1>6, <1>7, <1>8, <1>9, <1>10 DEF Done, Reached

\* what is known of an update u of the content o under way at a gateway r
UnderWay(u, o, r, d) ==
    /\ u \in Updates /\ u.st \in Contents /\ o \in Contents /\ r \in GatewayStates
    /\ Planned(u, o) /\ KeysNow(u, o) \in Contents
    /\ Clean(o, d) /\ Clean(u.st, d) /\ Grown(o, u.st, d)
    /\ \A i \in Ids : \A n : KeysNow(u, o)[i].ns # None /\ n = KeysNow(u, o)[i].ns.inst
                            => Alone(KeysNow(u, o), i, n)
    /\ \A i \in Ids : u.st[i].ns # None => Alone(KeysNow(u, o), i, u.st[i].ns.inst)
    /\ \A i \in Ids : r.spdk[i] # None => r.bdev[r.spdk[i].inst] # None
InStep(u, o, r, d) == Whole(u, o) /\ Tracks(r, KeysNow(u, o), d)

\* what is known of an update() under way at a gateway without trouble
LEMMA UnderWayIs ==
    ASSUME BaseInv, SecondInv, NEW g \in Gateways, update[g] # None
    PROVE  /\ UnderWay(update[g], local[g].st, gw[g], drift)
           /\ ~troubled[g] => InStep(update[g], local[g].st, gw[g], drift)
  <1> DEFINE u == update[g]
             o == local[g].st
             K == KeysNow(u, o)
  <1>1. /\ u \in Updates /\ u.st \in Contents /\ o \in Contents /\ gw[g] \in GatewayStates
    BY BaseIsGood, LocalFields
  <1>2. /\ GoodContent(o, Places) /\ GoodContent(u.st, Places)
    BY BaseIsGood DEF GoodCore, GoodState
  <1>3. Planned(u, o)
    BY DEF BaseInv, PlannedInv
  <1>4. K \in Contents
    BY <1>1, <1>3, KeysNowAreKeys
  <1>5. Clean(o, drift) /\ Clean(u.st, drift) /\ Grown(o, u.st, drift)
    BY DEF SecondInv, DriftInv
  <1>6. \A i \in Ids : gw[g].spdk[i] # None => gw[g].bdev[gw[g].spdk[i].inst] # None
    BY DEF BaseInv, AllServed, ServedAsListed
  <1>7. ~troubled[g] => Whole(u, o) /\ Tracks(gw[g], K, drift)
    BY DEF SecondInv, WholeInv, FollowInv, Now
  <1>8. ASSUME NEW i \in Ids, NEW st \in Contents, GoodContent(st, Places), st[i].ns # None
        PROVE  st[i].ns.inst \in Insts /\ i \in Places[st[i].ns.inst]
    BY <1>8, InstsOf DEF GoodContent, Is
  <1>9. ASSUME NEW i \in Ids, K[i].ns # None
        PROVE  K[i].ns.inst \in Insts /\ i \in Places[K[i].ns.inst]
    <2>1. K[i].ns = NsNow(u, o, i)
      BY KeysNowFields
    <2> HIDE DEF K
    <2>2. CASE i \in u.drop
      BY <1>1, <1>2, <1>8, <1>9, <2>1, <2>2 DEF NsNow
    <2>3. CASE i \notin u.drop
      <3>1. u.st[i].ns # None /\ K[i].ns.inst = u.st[i].ns.inst
        BY <1>9, <2>1, <2>3 DEF NsNow, Placed
      <3> QED
        BY <1>1, <1>2, <1>8, <3>1
    <2> QED
      BY <2>2, <2>3
  <1> HIDE DEF K, u, o
  <1>10. ASSUME NEW i \in Ids, NEW n \in Insts, i \in Places[n]
         PROVE  Alone(K, i, n)
    BY <1>9, <1>10 DEF Alone, BaseInv, OwnInv, Sole
  <1>11. \A i \in Ids : u.st[i].ns # None => Alone(K, i, u.st[i].ns.inst)
    BY <1>1, <1>2, <1>8, <1>10
  <1>12. \A i \in Ids : \A n : K[i].ns # None /\ n = K[i].ns.inst => Alone(K, i, n)
    BY <1>9, <1>10
  <1>13. UnderWay(u, o, gw[g], drift)
    BY <1>1, <1>3, <1>4, <1>5, <1>6, <1>11, <1>12 DEF UnderWay, K
  <1>14. ~troubled[g] => InStep(u, o, gw[g], drift)
    BY <1>7 DEF InStep, K
  <1> QED
    BY <1>13, <1>14 DEF u, o

\* a call that leaves v to do and the gateway r
LEMMA CallFollows ==
    ASSUME BaseInv, SecondInv, NEW g \in Gateways, update[g] # None, NEW r, NEW v,
           Less(v, update[g]), Ordered(v, update[g]), Does(g, r),
           update' = [update EXCEPT ![g] = v],
           ~troubled[g] => Tracks(r, KeysNow(v, local[g].st), drift)
    PROVE  SecondInv'
  <1>1. /\ gw \in [Gateways -> GatewayStates] /\ update \in [Gateways -> Updates \cup {None}]
    BY DEF BaseInv, EntryTypeOK
  <1>2. gw' = [gw EXCEPT ![g] = r] /\ UNCHANGED <<omap, local, troubled, drift>>
    BY DEF Does, omapVars, historyVars
  <1>3. v # None /\ v.st = update[g].st
    BY UpdateNone DEF Less
  <1>4. /\ gw'[g] = r /\ update'[g] = v /\ local'[g] = local[g]
        /\ \A h \in Gateways : h # g => Untouched(h)
    BY <1>1, <1>2 DEF Untouched
  <1>5. Now(g)' = KeysNow(v, local[g].st)
    BY <1>3, <1>4 DEF Now
  <1>6. ~troubled[g] => Whole(v, local[g].st)
    BY UnderWayIs, WholeStays DEF InStep
  <1>7. FollowInv' /\ WholeInv'
    BY <1>2, <1>4, <1>5, <1>6, FollowFrame
  <1>8. \A h \in Gateways : update'[h] # None => update[h] # None /\ update'[h].st = update[h].st
    BY <1>3, <1>4 DEF Untouched
  <1>9. DriftInv'
    BY <1>2, <1>8, DriftFrame
  <1> QED
    BY <1>7, <1>9 DEF SecondInv

(***************************************************************************)
(* The calls of update(), as far as the second invariant goes              *)
(***************************************************************************)
LEMMA UpdateDeleteHostFollows ==
    ASSUME BaseInv, SecondInv, NEW g \in Gateways, UpdateDeleteHost(g)
    PROVE  SecondInv'
  <1>0. CASE Abort(g)
    BY <1>0, EndsFollow
  <1> SUFFICES ASSUME ~Abort(g)
               PROVE  SecondInv'
    BY <1>0
  <1> PICK p \in update[g].delhost :
         UpdateHost(g, p[1], [op |-> "delhost", host |-> p[2]],
                    [update[g] EXCEPT !.delhost = @ \ {p}])
    BY DEF UpdateDeleteHost
  <1> DEFINE i == p[1]
             h == p[2]
             r == gw[g]
             u == update[g]
             o == local[g].st
             v == [u EXCEPT !.delhost = @ \ {p}]
             x == SetHosts(r, i, FoundNow(r, i), r.list[i].hosts \ {h})
             no == Refused(r, i, [op |-> "delhost", host |-> h])
             r2 == IF no THEN r ELSE x
             K == KeysNow(u, o)
             L == KeysNow(v, o)
  <1>1. update[g] # None
    BY ReachedIs DEF UpdateDeleteHost
  <1>2. UnderWay(u, o, r, drift)
    BY <1>1, UnderWayIs
  <1>3. u \in Updates /\ o \in Contents
    BY <1>2 DEF UnderWay
  <1>4. p \in u.delhost /\ i \in Ids /\ h \in Hosts /\ p = <<i, h>>
    BY <1>3, UpdateFields
  <1>5. /\ Less(v, u) /\ v.delhost = u.delhost \ {p}
        /\ v.drop = u.drop /\ v.add = u.add /\ v.qos = u.qos /\ v.grp = u.grp /\ v.vis = u.vis
        /\ v.trash = u.trash /\ v.addhost = u.addhost
    BY <1>3, Less_delhost
  <1>6. Does(g, r2) /\ update' = [update EXCEPT ![g] = v]
    BY DEF UpdateHost, HostsAfter
  <1> HIDE DEF v, r2, u, o, r, i, h
  <1>7. Ordered(v, u)
    BY <1>5 DEF Ordered
  <1>8. ASSUME ~troubled[g]
        PROVE  Tracks(r2, L, drift)
    <2>1. InStep(u, o, r, drift)
      BY <1>1, <1>8, UnderWayIs DEF u, o, r
    <2>2. L \in Contents /\ K \in Contents
      <3>1. Planned(v, o)
        BY <1>2, <1>5 DEF UnderWay, Planned, Less
      <3> QED
        BY <1>2, <1>3, <1>5, <3>1, KeysNowAreKeys DEF Less, UnderWay
    <2>3. AlikeBut(K, L, drift, i)
      <3>1. AlikeElse(u, v, i)
        BY <1>4, <1>5 DEF AlikeElse, Less, HostsOfPairs
      <3> QED
        BY <3>1, KeysNowAlike
    <2>4. h \in o[i].hosts /\ h \notin u.st[i].hosts /\ p \notin u.addhost
      BY <1>2, <1>4 DEF UnderWay, Planned
    <2>5. /\ L[i].ns = K[i].ns /\ L[i].qos = K[i].qos
          /\ L[i].hosts = K[i].hosts \ {h} /\ h \in K[i].hosts
      <3>1. NsNow(v, o, i) = NsNow(u, o, i) /\ QosNow(v, o, i) = QosNow(u, o, i)
        BY <1>5 DEF NsNow, QosNow, Less
      <3>2. v.st = u.st
        BY <1>5 DEF Less
      <3>3. HostsOfPairs(v.delhost, i) = HostsOfPairs(u.delhost, i) \ {h}
            /\ h \in HostsOfPairs(u.delhost, i)
            /\ h \notin HostsOfPairs(u.addhost, i)
        BY <1>4, <1>5, <2>4 DEF HostsOfPairs
      <3>4. HostsNow(v, i) = HostsNow(u, i) \ {h} /\ h \in HostsNow(u, i)
        BY <1>5, <2>4, <3>2, <3>3 DEF HostsNow
      <3> QED
        BY <1>4, <3>1, <3>4, KeysNowFields
    <2>6. Tracks(r, K, drift) /\ Agrees(r, i, K[i], drift) /\ K[i] \in Keys
      BY <1>4, <2>1, <2>2, KeyFields DEF InStep, Tracks
    <2>7. CASE K[i].ns = None
      <3>1. Tracks(r, L, drift)
        BY <2>3, <2>5, <2>6, <2>7, TracksSame DEF AlikeBut
      <3>2. no
        BY <2>6, <2>7 DEF Agrees, Refused
      <3> QED
        BY <3>1, <3>2 DEF r2
    <2>8. CASE K[i].ns # None /\ no
      <3>1. "hosts" \in drift
        <4> SUFFICES ASSUME "hosts" \notin drift PROVE FALSE
          OBVIOUS
        <4>1. CleanHosts(o[i])
          BY <1>2, <1>4 DEF UnderWay, Clean
        <4>2. o[i].ns # None /\ ~o[i].ns.vis
          BY <2>4, <4>1 DEF CleanHosts
        <4>3. K[i].ns = o[i].ns
          BY <1>4, <2>1, <4>2, KeysNowFields DEF InStep, Whole, WholeAt
        <4>4. /\ r.list[i] # None /\ ~r.list[i].vis /\ r.list[i].hosts = K[i].hosts
          BY <1>2, <1>4, <2>6, <2>8, <4>2, <4>3, AgreesFields DEF UnderWay
        <4> QED
          BY <2>5, <2>8, <4>4 DEF Refused
      <3>2. Tracks(r, L, drift)
        BY <2>3, <2>5, <2>6, <3>1, TracksSame DEF AlikeBut
      <3> QED
        BY <2>8, <3>2 DEF r2
    <2>9. CASE K[i].ns # None /\ ~no
      <3>1. /\ FoundNow(r, i) = K[i].ns.inst /\ r.list[i].hosts \in SUBSET Hosts
            /\ "hosts" \notin drift => r.list[i].hosts = K[i].hosts
            /\ r \in GatewayStates
        BY <1>2, <1>4, <2>6, <2>9, AgreesFields DEF UnderWay
      <3> DEFINE hosts == r.list[i].hosts \ {h}
      <3>2. hosts \in SUBSET Hosts /\ ("hosts" \notin drift => L[i].hosts = hosts)
        BY <2>5, <3>1
      <3> HIDE DEF hosts, K, L
      <3>3. Tracks(SetHosts(r, i, FoundNow(r, i), hosts), L, drift)
        BY <1>4, <2>2, <2>3, <2>5, <2>6, <2>9, <3>1, <3>2, TracksHosts
      <3> QED
        BY <2>9, <3>3 DEF r2, hosts
    <2> QED
      BY <2>7, <2>8, <2>9
  <1> QED
    BY <1>1, <1>5, <1>6, <1>7, <1>8, CallFollows DEF u, o

\* A call about namespace i leaves v to do of u: the keys before and after it.
Step(u, v, o, r, d, i) ==
    /\ KeysNow(u, o) \in Contents /\ KeysNow(v, o) \in Contents
    /\ AlikeBut(KeysNow(u, o), KeysNow(v, o), d, i)
    /\ Tracks(r, KeysNow(u, o), d) /\ Agrees(r, i, KeysNow(u, o)[i], d)
    /\ KeysNow(u, o)[i] \in Keys /\ r \in GatewayStates
    /\ KeysNow(u, o)[i].ns = NsNow(u, o, i) /\ KeysNow(v, o)[i].ns = NsNow(v, o, i)
    /\ KeysNow(u, o)[i].qos = QosNow(u, o, i) /\ KeysNow(v, o)[i].qos = QosNow(v, o, i)
    /\ KeysNow(u, o)[i].hosts = HostsNow(u, i) /\ KeysNow(v, o)[i].hosts = HostsNow(v, i)
    /\ WholeAt(u, o, i) /\ v.st = u.st

\* a call of update() that brings the gateway to the next keys keeps the invariant
LEMMA StepIs ==
    ASSUME NEW u, NEW v, NEW o, NEW r, NEW d, NEW i \in Ids,
           UnderWay(u, o, r, d), InStep(u, o, r, d), Less(v, u), AlikeElse(u, v, i)
    PROVE  Step(u, v, o, r, d, i)
  <1>1. KeysNow(u, o) \in Contents /\ KeysNow(v, o) \in Contents
    <2>1. Planned(v, o)
      BY DEF UnderWay, Planned, Less
    <2> QED
      BY <2>1, KeysNowAreKeys DEF UnderWay, Less
  <1>2. AlikeBut(KeysNow(u, o), KeysNow(v, o), d, i)
    BY KeysNowAlike
  <1>3. Tracks(r, KeysNow(u, o), d) /\ Agrees(r, i, KeysNow(u, o)[i], d) /\ WholeAt(u, o, i)
    BY DEF InStep, Tracks, Whole
  <1> QED
    BY <1>1, <1>2, <1>3, KeysNowFields, KeyFields DEF Step, Less, UnderWay

\* each of update()'s calls brings the gateway to the next keys
LEMMA UpdateDeleteFollows ==
    ASSUME BaseInv, SecondInv, NEW g \in Gateways, UpdateDelete(g)
    PROVE  SecondInv'
  <1> PICK i \in update[g].drop :
         LET r == gw[g]
         IN  /\ update' = [update EXCEPT ![g].drop = @ \ {i}]
             /\ Does(g, IF r.list[i] = None THEN r
                        ELSE IF RemoveErrs(r, i) THEN AfterRemoveErr(r, i)
                        ELSE Removed(r, i, r.list[i].inst))
    BY DEF UpdateDelete
  <1> DEFINE r == gw[g]
             u == update[g]
             o == local[g].st
             v == [u EXCEPT !.drop = @ \ {i}]
             r2 == IF r.list[i] = None THEN r
                   ELSE IF RemoveErrs(r, i) THEN AfterRemoveErr(r, i)
                   ELSE Removed(r, i, r.list[i].inst)
             K == KeysNow(u, o)
             L == KeysNow(v, o)
  <1>1. update[g] # None /\ Done(u, 2)
    BY ReachedIs DEF UpdateDelete
  <1>2. UnderWay(u, o, r, drift)
    BY <1>1, UnderWayIs
  <1>3. u \in Updates /\ i \in u.drop /\ i \in Ids
    BY <1>2, UpdateFields DEF UnderWay
  <1>4. /\ Less(v, u) /\ v.drop = u.drop \ {i}
        /\ v.add = u.add /\ v.qos = u.qos /\ v.grp = u.grp /\ v.vis = u.vis
        /\ v.trash = u.trash /\ v.delhost = u.delhost /\ v.addhost = u.addhost
    BY <1>3, Less_drop
  <1>5. Does(g, r2) /\ update' = [update EXCEPT ![g] = v]
    OBVIOUS
  <1> HIDE DEF v, r2, u, o, r
  <1>6. Ordered(v, u)
    BY <1>1, <1>4 DEF Ordered, Done
  <1>7. ASSUME ~troubled[g]
        PROVE  Tracks(r2, L, drift)
    <2>1. InStep(u, o, r, drift)
      BY <1>1, <1>7, UnderWayIs DEF u, o, r
    <2>2. Step(u, v, o, r, drift, i)
      <3>1. AlikeElse(u, v, i)
        BY <1>4 DEF AlikeElse, Less
      <3> QED
        BY <1>2, <1>3, <1>4, <2>1, <3>1, StepIs
    <2>3. K[i].ns # None /\ L[i].ns = None
      BY <1>2, <1>3, <1>4, <2>2 DEF Step, NsNow, WholeAt, UnderWay, Planned
    <2>4. /\ r.list[i] # None /\ r.list[i].inst = K[i].ns.inst /\ ~RemoveErrs(r, i)
      BY <1>3, <2>2, <2>3, AgreesFields DEF Step
    <2>5. Alone(K, i, K[i].ns.inst)
      BY <1>2, <1>3, <2>3 DEF UnderWay
    <2>6. Tracks(Removed(r, i, r.list[i].inst), L, drift)
      BY <1>3, <2>2, <2>3, <2>4, <2>5, TracksRemoved DEF Step
    <2> QED
      BY <2>4, <2>6 DEF r2
  <1> QED
    BY <1>1, <1>4, <1>5, <1>6, <1>7, CallFollows DEF u, o

LEMMA UpdateAddFollows ==
    ASSUME BaseInv, SecondInv, NEW g \in Gateways, UpdateAdd(g)
    PROVE  SecondInv'
  <1> PICK i \in update[g].add :
         LET r == gw[g]
         IN  /\ update' = [update EXCEPT ![g].add = @ \ {i}]
             /\ Does(g, IF r.spdk[i] # None THEN [r EXCEPT !.list[i] = None]
                        ELSE Serve(r, i, update[g].st[i].ns))
    BY DEF UpdateAdd
  <1> DEFINE r == gw[g]
             u == update[g]
             o == local[g].st
             v == [u EXCEPT !.add = @ \ {i}]
             e == u.st[i].ns
             x == [r EXCEPT !.list[i] = None]
             r2 == IF r.spdk[i] # None THEN x ELSE Serve(r, i, e)
             K == KeysNow(u, o)
             L == KeysNow(v, o)
  <1>1. update[g] # None /\ Done(u, 3)
    BY ReachedIs DEF UpdateAdd
  <1>2. UnderWay(u, o, r, drift)
    BY <1>1, UnderWayIs
  <1>3. u \in Updates /\ i \in u.add /\ i \in Ids
    BY <1>2, UpdateFields DEF UnderWay
  <1>4. /\ Less(v, u) /\ v.add = u.add \ {i}
        /\ v.drop = u.drop /\ v.qos = u.qos /\ v.grp = u.grp /\ v.vis = u.vis
        /\ v.trash = u.trash /\ v.delhost = u.delhost /\ v.addhost = u.addhost
    BY SMTT(30), <1>3, Less_add
  <1>5. Does(g, r2) /\ update' = [update EXCEPT ![g] = v]
    OBVIOUS
  <1>6. /\ e # None /\ e \in Entries /\ Alone(K, i, e.inst) /\ ~Same(o[i], u.st[i])
        /\ u.st[i].hosts \in SUBSET Hosts
    BY <1>2, <1>3, KeyFields DEF UnderWay, Planned
  <1> HIDE DEF v, r2, u, o, r, x
  <1>7. Ordered(v, u)
    BY <1>1, <1>4 DEF Ordered, Done
  <1>8. ASSUME ~troubled[g]
        PROVE  Tracks(r2, L, drift)
    <2>1. InStep(u, o, r, drift)
      BY <1>1, <1>8, UnderWayIs DEF u, o, r
    <2>2. Step(u, v, o, r, drift, i)
      <3>1. AlikeElse(u, v, i)
        BY <1>4 DEF AlikeElse, Less
      <3> QED
        BY <1>2, <1>3, <1>4, <2>1, <3>1, StepIs
    <2>3. i \notin u.drop /\ u.delhost = {} /\ i \notin u.grp \cup u.vis \cup u.trash
      BY <1>1, <1>2, <1>3, <1>6 DEF Done, UnderWay, Planned
    <2>4. K[i].ns = None
      BY <1>3, <2>2, <2>3 DEF Step, NsNow
    <2>5. L[i].ns = e
      <3>1. v.st[i].ns = e /\ i \notin v.drop /\ i \notin v.add
        BY <1>4, <2>2, <2>3 DEF Step
      <3>2. NsNow(v, o, i) = Placed(e.inst, e.grp, e.vis, e.trash)
        BY <1>4, <1>6, <2>3, <3>1 DEF NsNow
      <3> QED
        BY <1>6, <2>2, <3>2, EntryWith DEF Step
    <2>6. CleanHosts(o[i]) \/ "hosts" \in drift
      BY <1>2, <1>3 DEF UnderWay, Clean
    <2>7. CleanQos(o[i]) \/ "qos" \in drift
      BY <1>2, <1>3 DEF UnderWay, Clean
    <2>8. "hosts" \notin drift => L[i].hosts = {}
      <3> HAVE "hosts" \notin drift
      <3>1. u.st[i].hosts \subseteq HostsOfPairs(u.addhost, i)
        BY <1>3, <2>2, <2>6 DEF Step, WholeAt, CleanHosts
      <3>2. HostsOfPairs(v.delhost, i) = {} /\ HostsOfPairs(v.addhost, i) = HostsOfPairs(u.addhost, i)
        BY <1>4, <2>3 DEF HostsOfPairs
      <3> QED
        BY <2>2, <3>1, <3>2 DEF Step, HostsNow
    <2>9. "qos" \notin drift => L[i].qos = NoLimits
      <3> HAVE "qos" \notin drift
      <3>1. i \in u.qos => u.st[i].qos # NoLimits
        BY <1>2, <1>3 DEF UnderWay, Planned
      <3>2. CASE o[i].ns # None
        BY <1>3, <1>4, <2>2, <2>3, <3>1, <3>2 DEF Step, WholeAt, QosNow
      <3>3. CASE o[i].ns = None
        <4>1. o[i].qos = NoLimits
          BY <2>7, <3>3 DEF CleanQos
        <4> QED
          BY <1>3, <1>4, <2>2, <2>3, <4>1 DEF Step, WholeAt, QosNow
      <3> QED
        BY <3>2, <3>3
    <2>10. r.spdk[i] = None
      BY <2>2, <2>4 DEF Step, Agrees
    <2> HIDE DEF e, K, L
    <2>11. Tracks(Serve(r, i, e), L, drift)
      BY <1>3, <1>6, <2>2, <2>4, <2>5, <2>8, <2>9, TracksServe DEF Step, K, L
    <2> QED
      BY <2>10, <2>11 DEF r2
  <1> QED
    BY <1>1, <1>4, <1>5, <1>7, <1>8, CallFollows DEF u, o

LEMMA UpdateLimitsFollows ==
    ASSUME BaseInv, SecondInv, NEW g \in Gateways, UpdateLimits(g)
    PROVE  SecondInv'
  <1> PICK i \in update[g].qos :
         LET r == gw[g]
         IN  /\ update' = [update EXCEPT ![g].qos = @ \ {i}]
             /\ Does(g, IF r.list[i] = None \/ r.bdev[r.list[i].inst] = None THEN r
                        ELSE Limit(r, r.list[i].inst, update[g].st[i].qos))
    BY DEF UpdateLimits
  <1> DEFINE r == gw[g]
             u == update[g]
             o == local[g].st
             v == [u EXCEPT !.qos = @ \ {i}]
             limits == u.st[i].qos
             r2 == IF r.list[i] = None \/ r.bdev[r.list[i].inst] = None THEN r
                   ELSE Limit(r, r.list[i].inst, limits)
             K == KeysNow(u, o)
             L == KeysNow(v, o)
  <1>1. update[g] # None /\ Done(u, 4)
    BY ReachedIs DEF UpdateLimits
  <1>2. UnderWay(u, o, r, drift)
    BY <1>1, UnderWayIs
  <1>3. u \in Updates /\ i \in u.qos /\ i \in Ids
    BY <1>2, UpdateFields DEF UnderWay
  <1>4. /\ Less(v, u) /\ v.qos = u.qos \ {i}
        /\ v.drop = u.drop /\ v.add = u.add /\ v.grp = u.grp /\ v.vis = u.vis
        /\ v.trash = u.trash /\ v.delhost = u.delhost /\ v.addhost = u.addhost
    BY <1>3, Less_qos
  <1>5. Does(g, r2) /\ update' = [update EXCEPT ![g] = v]
    OBVIOUS
  <1>6. limits \in Limited /\ o[i].qos \in Limited
    BY <1>2, <1>3, KeyFields DEF UnderWay
  <1> HIDE DEF v, r2, u, o, r
  <1>7. Ordered(v, u)
    BY <1>1, <1>4 DEF Ordered, Done
  <1>8. ASSUME ~troubled[g]
        PROVE  Tracks(r2, L, drift)
    <2>1. InStep(u, o, r, drift)
      BY <1>1, <1>8, UnderWayIs DEF u, o, r
    <2>2. Step(u, v, o, r, drift, i)
      <3>1. AlikeElse(u, v, i)
        BY <1>4 DEF AlikeElse, Less
      <3> QED
        BY <1>2, <1>3, <1>4, <2>1, <3>1, StepIs
    <2>3. i \notin u.drop /\ i \notin u.add
      BY <1>1 DEF Done
    <2>4. L[i].ns = K[i].ns /\ L[i].hosts = K[i].hosts
      BY <1>4, <2>2 DEF Step, NsNow, HostsNow
    <2>5. K[i].qos = o[i].qos /\ L[i].qos = limits
      BY <1>3, <1>4, <2>2, <2>3 DEF Step, QosNow
    <2>6. CASE K[i].ns = None
      <3>1. Tracks(r, L, drift)
        BY <2>2, <2>4, <2>6, TracksSame DEF Step, AlikeBut
      <3>2. r.list[i] = None
        BY <2>2, <2>6 DEF Step, Agrees
      <3> QED
        BY <3>1, <3>2 DEF r2
    <2>7. CASE K[i].ns # None
      <3>1. r.list[i] # None /\ r.list[i].inst = K[i].ns.inst
        BY <1>3, <2>2, <2>7, AgreesFields DEF Step
      <3>2. Alone(K, i, r.list[i].inst) /\ r.bdev[r.list[i].inst] # None
        <4>1. r.spdk[i] # None /\ r.spdk[i].inst = K[i].ns.inst
          BY <1>3, <2>2, <2>7, AgreesFields DEF Step
        <4> QED
          BY <1>2, <1>3, <2>7, <3>1, <4>1 DEF UnderWay
      <3>3. "qos" \notin drift => \A l \in Limits : limits[l] = None => o[i].qos[l] = None
        <4> HAVE "qos" \notin drift
        <4>1. CASE o[i].ns = None
          <5>1. o[i].qos = NoLimits
            BY <1>2, <1>3, <4>1 DEF UnderWay, Clean, CleanQos
          <5> QED
            BY <5>1 DEF NoLimits
        <4>2. CASE o[i].ns # None
          <5>1. u.st[i].ns # None
            BY <2>2, <2>3, <2>7 DEF Step, NsNow
          <5>2. Same(o[i], u.st[i])
            BY <1>3, <2>2, <4>2, <5>1 DEF Step, WholeAt
          <5> QED
            BY <1>2, <1>3, <5>2 DEF UnderWay, Grown, Grows
        <4> QED
          BY <4>1, <4>2
      <3>4. "qos" \notin drift => L[i].qos = Merged(limits, K[i].qos)
        <4> HAVE "qos" \notin drift
        <4> HIDE DEF limits
        <4>1. Merged(limits, o[i].qos) = limits
          BY <1>6, <3>3 DEF Merged, Limited
        <4> QED
          BY <2>5, <4>1
      <3> HIDE DEF limits, K, L
      <3>5. Tracks(Limit(r, r.list[i].inst, limits), L, drift)
        BY <1>3, <1>6, <2>2, <2>4, <2>7, <3>1, <3>2, <3>4, TracksLimit DEF Step, K, L
      <3> QED
        BY <3>1, <3>2, <3>5 DEF r2
    <2> QED
      BY <2>6, <2>7
  <1> QED
    BY <1>1, <1>4, <1>5, <1>7, <1>8, CallFollows DEF u, o

LEMMA UpdateAddHostFollows ==
    ASSUME BaseInv, SecondInv, NEW g \in Gateways, UpdateAddHost(g)
    PROVE  SecondInv'
  <1>0. CASE Abort(g)
    BY <1>0, EndsFollow
  <1> SUFFICES ASSUME ~Abort(g)
               PROVE  SecondInv'
    BY <1>0
  <1> PICK p \in update[g].addhost :
         UpdateHost(g, p[1], [op |-> "addhost", host |-> p[2]],
                    [update[g] EXCEPT !.addhost = @ \ {p}])
    BY DEF UpdateAddHost
  <1> DEFINE i == p[1]
             h == p[2]
             r == gw[g]
             u == update[g]
             o == local[g].st
             v == [u EXCEPT !.addhost = @ \ {p}]
             x == SetHosts(r, i, FoundNow(r, i), r.list[i].hosts \cup {h})
             no == Refused(r, i, [op |-> "addhost", host |-> h])
             r2 == IF no THEN r ELSE x
             K == KeysNow(u, o)
             L == KeysNow(v, o)
  <1>1. update[g] # None /\ Done(u, 5)
    BY ReachedIs DEF UpdateAddHost
  <1>2. UnderWay(u, o, r, drift)
    BY <1>1, UnderWayIs
  <1>3. u \in Updates
    BY <1>2 DEF UnderWay
  <1>4. p \in u.addhost /\ i \in Ids /\ h \in Hosts /\ p = <<i, h>>
    BY <1>3, UpdateFields
  <1>5. /\ Less(v, u) /\ v.addhost = u.addhost \ {p}
        /\ v.drop = u.drop /\ v.add = u.add /\ v.qos = u.qos /\ v.grp = u.grp /\ v.vis = u.vis
        /\ v.trash = u.trash /\ v.delhost = u.delhost
    BY <1>3, Less_addhost
  <1>6. Does(g, r2) /\ update' = [update EXCEPT ![g] = v]
    BY DEF UpdateHost, HostsAfter
  <1> HIDE DEF v, r2, u, o, r, i, h
  <1>7. Ordered(v, u)
    BY <1>1, <1>5 DEF Ordered, Done
  <1>8. ASSUME ~troubled[g]
        PROVE  Tracks(r2, L, drift)
    <2>1. InStep(u, o, r, drift)
      BY <1>1, <1>8, UnderWayIs DEF u, o, r
    <2>2. Step(u, v, o, r, drift, i)
      <3>1. AlikeElse(u, v, i)
        BY <1>4, <1>5 DEF AlikeElse, Less, HostsOfPairs
      <3> QED
        BY <1>2, <1>4, <1>5, <2>1, <3>1, StepIs
    <2>3. i \notin u.drop /\ i \notin u.add /\ u.delhost = {}
      BY <1>1 DEF Done
    <2>4. L[i].ns = K[i].ns /\ L[i].qos = K[i].qos
      BY <1>5, <2>2 DEF Step, NsNow, QosNow
    <2>5. h \in u.st[i].hosts
      BY <1>2, <1>4 DEF UnderWay, Planned
    <2>6. /\ L[i].hosts = K[i].hosts \cup {h}
          /\ K[i].hosts = u.st[i].hosts \ HostsOfPairs(u.addhost, i)
          /\ h \notin K[i].hosts
      <3>1. HostsOfPairs(v.addhost, i) = HostsOfPairs(u.addhost, i) \ {h}
            /\ h \in HostsOfPairs(u.addhost, i)
        BY <1>4, <1>5 DEF HostsOfPairs
      <3>2. HostsOfPairs(u.delhost, i) = {} /\ HostsOfPairs(v.delhost, i) = {}
        BY <1>5, <2>3 DEF HostsOfPairs
      <3> QED
        BY <2>2, <2>5, <3>1, <3>2 DEF Step, HostsNow
    <2>7. CASE K[i].ns = None
      <3>1. Tracks(r, L, drift)
        BY <2>2, <2>4, <2>7, TracksSame DEF Step, AlikeBut
      <3>2. no
        BY <2>2, <2>7 DEF Step, Agrees, Refused
      <3> QED
        BY <3>1, <3>2 DEF r2
    <2>8. CASE K[i].ns # None /\ no
      <3>1. "hosts" \in drift
        <4> SUFFICES ASSUME "hosts" \notin drift PROVE FALSE
          OBVIOUS
        <4>1. CleanHosts(u.st[i])
          BY <1>2, <1>4 DEF UnderWay, Clean
        <4>2. u.st[i].ns # None /\ ~u.st[i].ns.vis /\ Cardinality(u.st[i].hosts) <= MaxHosts
          BY <2>5, <4>1 DEF CleanHosts
        <4>3. i \notin u.vis
          BY <2>2, <2>5, <4>2 DEF Step, WholeAt
        <4>4. K[i].ns.vis = u.st[i].ns.vis
          BY <2>2, <2>3, <4>2, <4>3 DEF Step, NsNow, Placed
        <4>5. /\ r.list[i] # None /\ ~r.list[i].vis /\ r.list[i].hosts = K[i].hosts
          BY SMTT(30), <1>4, <2>2, <2>8, <4>2, <4>4, AgreesFields DEF Step
        <4>6. Cardinality(K[i].hosts) < Cardinality(u.st[i].hosts)
              /\ Cardinality(u.st[i].hosts) \in Nat /\ Cardinality(K[i].hosts) \in Nat
          <5>1. u.st[i].hosts \in SUBSET Hosts
            BY <1>2, <1>4, KeyFields DEF UnderWay
          <5>2. IsFiniteSet(u.st[i].hosts) /\ IsFiniteSet(K[i].hosts)
            BY <2>6, <5>1, EntryFinite, FS_Subset
          <5>3. K[i].hosts \subseteq u.st[i].hosts /\ K[i].hosts # u.st[i].hosts
            BY <2>5, <2>6
          <5> QED
            BY <5>2, <5>3, FS_Subset, FS_CardinalityType
        <4>7. MaxHosts \in Nat
          BY EntryBounds
        <4>8. ~(Cardinality(r.list[i].hosts) >= MaxHosts)
          BY <4>2, <4>5, <4>6, <4>7
        <4> QED
          BY <2>8, <4>5, <4>8 DEF Refused
      <3>2. Tracks(r, L, drift)
        BY <2>2, <2>4, <3>1, TracksSame DEF Step, AlikeBut
      <3> QED
        BY <2>8, <3>2 DEF r2
    <2>9. CASE K[i].ns # None /\ ~no
      <3>1. /\ FoundNow(r, i) = K[i].ns.inst /\ r.list[i].hosts \in SUBSET Hosts
            /\ "hosts" \notin drift => r.list[i].hosts = K[i].hosts
        BY <1>4, <2>2, <2>9, AgreesFields DEF Step
      <3> DEFINE hosts == r.list[i].hosts \cup {h}
      <3>2. hosts \in SUBSET Hosts /\ ("hosts" \notin drift => L[i].hosts = hosts)
        BY <1>4, <2>6, <3>1
      <3> HIDE DEF hosts, K, L
      <3>3. Tracks(SetHosts(r, i, FoundNow(r, i), hosts), L, drift)
        BY <1>4, <2>2, <2>4, <2>9, <3>1, <3>2, TracksHosts DEF Step, K, L
      <3> QED
        BY <2>9, <3>3 DEF r2, hosts
    <2> QED
      BY <2>7, <2>8, <2>9
  <1> QED
    BY <1>1, <1>5, <1>6, <1>7, <1>8, CallFollows DEF u, o

LEMMA UpdateGroupFollows ==
    ASSUME BaseInv, SecondInv, NEW g \in Gateways, UpdateGroup(g)
    PROVE  SecondInv'
  <1> PICK i \in update[g].grp :
         LET r == gw[g]
         IN  IF r.spdk[i] = None \/ r.list[i] # None
             THEN /\ update' = [update EXCEPT ![g].grp = @ \ {i}]
                  /\ Does(g, IF r.spdk[i] = None THEN r
                             ELSE Regroup(r, i, FoundNow(r, i), update[g].st[i].ns.grp))
             ELSE Abort(g)
    BY DEF UpdateGroup
  <1> DEFINE r == gw[g]
             u == update[g]
             o == local[g].st
             v == [u EXCEPT !.grp = @ \ {i}]
             grp == u.st[i].ns.grp
             r2 == IF r.spdk[i] = None THEN r ELSE Regroup(r, i, FoundNow(r, i), grp)
             K == KeysNow(u, o)
             L == KeysNow(v, o)
  <1>0. CASE Abort(g)
    BY <1>0, EndsFollow
  <1>1. update[g] # None /\ Done(u, 6)
    BY ReachedIs DEF UpdateGroup
  <1>2. UnderWay(u, o, r, drift)
    BY <1>1, UnderWayIs
  <1>3. u \in Updates /\ i \in u.grp /\ i \in Ids
    BY <1>2, UpdateFields DEF UnderWay
  <1>4. /\ Less(v, u) /\ v.grp = u.grp \ {i}
        /\ v.drop = u.drop /\ v.add = u.add /\ v.qos = u.qos /\ v.vis = u.vis
        /\ v.trash = u.trash /\ v.delhost = u.delhost /\ v.addhost = u.addhost
    BY <1>3, Less_grp
  <1>5. CASE Does(g, r2) /\ update' = [update EXCEPT ![g] = v]
    <2>0. u.st[i].ns # None /\ grp \in Groups
      BY <1>2, <1>3, KeyFields, EntryFields DEF UnderWay, Planned, Same
    <2> HIDE DEF v, r2, u, o, r
    <2>1. Ordered(v, u)
      BY <1>1, <1>4 DEF Ordered, Done
    <2>2. ASSUME ~troubled[g]
          PROVE  Tracks(r2, L, drift)
      <3>1. InStep(u, o, r, drift)
        BY <1>1, <2>2, UnderWayIs DEF u, o, r
      <3>2. Step(u, v, o, r, drift, i)
        <4>1. AlikeElse(u, v, i)
          BY <1>4 DEF AlikeElse, Less
        <4> QED
          BY <1>2, <1>3, <1>4, <3>1, <4>1, StepIs
      <3>3. i \notin u.drop /\ i \notin u.add
        BY <1>1 DEF Done
      <3>4. L[i].hosts = K[i].hosts /\ L[i].qos = K[i].qos
        BY <1>4, <3>2 DEF Step, HostsNow, QosNow
      <3>5. K[i].ns # None
        BY <1>2, <1>3, <2>0, <3>2, <3>3, NsNowIsEntry DEF Step, UnderWay
      <3>6. L[i].ns = Placed(K[i].ns.inst, grp, K[i].ns.vis, K[i].ns.trash)
        BY <1>4, <2>0, <3>2, <3>3 DEF Step, NsNow, Placed
      <3>7. /\ FoundNow(r, i) = K[i].ns.inst /\ r.spdk[i] # None
        BY <1>3, <3>2, <3>5, AgreesFields DEF Step
      <3> HIDE DEF grp, K, L
      <3>8. Tracks(Regroup(r, i, FoundNow(r, i), grp), L, drift)
        BY <1>3, <2>0, <3>2, <3>4, <3>5, <3>6, <3>7, TracksRegroup DEF Step, K, L
      <3> QED
        BY <3>7, <3>8 DEF r2
    <2> QED
      BY <1>1, <1>4, <1>5, <2>1, <2>2, CallFollows DEF u, o
  <1> QED
    BY <1>0, <1>5

LEMMA UpdateVisibilityFollows ==
    ASSUME BaseInv, SecondInv, NEW g \in Gateways, UpdateVisibility(g)
    PROVE  SecondInv'
  <1> PICK i \in update[g].vis :
         LET r == gw[g]
         IN  /\ update' = [update EXCEPT ![g].vis = @ \ {i}]
             /\ Does(g, IF RemoveErrs(r, i) THEN r
                        ELSE Show(r, i, FoundNow(r, i), update[g].st[i].ns.vis, TRUE))
    BY DEF UpdateVisibility
  <1> DEFINE r == gw[g]
             u == update[g]
             o == local[g].st
             v == [u EXCEPT !.vis = @ \ {i}]
             vis == u.st[i].ns.vis
             r2 == IF RemoveErrs(r, i) THEN r ELSE Show(r, i, FoundNow(r, i), vis, TRUE)
             K == KeysNow(u, o)
             L == KeysNow(v, o)
  <1>1. update[g] # None /\ Done(u, 7)
    BY ReachedIs DEF UpdateVisibility
  <1>2. UnderWay(u, o, r, drift)
    BY <1>1, UnderWayIs
  <1>3. u \in Updates /\ i \in u.vis /\ i \in Ids
    BY <1>2, UpdateFields DEF UnderWay
  <1>4. /\ Less(v, u) /\ v.vis = u.vis \ {i}
        /\ v.drop = u.drop /\ v.add = u.add /\ v.qos = u.qos /\ v.grp = u.grp
        /\ v.trash = u.trash /\ v.delhost = u.delhost /\ v.addhost = u.addhost
    BY <1>3, Less_vis
  <1>5. Does(g, r2) /\ update' = [update EXCEPT ![g] = v]
    OBVIOUS
  <1>6. u.st[i].ns # None /\ vis \in BOOLEAN
    BY <1>2, <1>3, KeyFields, EntryFields DEF UnderWay, Planned, Same
  <1> HIDE DEF v, r2, u, o, r
  <1>7. Ordered(v, u)
    BY <1>1, <1>4 DEF Ordered, Done
  <1>8. ASSUME ~troubled[g]
        PROVE  Tracks(r2, L, drift)
    <2>1. InStep(u, o, r, drift)
      BY <1>1, <1>8, UnderWayIs DEF u, o, r
    <2>2. Step(u, v, o, r, drift, i)
      <3>1. AlikeElse(u, v, i)
        BY <1>4 DEF AlikeElse, Less
      <3> QED
        BY <1>2, <1>3, <1>4, <2>1, <3>1, StepIs
    <2>3. i \notin u.drop /\ i \notin u.add /\ u.delhost = {} /\ u.addhost = {}
      BY <1>1 DEF Done
    <2>4. L[i].hosts = K[i].hosts /\ L[i].qos = K[i].qos
      BY <1>4, <2>2 DEF Step, HostsNow, QosNow
    <2>5. K[i].ns # None
      BY <1>2, <1>3, <1>6, <2>2, <2>3, NsNowIsEntry DEF Step, UnderWay
    <2>6. L[i].ns = Placed(K[i].ns.inst, K[i].ns.grp, vis, K[i].ns.trash)
      BY <1>4, <1>6, <2>2, <2>3 DEF Step, NsNow, Placed
    <2>7. FoundNow(r, i) = K[i].ns.inst /\ ~RemoveErrs(r, i)
      BY <1>3, <2>2, <2>5, AgreesFields DEF Step
    <2>8. "hosts" \notin drift => L[i].hosts = IF TRUE /\ vis THEN {} ELSE K[i].hosts
      <3> HAVE "hosts" \notin drift
      <3>1. CleanHosts(u.st[i])
        BY <1>2, <1>3 DEF UnderWay, Clean
      <3>2. K[i].hosts = u.st[i].hosts
        BY <2>2, <2>3 DEF Step, HostsNow, HostsOfPairs
      <3> QED
        BY <2>4, <3>1, <3>2 DEF CleanHosts
    <2> HIDE DEF vis, K, L
    <2>9. Tracks(Show(r, i, FoundNow(r, i), vis, TRUE), L, drift)
      BY <1>3, <1>6, <2>2, <2>4, <2>5, <2>6, <2>7, <2>8, TracksShow DEF Step, K, L
    <2> QED
      BY <2>7, <2>9 DEF r2
  <1> QED
    BY <1>1, <1>4, <1>5, <1>7, <1>8, CallFollows DEF u, o

LEMMA UpdateTrashFollows ==
    ASSUME BaseInv, SecondInv, NEW g \in Gateways, UpdateTrash(g)
    PROVE  SecondInv'
  <1> PICK i \in update[g].trash :
         LET r == gw[g]
         IN  /\ update' = [update EXCEPT ![g].trash = @ \ {i}]
             /\ Does(g, SetTrash(r, i, FoundNow(r, i), update[g].st[i].ns.trash))
    BY DEF UpdateTrash
  <1> DEFINE r == gw[g]
             u == update[g]
             o == local[g].st
             v == [u EXCEPT !.trash = @ \ {i}]
             trash == u.st[i].ns.trash
             r2 == SetTrash(r, i, FoundNow(r, i), trash)
             K == KeysNow(u, o)
             L == KeysNow(v, o)
  <1>1. update[g] # None /\ Done(u, 8)
    BY ReachedIs DEF UpdateTrash
  <1>2. UnderWay(u, o, r, drift)
    BY <1>1, UnderWayIs
  <1>3. u \in Updates /\ i \in u.trash /\ i \in Ids
    BY <1>2, UpdateFields DEF UnderWay
  <1>4. /\ Less(v, u) /\ v.trash = u.trash \ {i}
        /\ v.drop = u.drop /\ v.add = u.add /\ v.qos = u.qos /\ v.grp = u.grp
        /\ v.vis = u.vis /\ v.delhost = u.delhost /\ v.addhost = u.addhost
    BY <1>3, Less_trash
  <1>5. Does(g, r2) /\ update' = [update EXCEPT ![g] = v]
    OBVIOUS
  <1>6. u.st[i].ns # None /\ trash \in BOOLEAN
    BY <1>2, <1>3, KeyFields, EntryFields DEF UnderWay, Planned, Same
  <1> HIDE DEF v, r2, u, o, r
  <1>7. Ordered(v, u)
    BY <1>1, <1>4 DEF Ordered, Done
  <1>8. ASSUME ~troubled[g]
        PROVE  Tracks(r2, L, drift)
    <2>1. InStep(u, o, r, drift)
      BY <1>1, <1>8, UnderWayIs DEF u, o, r
    <2>2. Step(u, v, o, r, drift, i)
      <3>1. AlikeElse(u, v, i)
        BY <1>4 DEF AlikeElse, Less
      <3> QED
        BY <1>2, <1>3, <1>4, <2>1, <3>1, StepIs
    <2>3. i \notin u.drop /\ i \notin u.add
      BY <1>1 DEF Done
    <2>4. L[i].hosts = K[i].hosts /\ L[i].qos = K[i].qos
      BY <1>4, <2>2 DEF Step, HostsNow, QosNow
    <2>5. K[i].ns # None
      BY <1>2, <1>3, <1>6, <2>2, <2>3, NsNowIsEntry DEF Step, UnderWay
    <2>6. L[i].ns = Placed(K[i].ns.inst, K[i].ns.grp, K[i].ns.vis, trash)
      BY <1>4, <1>6, <2>2, <2>3 DEF Step, NsNow, Placed
    <2>7. FoundNow(r, i) = K[i].ns.inst
      BY <1>3, <2>2, <2>5, AgreesFields DEF Step
    <2> HIDE DEF trash, K, L
    <2>9. Tracks(SetTrash(r, i, FoundNow(r, i), trash), L, drift)
      BY <1>3, <1>6, <2>2, <2>4, <2>5, <2>6, <2>7, TracksTrash DEF Step, K, L
    <2> QED
      BY <2>9 DEF r2
  <1> QED
    BY <1>1, <1>4, <1>5, <1>7, <1>8, CallFollows DEF u, o

\* An update that leaves nothing out starts from the keys as they were.
LEMMA PlanIsWhole ==
    ASSUME NEW old \in Contents, NEW new \in Contents, ~LeavesOut(old, new), NEW u \in Updates,
           u.st = new, Planned(u, old),
           u.drop = Plan(old, new).drop, u.add = Plan(old, new).add, u.qos = Plan(old, new).qos,
           u.grp = Plan(old, new).grp, u.vis = Plan(old, new).vis,
           u.trash = Plan(old, new).trash,
           u.delhost = Plan(old, new).delhost, u.addhost = Plan(old, new).addhost,
           NEW d, Grown(old, new, d)
    PROVE  /\ Whole(u, old)
           /\ \A i \in Ids :
                 /\ NsNow(u, old, i) = old[i].ns
                 /\ "qos" \notin d /\ old[i].ns # None => QosNow(u, old, i) = old[i].qos
                 /\ HostsNow(u, i) = old[i].hosts
  <1> DEFINE has(st) == {i \in Ids : st[i].ns # None}
             readd == {i \in has(old) \cap has(new) : old[i].ns.inst # new[i].ns.inst}
             gone == has(old) \ has(new)
             come == has(new) \ has(old)
  <1>1. /\ u.drop = Grouped(gone, readd) /\ u.add = Grouped(come, readd)
        /\ u.grp = {i \in (has(old) \cap has(new)) \ readd : old[i].ns.grp # new[i].ns.grp}
        /\ u.vis = {i \in (has(old) \cap has(new)) \ readd : old[i].ns.vis # new[i].ns.vis}
        /\ u.trash = {i \in (has(old) \cap has(new)) \ readd : old[i].ns.trash # new[i].ns.trash}
    BY DEF Plan
  <1>2. /\ ~(u.drop # gone /\ has(old) # has(new))
        /\ \A i \in Ids : new[i].qos = old[i].qos \/ new[i].qos = NoLimits \/ i \in u.qos
        /\ \A i \in u.drop \cap u.add : new[i].qos = NoLimits /\ new[i].hosts = {}
        /\ \A i \in u.vis : new[i].ns.vis \/ new[i].hosts = {}
    BY DEF LeavesOut
  <1>3. /\ u.delhost = {p \in Ids \X Hosts : p[2] \in old[p[1]].hosts}
                         \ {p \in Ids \X Hosts : p[2] \in new[p[1]].hosts}
        /\ u.addhost = {p \in Ids \X Hosts : p[2] \in new[p[1]].hosts}
                         \ {p \in Ids \X Hosts : p[2] \in old[p[1]].hosts}
    BY SMTT(30) DEF Plan
  <1>4. readd # {} => u.drop = readd /\ u.add = readd /\ has(old) = has(new)
    BY <1>1, <1>2 DEF Grouped
  <1>5. readd = {} => u.drop = gone /\ u.add = come
    BY <1>1 DEF Grouped
  <1>6. ASSUME NEW i \in Ids
        PROVE  /\ i \in readd <=> old[i].ns # None /\ new[i].ns # None /\ ~Same(old[i], new[i])
               /\ i \in readd => i \in u.drop /\ i \in u.add
               /\ i \in u.drop /\ i \notin readd => old[i].ns # None /\ new[i].ns = None
               /\ i \in u.add /\ i \notin readd => old[i].ns = None /\ new[i].ns # None
               /\ i \notin u.drop /\ i \notin u.add /\ new[i].ns = None => old[i].ns = None
               /\ i \notin u.drop /\ i \notin u.add /\ new[i].ns # None => Same(old[i], new[i])
    <2>1. CASE readd # {}
      BY <1>4, <2>1 DEF Same
    <2>2. CASE readd = {}
      BY <1>5, <2>2 DEF Same
    <2> QED
      BY <2>1, <2>2
  <1>7. ASSUME NEW i \in Ids
        PROVE  NsNow(u, old, i) = old[i].ns
    <2>1. CASE i \in u.drop
      BY <2>1 DEF NsNow
    <2>2. CASE i \notin u.drop /\ (i \in u.add \/ new[i].ns = None)
      BY <1>6, <2>2 DEF NsNow
    <2>3. CASE i \notin u.drop /\ i \notin u.add /\ new[i].ns # None
      <3>1. Same(old[i], new[i]) /\ i \notin readd
        BY <1>6, <2>3
      <3>2. old[i].ns \in Entries /\ old[i].ns.inst = new[i].ns.inst
        BY <3>1, KeyFields DEF Same
      <3>3. /\ i \in u.grp \/ old[i].ns.grp = new[i].ns.grp
            /\ i \in u.vis \/ old[i].ns.vis = new[i].ns.vis
            /\ i \in u.trash \/ old[i].ns.trash = new[i].ns.trash
        BY <1>1, <3>1 DEF Same
      <3>4. NsNow(u, old, i)
               = Placed(old[i].ns.inst, old[i].ns.grp, old[i].ns.vis, old[i].ns.trash)
        BY <2>3, <3>2, <3>3 DEF NsNow
      <3> QED
        BY <3>2, <3>4, EntryWith
    <2> QED
      BY <2>1, <2>2, <2>3
  <1>8. ASSUME NEW i \in Ids, "qos" \notin d, old[i].ns # None
        PROVE  QosNow(u, old, i) = old[i].qos
    <2>1. CASE i \in u.drop \cup u.qos
      BY <2>1 DEF QosNow
    <2>2. CASE i \notin u.drop /\ i \notin u.qos
      <3>1. Same(old[i], new[i])
        BY <1>6, <1>8, <2>2
      <3>2. CASE new[i].qos = NoLimits
        <4>1. \A l \in Limits : old[i].qos[l] = None
          BY <1>8, <3>1, <3>2 DEF Grown, Grows, NoLimits
        <4>2. old[i].qos \in Limited
          BY KeyFields
        <4>3. old[i].qos = NoLimits
          BY <4>1, <4>2 DEF Limited, NoLimits
        <4> QED
          BY <2>2, <3>2, <4>3 DEF QosNow
      <3> QED
        BY <1>2, <2>2, <3>2 DEF QosNow
    <2> QED
      BY <2>1, <2>2
  <1>9. ASSUME NEW i \in Ids
        PROVE  HostsNow(u, i) = old[i].hosts
    <2>1. /\ HostsOfPairs(u.delhost, i) = old[i].hosts \ new[i].hosts
          /\ HostsOfPairs(u.addhost, i) = new[i].hosts \ old[i].hosts
      <3>1. old[i].hosts \in SUBSET Hosts /\ new[i].hosts \in SUBSET Hosts
        BY KeyFields
      <3> QED
        BY <1>3, <3>1 DEF HostsOfPairs
    <2> QED
      BY <2>1 DEF HostsNow
  <1>10. ASSUME NEW i \in Ids
         PROVE  WholeAt(u, old, i)
    <2>1. i \in u.drop /\ new[i].ns # None => i \in u.add
      BY <1>6
    <2>2. ASSUME i \in u.add
          PROVE  /\ old[i].ns # None => new[i].qos = NoLimits /\ new[i].hosts = {}
                 /\ new[i].qos = NoLimits \/ new[i].qos = old[i].qos \/ i \in u.qos
                 /\ new[i].hosts \subseteq old[i].hosts \cup HostsOfPairs(u.addhost, i)
      <3>1. old[i].ns # None => i \in u.drop
        BY <1>6, <2>2
      <3>2. new[i].hosts \in SUBSET Hosts
        BY KeyFields
      <3>3. new[i].hosts \subseteq old[i].hosts \cup HostsOfPairs(u.addhost, i)
        BY <1>3, <3>2 DEF HostsOfPairs
      <3> QED
        BY <1>2, <2>2, <3>1, <3>3
    <2>3. i \in u.qos => old[i].ns = None \/ new[i].ns = None \/ Same(old[i], new[i])
      <3>1. i \in u.qos => new[i].qos # NoLimits
        BY DEF Planned
      <3> QED
        BY <1>2, <1>6, <3>1
    <2> QED
      BY <1>2, <1>7, <2>1, <2>2, <2>3 DEF WholeAt
  <1> QED
    BY SMTT(30), <1>7, <1>8, <1>9, <1>10 DEF Whole

\* a new plan starts from the keys the gateway has
LEMMA StartUpdateFollows ==
    ASSUME BaseInv, SecondInv, NEW g \in Gateways, StartUpdate(g)
    PROVE  SecondInv'
  <1> DEFINE o == local[g].st
             p == Plan(o, omap)
             u == [ver |-> version, st |-> omap, drop |-> p.drop, add |-> p.add, qos |-> p.qos,
                   grp |-> p.grp, vis |-> p.vis, trash |-> p.trash,
                   delhost |-> p.delhost, addhost |-> p.addhost]
  <1>1. /\ UNCHANGED <<omap, local, gw, drift>>
        /\ update[g] = None
        /\ update' = [update EXCEPT ![g] = u]
        /\ troubled' = [troubled EXCEPT ![g] = @ \/ LeavesOut(o, omap)]
    BY DEF StartUpdate, omapVars
  <1>2. /\ update \in [Gateways -> Updates \cup {None}] /\ troubled \in [Gateways -> BOOLEAN]
        /\ o \in Contents /\ omap \in Contents /\ version \in Nat
    BY BaseIsGood, LocalFields DEF CoreTypes, RestTypes
  <1>3. /\ u \in Updates /\ u # None /\ u.st = omap /\ Planned(u, o)
        /\ u.drop = p.drop /\ u.add = p.add /\ u.qos = p.qos
        /\ u.grp = p.grp /\ u.vis = p.vis /\ u.trash = p.trash
        /\ u.delhost = p.delhost /\ u.addhost = p.addhost
    BY <1>2, PlanIs
  <1> HIDE DEF u
  <1>4. /\ update'[g] = u /\ troubled'[g] = (troubled[g] \/ LeavesOut(o, omap))
        /\ \A h \in Gateways : h # g => Untouched(h)
    BY <1>1, <1>2 DEF Untouched
  <1>5. Grown(o, omap, drift)
    BY DEF SecondInv, DriftInv
  <1>6. ASSUME ~troubled'[g]
        PROVE  /\ Whole(u, o)
               /\ \A i \in Ids :
                     /\ NsNow(u, o, i) = o[i].ns
                     /\ "qos" \notin drift /\ o[i].ns # None
                           => QosNow(u, o, i) = o[i].qos
                     /\ HostsNow(u, i) = o[i].hosts
    <2>1. ~LeavesOut(o, omap)
      BY <1>4, <1>6
    <2> HIDE DEF o
    <2> QED
      BY <1>2, <1>3, <1>5, <2>1, PlanIsWhole
  <1>7. ASSUME ~troubled'[g]
        PROVE  Tracks(gw'[g], Now(g)', drift')
    <2>1. Tracks(gw[g], o, drift)
      BY <1>1, <1>4, <1>7 DEF SecondInv, FollowInv, Now
    <2>2. Tracks(gw[g], KeysNow(u, o), drift)
      <3>1. \A i \in Ids :
               /\ KeysNow(u, o)[i].ns = o[i].ns
               /\ o[i].ns # None => /\ KeysNow(u, o)[i].hosts = o[i].hosts
                                    /\ "qos" \notin drift => KeysNow(u, o)[i].qos = o[i].qos
        <4>1. \A i \in Ids :
                 /\ NsNow(u, o, i) = o[i].ns
                 /\ "qos" \notin drift /\ o[i].ns # None => QosNow(u, o, i) = o[i].qos
                 /\ HostsNow(u, i) = o[i].hosts
          BY <1>6, <1>7
        <4> HIDE DEF o
        <4> SUFFICES ASSUME NEW i \in Ids
                     PROVE  /\ KeysNow(u, o)[i].ns = o[i].ns
                            /\ o[i].ns # None =>
                                  /\ KeysNow(u, o)[i].hosts = o[i].hosts
                                  /\ "qos" \notin drift => KeysNow(u, o)[i].qos = o[i].qos
          OBVIOUS
        <4>2. /\ KeysNow(u, o)[i].ns = NsNow(u, o, i)
              /\ KeysNow(u, o)[i].qos = QosNow(u, o, i)
              /\ KeysNow(u, o)[i].hosts = HostsNow(u, i)
          BY KeysNowFields
        <4> QED
          BY <4>1, <4>2
      <3> HIDE DEF o
      <3> QED
        BY <2>1, <3>1, TracksSame
    <2>3. Now(g)' = KeysNow(u, o)
      BY <1>1, <1>3, <1>4 DEF Now
    <2> QED
      BY <1>1, <2>2, <2>3
  <1>8. ~troubled'[g] => Whole(update'[g], local'[g].st)
    BY <1>1, <1>4, <1>6
  <1>9. FollowInv' /\ WholeInv'
    BY <1>1, <1>4, <1>7, <1>8, FollowFrame
  <1>10. DriftInv'
    <2>1. ASSUME NEW h \in Gateways
          PROVE  /\ Clean(local[h].st, drift) /\ Grown(local[h].st, omap, drift)
                 /\ update'[h] # None =>
                       /\ Clean(update'[h].st, drift)
                       /\ Grown(local[h].st, update'[h].st, drift)
                       /\ Grown(update'[h].st, omap, drift)
      BY <1>3, <1>4, GrownFrom DEF SecondInv, DriftInv, Untouched
    <2> QED
      BY <1>1, <2>1 DEF SecondInv, DriftInv
  <1> QED
    BY <1>9, <1>10 DEF SecondInv

\* with no calls left, the gateway has the new version
LEMMA UpdateEndFollows ==
    ASSUME BaseInv, SecondInv, NEW g \in Gateways, UpdateEnd(g)
    PROVE  SecondInv'
  <1> DEFINE u == update[g]
             o == local[g].st
             e == [ver |-> u.ver, st |-> u.st]
  <1>1. /\ UNCHANGED <<omap, gw, troubled, drift>>
        /\ local' = [local EXCEPT ![g] = e]
        /\ update' = [update EXCEPT ![g] = None]
    BY DEF UpdateEnd, omapVars, historyVars
  <1>2. u # None /\ Done(u, 9)
    BY ReachedIs DEF UpdateEnd
  <1>3. UnderWay(u, o, gw[g], drift)
    BY <1>2, UnderWayIs
  <1>4. /\ update \in [Gateways -> Updates \cup {None}]
        /\ local \in [Gateways -> [ver : Nat, st : Contents]]
    BY DEF BaseInv, EntryTypeOK
  <1>5. /\ update'[g] = None /\ local'[g].st = u.st
        /\ \A h \in Gateways : h # g => Untouched(h)
    BY <1>1, <1>4 DEF Untouched
  <1>6. ASSUME NEW i \in Ids
        PROVE  /\ NsNow(u, o, i) = u.st[i].ns /\ QosNow(u, o, i) = u.st[i].qos
               /\ HostsNow(u, i) = u.st[i].hosts
    <2>1. /\ u.delhost = {} /\ u.drop = {} /\ u.add = {} /\ u.qos = {} /\ u.addhost = {}
          /\ u.grp = {} /\ u.vis = {} /\ u.trash = {}
      BY <1>2 DEF Done
    <2>2. u.st[i].ns \in Entries \cup {None}
      BY <1>3, KeyFields DEF UnderWay
    <2>3. NsNow(u, o, i) = u.st[i].ns
      <3>1. CASE u.st[i].ns = None
        BY <2>1, <3>1 DEF NsNow
      <3>2. CASE u.st[i].ns # None
        BY <2>1, <2>2, <3>2, EntryWith DEF NsNow
      <3> QED
        BY <3>1, <3>2
    <2>4. QosNow(u, o, i) = u.st[i].qos
      BY <2>1 DEF QosNow
    <2>5. HostsNow(u, i) = u.st[i].hosts
      BY <2>1 DEF HostsNow, HostsOfPairs
    <2> QED
      BY <2>3, <2>4, <2>5
  <1>7. ASSUME ~troubled'[g]
        PROVE  Tracks(gw'[g], Now(g)', drift')
    <2>1. Tracks(gw[g], KeysNow(u, o), drift)
      BY <1>1, <1>2, <1>7 DEF SecondInv, FollowInv, Now
    <2>2. Tracks(gw[g], u.st, drift)
      BY <1>6, <2>1, KeysNowFields, TracksSame
    <2>3. Now(g)' = u.st
      BY <1>5 DEF Now
    <2> QED
      BY <1>1, <2>2, <2>3
  <1>8. FollowInv' /\ WholeInv'
    BY <1>1, <1>5, <1>7, FollowFrame
  <1>9. DriftInv'
    <2>1. ASSUME NEW h \in Gateways
          PROVE  /\ Clean(local'[h].st, drift) /\ Grown(local'[h].st, omap, drift)
                 /\ update'[h] # None =>
                       /\ Clean(update'[h].st, drift)
                       /\ Grown(local'[h].st, update'[h].st, drift)
                       /\ Grown(update'[h].st, omap, drift)
      BY <1>2, <1>5 DEF SecondInv, DriftInv, Untouched
    <2> QED
      BY <1>1, <2>1 DEF SecondInv, DriftInv
  <1> QED
    BY <1>8, <1>9 DEF SecondInv

\* every step of update() keeps the second invariant
LEMMA UpdateStepFollows ==
    ASSUME BaseInv, SecondInv, NEW g \in Gateways, UpdateStep(g)
    PROVE  SecondInv'
  <1>1. CASE StartUpdate(g) \/ UpdateEnd(g)
    BY <1>1, StartUpdateFollows, UpdateEndFollows
  <1>2. CASE UpdateDeleteHost(g) \/ UpdateDelete(g) \/ UpdateAdd(g) \/ UpdateLimits(g)
    BY <1>2, UpdateDeleteHostFollows, UpdateDeleteFollows, UpdateAddFollows, UpdateLimitsFollows
  <1>3. CASE UpdateAddHost(g) \/ UpdateGroup(g) \/ UpdateVisibility(g) \/ UpdateTrash(g)
    BY <1>3, UpdateAddHostFollows, UpdateGroupFollows, UpdateVisibilityFollows, UpdateTrashFollows
  <1> QED
    BY <1>1, <1>2, <1>3 DEF UpdateStep

(***************************************************************************)
(* The second invariant holds                                              *)
(***************************************************************************)
LEMMA SecondStep == BaseInv /\ SecondInv /\ [EntryNext]_entryVars => SecondInv'
  <1> SUFFICES ASSUME BaseInv, SecondInv, [EntryNext]_entryVars
               PROVE  SecondInv'
    OBVIOUS
  <1>1. CASE UNCHANGED entryVars
    <2>1. UNCHANGED <<omap, local, gw, update, troubled, drift>>
      BY <1>1 DEF entryVars, omapVars, historyVars
    <2> QED
      BY <2>1, RequestOnly
  <1>2. ASSUME NEW g \in Gateways, UpdateStep(g) \/ Crash(g)
        PROVE  SecondInv'
    BY <1>2, UpdateStepFollows, EndsFollow
  <1> QED
    BY <1>1, <1>2, RequestStepFollows DEF EntryNext

\* the second invariant holds at the start
LEMMA SecondInit == EntryInit => SecondInv
  <1> SUFFICES ASSUME EntryInit
               PROVE  SecondInv
    OBVIOUS
  <1> PICK i \in Ids, k \in Starts :
        /\ omap = StartContent(i, k)
        /\ local = [g \in Gateways |-> [ver |-> 2, st |-> omap]]
        /\ gw = [g \in Gateways |-> StartGateway(i, k)]
        /\ update = [g \in Gateways |-> None]
        /\ troubled = [g \in Gateways |-> FALSE]
        /\ drift = {}
    BY DEF EntryInit, StartContent, StartGateway
  <1> DEFINE r == StartGateway(i, k)
             x == Listed(k.ns, k.hosts)
  <1>1. Has(r, [NewGateway.list EXCEPT ![i] = x],
            [NewGateway.spdk EXCEPT ![i] = SpdkOf(k.ns)],
            [NewGateway.bdev EXCEPT ![0] = k.qos],
            [NewGateway.load EXCEPT ![k.ns.grp] = @ + 1])
    BY StartIs
  <1>2. /\ NewGateway.list = [j \in Ids |-> None] /\ NewGateway.spdk = [j \in Ids |-> None]
        /\ NewGateway.bdev = [n \in Insts |-> None]
        /\ NewGateway.load = [b \in Groups \cup {0} |-> 0]
    BY DEF NewGateway
  <1>3. /\ k \in Keys /\ k.ns \in Entries /\ k.hosts \in SUBSET Hosts /\ k.ns # None
        /\ k.ns.inst = 0 /\ 0 \in Insts
        /\ omap \in Contents /\ omap[i] = k
        /\ \A j \in Ids : j # i => omap[j] = NoKeys
    BY StartIs
  <1>4. /\ x \in ListEntries /\ x # None /\ x.grp = k.ns.grp /\ x.hosts = k.hosts
        /\ k.ns.grp \in Groups
    BY <1>3, EntryFields, GatewayNone DEF Listed
  <1> HIDE DEF r, x
  <1>5. /\ r.list = [NewGateway.list EXCEPT ![i] = x]
        /\ r.list[i] = x /\ r.spdk[i] = SpdkOf(k.ns) /\ r.bdev[0] = k.qos
        /\ \A j \in Ids : j # i => r.list[j] = None /\ r.spdk[j] = None
    <2>1. r.list[i] = x /\ \A j \in Ids : j # i => r.list[j] = None
      <3>1. r.list = [[j \in Ids |-> None] EXCEPT ![i] = x]
        BY <1>1, <1>2 DEF Has
      <3> QED
        BY <3>1
    <2>2. r.spdk[i] = SpdkOf(k.ns) /\ \A j \in Ids : j # i => r.spdk[j] = None
      <3>1. r.spdk = [[j \in Ids |-> None] EXCEPT ![i] = SpdkOf(k.ns)]
        BY <1>1, <1>2 DEF Has
      <3> QED
        BY <3>1
    <2>3. r.bdev[0] = k.qos
      <3>1. r.bdev = [[n \in Insts |-> None] EXCEPT ![0] = k.qos]
        BY <1>1, <1>2 DEF Has
      <3> QED
        BY <1>3, <3>1
    <2> QED
      BY <1>1, <2>1, <2>2, <2>3 DEF Has
  <1>6. r.load = [NewGateway.load EXCEPT ![k.ns.grp] = @ + 1] /\ r \in GatewayStates
    BY <1>1 DEF Has
  <1>7. Counts(r.list, r.load)
    <2>1. Counts(NewGateway.list, NewGateway.load)
      BY TracksNew DEF Tracks
    <2>2. /\ NewGateway.list \in [Ids -> ListEntries \cup {None}]
          /\ NewGateway.load \in [Groups \cup {0} -> Int]
      BY <1>2
    <2>5. r.load \in [Groups \cup {0} -> Int]
      BY <1>6, GatewayFields
    <2>3. \A b \in Groups : r.load[b] = (NewGateway.load[b] - On(NewGateway.list[i], b)) + On(x, b)
      BY <1>2, <1>4, <1>6 DEF On
    <2>4. Recounted(NewGateway.list, NewGateway.load, i, x, r.list, r.load)
      BY <1>4, <1>5, <2>2, <2>3, <2>5 DEF Recounted
    <2> QED
      BY <2>1, <2>4, CountsWith
  <1>8. \A j \in Ids : Agrees(r, j, omap[j], drift)
    <2>1. Agrees(r, i, omap[i], drift)
      BY <1>3, <1>4, <1>5 DEF Agrees, x
    <2>2. ASSUME NEW j \in Ids, j # i
          PROVE  Agrees(r, j, omap[j], drift)
      BY <1>3, <1>5, <2>2, NoKeysAreKeys DEF Agrees
    <2> QED
      BY <2>1, <2>2
  <1>9. FollowInv
    BY <1>7, <1>8 DEF FollowInv, Tracks, Now, r
  <1>10. Clean(omap, drift)
    <2>1. CleanHosts(k) /\ CleanQos(k)
      <3>1. Cardinality(k.hosts) <= (IF k.ns.vis THEN 0 ELSE MaxHosts)
        BY EntryStarts
      <3>2. k.ns.vis => k.hosts = {}
        <4>1. IsFiniteSet(k.hosts)
          BY <1>3, EntryFinite, FS_Subset
        <4>2. Cardinality(k.hosts) \in Nat /\ (Cardinality(k.hosts) = 0 => k.hosts = {})
          BY <4>1, FS_CardinalityType, FS_EmptySet
        <4> QED
          BY <3>1, <4>2
      <3> QED
        BY <1>3, <3>1, <3>2 DEF CleanHosts, CleanQos
    <2> QED
      BY <1>3, <2>1, NoKeysAreKeys DEF Clean, CleanHosts, CleanQos
  <1>11. DriftInv
    BY <1>10, GrownFrom DEF DriftInv
  <1>12. WholeInv
    BY DEF WholeInv
  <1> QED
    BY <1>9, <1>11, <1>12 DEF SecondInv

\* The gateways follow the keys in every reachable state.
THEOREM AlwaysEntry == EntrySpec => []EntryInv
  <1>1. EntryInit => EntryInv
    BY BaseInit, SecondInit DEF EntryInv
  <1>2. EntryInv /\ [EntryNext]_entryVars => EntryInv'
    BY BaseStep, SecondStep DEF EntryInv
  <1> QED
    BY <1>1, <1>2, PTL DEF EntrySpec

\* When all is answered and the gateways are up to date, each one has every
\* namespace of the OMAP as the OMAP has it and counts it in its group, whatever
\* was changed at which gateway and in whatever order update() brought it there.
THEOREM EntriesFollow == EntrySpec => []EntriesFollowAtRest
  <1>1. EntryInv => EntriesFollowAtRest
    <2> SUFFICES ASSUME EntryInv, AtRest, NEW g \in Gateways, ~troubled[g]
                 PROVE  /\ \A i \in Ids : Follows(gw[g], i, omap[i])
                        /\ \A b \in Groups : gw[g].load[b] =
                              Cardinality({i \in Ids : omap[i].ns # None /\ omap[i].ns.grp = b})
      BY DEF EntriesFollowAtRest
    <2>1. BaseInv /\ SecondInv
      BY DEF EntryInv
    <2>2. ~Behind(g) /\ update[g] = None
      BY DEF AtRest
    <2>3. local[g].st = omap
      <3>1. version \in Nat /\ local[g].ver \in Nat
        BY <2>1, BaseIsGood, LocalFields DEF CoreTypes
      <3>2. local[g].ver = version
        BY <2>1, <2>2, <3>1 DEF Behind, BaseInv, VersionInv
      <3> QED
        BY <2>1, <3>2 DEF BaseInv, VersionInv
    <2>4. Tracks(gw[g], omap, drift)
      BY <2>1, <2>2, <2>3 DEF SecondInv, FollowInv, Now
    <2>5. omap \in Contents /\ gw[g] \in GatewayStates
      BY <2>1, BaseIsGood DEF CoreTypes
    <2>6. ASSUME NEW i \in Ids
          PROVE  Follows(gw[g], i, omap[i])
      <3>1. Agrees(gw[g], i, omap[i], drift)
        BY <2>4 DEF Tracks
      <3>2. omap[i].ns # None => gw[g].spdk[i] # None
        BY <2>5, <3>1, AgreesFields, KeyFields
      <3> QED
        BY <3>1, <3>2 DEF Follows, Agrees, SpdkOf, Listed
    <2>7. ASSUME NEW b \in Groups
          PROVE  gw[g].load[b] =
                    Cardinality({i \in Ids : omap[i].ns # None /\ omap[i].ns.grp = b})
      <3>1. ASSUME NEW i \in Ids
            PROVE  /\ gw[g].list[i] # None <=> omap[i].ns # None
                   /\ omap[i].ns # None => gw[g].list[i].grp = omap[i].ns.grp
        BY <2>4, <2>5, AgreesFields, KeyFields DEF Tracks, Agrees
      <3>2. ListOn(gw[g].list, b) = {i \in Ids : omap[i].ns # None /\ omap[i].ns.grp = b}
        BY <3>1 DEF ListOn
      <3> QED
        BY <2>4, <3>2 DEF Tracks, Counts
    <2> QED
      BY <2>6, <2>7
  <1> QED
    BY <1>1, AlwaysEntry, PTL

\* A handler that takes a namespace's ID or bdev from the list never reaches
\* another namespace with it, whatever has failed (control/grpc.py); and where
\* nothing has, the list and SPDK have the same namespaces, also in the midst of
\* an update(): there nvmf_ns_visible finds the namespace and does not raise.
THEOREM TheListIsServed == EntrySpec => []ListIsServed
  <1>1. EntryInv => ListIsServed
    <2> SUFFICES ASSUME EntryInv, NEW g \in Gateways
                 PROVE  /\ ServedAsListed(gw[g])
                        /\ ~troubled[g] => \A i \in Ids : gw[g].list[i] = None <=> gw[g].spdk[i] = None
      BY DEF ListIsServed
    <2>1. BaseInv /\ SecondInv
      BY DEF EntryInv
    <2>2. ServedAsListed(gw[g])
      BY <2>1 DEF BaseInv, AllServed
    <2>3. gw[g] \in GatewayStates /\ Now(g) \in Contents
      <3>1. CASE update[g] = None
        BY <2>1, <3>1, BaseIsGood, LocalFields DEF Now
      <3>2. CASE update[g] # None
        BY <2>1, <3>2, BaseIsGood, UnderWayIs DEF UnderWay, Now
      <3> QED
        BY <2>1, <3>1, <3>2, BaseIsGood
    <2>4. ASSUME ~troubled[g], NEW i \in Ids
          PROVE  gw[g].list[i] = None <=> gw[g].spdk[i] = None
      <3>1. Agrees(gw[g], i, Now(g)[i], drift) /\ Now(g)[i] \in Keys
        BY <2>1, <2>3, <2>4, KeyFields DEF SecondInv, FollowInv, Tracks
      <3>2. Now(g)[i].ns # None => gw[g].list[i] # None /\ gw[g].spdk[i] # None
        BY <2>3, <3>1, AgreesFields
      <3> QED
        BY <3>1, <3>2 DEF Agrees
    <2> QED
      BY <2>2, <2>4
  <1> QED
    BY <1>1, AlwaysEntry, PTL

\* The image a deletion trashes is one the OMAP has with the trash flag, although
\* the flag is read from the gateway's list (namespace_delete_safe).
THEOREM DeletionTrashes == EntrySpec => DeletionTrashesAsStored
  <1> DEFINE Stored == \A c \in Clients :
                 DeleteNamespace(c) /\ ~troubled[req[c].gw] /\ images'.trashed # images.trashed =>
                     \/ FoundNow(gw[req[c].gw], req[c].id) # req[c].found
                     \/ omap[req[c].id].ns # None /\ omap[req[c].id].ns.trash
  <1>1. ASSUME EntryInv, NEW c \in Clients, DeleteNamespace(c), ~troubled[req[c].gw],
               images'.trashed # images.trashed,
               FoundNow(gw[req[c].gw], req[c].id) = req[c].found
        PROVE  omap[req[c].id].ns # None /\ omap[req[c].id].ns.trash
    <2> DEFINE q == req[c]
               r == gw[q.gw]
    <2>1. BaseInv /\ SecondInv
      BY <1>1 DEF EntryInv
    <2>2. q # None /\ ~Behind(q.gw) /\ q.ask.op = "delete" /\ q.waiting
      BY <1>1 DEF DeleteNamespace, Locked
    <2>3. /\ q.id \in Ids /\ omap \in Contents /\ r \in GatewayStates /\ Tracks(r, omap, drift)
      BY <1>1, <2>1, <2>2, CurrentIs
    <2>4. q.found # None
      BY <2>1, <2>2, RequestIs DEF HasFound
    <2>5. Trashed(q)
      <3>1. images \in [trashed : SUBSET Insts, kept : SUBSET Insts]
        BY <2>1 DEF BaseInv, EntryTypeOK
      <3> QED
        BY <1>1, <3>1 DEF DeleteNamespace
    <2> HIDE DEF r
    <2>6. r.list[q.id] # None /\ r.list[q.id].trash
      BY <1>1, <2>4, <2>5 DEF Trashed, FoundNow, r
    <2>7. Agrees(r, q.id, omap[q.id], drift) /\ omap[q.id] \in Keys
      BY <2>3, KeyFields DEF Tracks
    <2>8. omap[q.id].ns # None
      BY <2>6, <2>7 DEF Agrees
    <2> QED
      BY <2>3, <2>6, <2>7, <2>8, AgreesFields
  <1>2. EntryInv => [Stored]_entryVars
    BY <1>1
  <1> QED
    BY <1>2, AlwaysEntry, PTL DEF DeletionTrashesAsStored

\* A gateway that dies between the writes of a deletion leaves no limits and no
\* hosts without their namespace (remove_namespace_from_state).
THEOREM NoKeysAreOrphaned == EntrySpec => NoOrphanedKeys
  <1> DEFINE Left == \A c \in Clients :
                 CrashInDelete(c) /\ ~troubled[req[c].gw] /\ ~Outdated(req[c])
                 /\ "hosts" \notin drift =>
                     LET k == omap'[req[c].id] IN k.ns = None => k = NoKeys
  <1>1. ASSUME EntryInv, NEW c \in Clients, CrashInDelete(c), ~troubled[req[c].gw],
               ~Outdated(req[c]), "hosts" \notin drift, omap'[req[c].id].ns = None
        PROVE  omap'[req[c].id] = NoKeys
    <2> DEFINE q == req[c]
               r == gw[q.gw]
    <2>1. BaseInv /\ SecondInv
      BY <1>1 DEF EntryInv
    <2>2. /\ q # None /\ ~Behind(q.gw) /\ q.ask.op = "delete"
          /\ omap' \in Unfinished(q.gw, q.id)
      BY <1>1 DEF CrashInDelete, Locked
    <2>3. /\ q.id \in Ids /\ omap \in Contents /\ r \in GatewayStates /\ Tracks(r, omap, drift)
      BY <1>1, <2>1, <2>2, CurrentIs
    <2>4. r.list[q.id] # None
      BY <1>1, <2>2 DEF Outdated, Refused
    <2> HIDE DEF r
    <2>5. Agrees(r, q.id, omap[q.id], drift) /\ omap[q.id] \in Keys
      BY <2>3, KeyFields DEF Tracks
    <2>6. omap[q.id].ns # None
      BY <2>4, <2>5 DEF Agrees
    <2>7. r.list[q.id].hosts = omap[q.id].hosts
      BY <1>1, <2>3, <2>5, <2>6, AgreesFields
    <2>8. HostsOf(q.gw, q.id) = omap[q.id].hosts
      BY <2>4, <2>7 DEF HostsOf, r
    <2>9. omap' \in Contents /\ omap'[q.id].qos = NoLimits /\ omap'[q.id].hosts = {}
      BY <1>1, <2>2, <2>3, <2>6, <2>8, UnfinishedIs
    <2>10. omap'[q.id] = Keyed(None, NoLimits, {})
      BY <1>1, <2>3, <2>9, KeyFields
    <2> QED
      BY <2>10 DEF Keyed, NoKeys
  <1>2. EntryInv => [Left]_entryVars
    BY <1>1
  <1> QED
    BY <1>2, AlwaysEntry, PTL DEF NoOrphanedKeys

=============================================================================

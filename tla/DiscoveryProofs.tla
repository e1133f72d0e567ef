--------------------------- MODULE DiscoveryProofs ---------------------------
(***************************************************************************)
(* Proofs about Discovery: the types, the log pages and the events, for    *)
(* any number of hosts, connections and OMAP entries.                      *)
(***************************************************************************)
EXTENDS Discovery, FiniteSetTheorems, TLAPS

(***************************************************************************)
(* Records, lists and connections                                          *)
(***************************************************************************)
\* what the OMAP lets a host use is a list
LEMMA RecordsType ==
    ASSUME NEW es \in SUBSET Entries, NEW nqn
    PROVE  Records(es, nqn) \in Lists
  BY DEF Records, Lists

\* a list is finite
LEMMA ListSize ==
    ASSUME NEW list \in Lists
    PROVE  /\ Cardinality(list) \in Nat
           /\ list # {} => Cardinality(list) >= 1
  <1>1. IsFiniteSet(Entries \X Entries)
    BY DiscoveryFinite, FS_Product
  <1>2. list \subseteq Entries \X Entries
    BY DEF Lists
  <1>3. IsFiniteSet(list)
    BY <1>1, <1>2, FS_Subset
  <1> QED
    BY <1>3, FS_CardinalityType, FS_EmptySet

\* the fields of a connection
LEMMA ConnectionFields ==
    ASSUME NEW c \in Connections
    PROVE  /\ c.gen \in Nat /\ c.nqn \in Hosts \cup {None} /\ c.link \in {"up", "eof", "lost"}
           /\ c.cc \in {"off", "on", "shut"} /\ c.kato \in BOOLEAN /\ c.late \in BOOLEAN
           /\ c.async \in BOOLEAN /\ c.cmd \in Cmds \cup {None} /\ c.list \in Lists
           /\ c.page \in Lists \cup {None} /\ c.unsent \in Int
           /\ HeaderBlocks = 0 => c.unsent \in Nat
           /\ c # None
  <1>1. c # None
    BY DiscoveryNone
  <1>2. c.unsent \in IF HeaderBlocks = 0 THEN Nat ELSE Int
    BY DEF Connections
  <1>3. c.unsent \in Int /\ (HeaderBlocks = 0 => c.unsent \in Nat)
    BY <1>2
  <1> QED
    BY <1>1, <1>3 DEF Connections

\* the fields of what a host knows
LEMMA HostFields ==
    ASSUME NEW s \in HostStates
    PROVE  /\ s.fd \in Fds /\ s.armed \in SUBSET Cmds /\ s.read \in Reads \cup {None}
           /\ s.short \in BOOLEAN /\ s # None
           /\ s.read # None => s.read.numrec \in Nat /\ s.read.next \in Nat
  <1>1. s # None
    BY DiscoveryNone
  <1> QED
    BY <1>1 DEF HostStates, Reads

\* the late flag is its own
LEMMA LateFields ==
    ASSUME NEW c \in Connections, NEW late \in BOOLEAN
    PROVE  /\ [c EXCEPT !.late = late] \in Connections
           /\ [c EXCEPT !.late = late].gen = c.gen /\ [c EXCEPT !.late = late].nqn = c.nqn
           /\ [c EXCEPT !.late = late].link = c.link /\ [c EXCEPT !.late = late].cc = c.cc
           /\ [c EXCEPT !.late = late].async = c.async /\ [c EXCEPT !.late = late].cmd = c.cmd
           /\ [c EXCEPT !.late = late].list = c.list /\ [c EXCEPT !.late = late].page = c.page
           /\ [c EXCEPT !.late = late].unsent = c.unsent
  BY DEF Connections

\* The list and the page of a connection asked for some blocks.
LEMMA AskedFields ==
    ASSUME DiscoveryTypeOK, NEW c \in Connections, NEW blocks \in Int
    PROVE  LET a == Asked(c, blocks)
           IN  /\ a \in Connections
               /\ a.list = IF c.list = {} THEN Records(omap, c.nqn) ELSE c.list
               /\ c.unsent = 0 /\ blocks > 0 =>
                     a.page = a.list /\ a.unsent = Cardinality(a.list) + 1
               /\ ~(c.unsent = 0 /\ blocks > 0) => a.page = c.page /\ a.unsent = c.unsent
               /\ a.gen = c.gen /\ a.nqn = c.nqn /\ a.link = c.link /\ a.cc = c.cc
               /\ a.async = c.async /\ a.cmd = c.cmd
  <1> DEFINE w == WithList(c)
             a == WithPage(w, blocks)
             list == IF c.list = {} THEN Records(omap, c.nqn) ELSE c.list
  <1>1. list \in Lists /\ Cardinality(list) \in Nat
    BY RecordsType, ConnectionFields, ListSize DEF DiscoveryTypeOK
  <1> HIDE DEF list
  <1>2. w = [c EXCEPT !.list = list]
    BY DEF WithList, list, Connections
  <1>3. /\ w \in Connections /\ w.list = list /\ w.page = c.page /\ w.unsent = c.unsent
        /\ w.gen = c.gen /\ w.nqn = c.nqn /\ w.link = c.link /\ w.cc = c.cc
        /\ w.async = c.async /\ w.cmd = c.cmd
    BY <1>1, <1>2 DEF Connections
  <1> HIDE DEF w
  <1>4. CASE w.unsent = 0 /\ blocks > 0
    <2>1. a = [w EXCEPT !.page = w.list, !.unsent = Cardinality(w.list) + 1]
      BY <1>4 DEF WithPage
    <2>2. Cardinality(w.list) + 1 \in IF HeaderBlocks = 0 THEN Nat ELSE Int
      BY <1>1, <1>3
    <2>3. /\ a \in Connections /\ a.list = list /\ a.page = list
          /\ a.unsent = Cardinality(list) + 1
          /\ a.gen = w.gen /\ a.nqn = w.nqn /\ a.link = w.link /\ a.cc = w.cc
          /\ a.async = w.async /\ a.cmd = w.cmd
      BY <1>1, <1>3, <2>1, <2>2 DEF Connections
    <2> QED
      BY <1>3, <1>4, <2>3 DEF Asked, w, list
  <1>5. CASE ~(w.unsent = 0 /\ blocks > 0)
    BY <1>3, <1>5 DEF Asked, WithPage, w, list
  <1> QED
    BY <1>4, <1>5

\* What is left of a page after some blocks are sent.
LEMMA SentFields ==
    ASSUME NEW c \in Connections, NEW blocks \in Int, HeaderBlocks = 0 => blocks <= c.unsent
    PROVE  LET s == Sent(c, blocks)
           IN  /\ s \in Connections
               /\ s.unsent = c.unsent - blocks
               /\ c.unsent = blocks => s.page = None /\ s.list = {}
               /\ c.unsent # blocks => s.page = c.page /\ s.list = c.list
               /\ s.gen = c.gen /\ s.nqn = c.nqn /\ s.link = c.link /\ s.cc = c.cc
               /\ s.async = c.async /\ s.cmd = c.cmd
  <1> DEFINE left == c.unsent - blocks
             s == Sent(c, blocks)
  <1>1. left \in Int /\ (HeaderBlocks = 0 => left \in Nat) /\ (left = 0 <=> c.unsent = blocks)
    BY ConnectionFields
  <1> HIDE DEF left
  <1>2. CASE left = 0
    <2>1. s = [c EXCEPT !.unsent = 0, !.page = None, !.list = {}]
      BY <1>2 DEF Sent, left
    <2>2. {} \in Lists /\ 0 \in IF HeaderBlocks = 0 THEN Nat ELSE Int
      BY DEF Lists
    <2>3. /\ s \in Connections /\ s.unsent = 0 /\ s.page = None /\ s.list = {}
          /\ s.gen = c.gen /\ s.nqn = c.nqn /\ s.link = c.link /\ s.cc = c.cc
          /\ s.async = c.async /\ s.cmd = c.cmd
      BY <2>1, <2>2 DEF Connections
    <2> QED
      BY <1>1, <1>2, <2>3 DEF left
  <1>3. CASE left # 0
    <2>1. s = [c EXCEPT !.unsent = left]
      BY <1>3 DEF Sent, left
    <2>2. /\ s \in Connections /\ s.unsent = left /\ s.page = c.page /\ s.list = c.list
          /\ s.gen = c.gen /\ s.nqn = c.nqn /\ s.link = c.link /\ s.cc = c.cc
          /\ s.async = c.async /\ s.cmd = c.cmd
      BY <1>1, <2>1 DEF Connections
    <2> QED
      BY <1>1, <1>3, <2>2 DEF left
  <1> QED
    BY <1>2, <1>3

(***************************************************************************)
(* The invariant: what a host knows fits the connection it has.            *)
(***************************************************************************)
\* Between the parts of a page the connection keeps the page and the list it
\* was made of, and what is left of it is what the host has still to ask for.
Reading(s, c, lists) ==
    /\ ~s.short
    /\ c.list # {} => c.list \in lists
    /\ s.read = None => c.list = {}
    /\ s.read # None =>
          c.list # {} /\ s.read.numrec = Cardinality(c.list) /\ s.read.next <= s.read.numrec
    /\ IF s.read # None /\ s.read.next > 0
       THEN c.page = c.list /\ c.unsent = s.read.numrec + 1 - s.read.next
       ELSE c.page = None /\ c.unsent = 0

Fits(h, s, c, es, lists) ==
    /\ c.link = "up"
    /\ c.nqn \in {None, h} /\ (c.cc # "off" => c.nqn = h)
    /\ Records(es, h) \in lists
    /\ HeaderBlocks = 0 => Reading(s, c, lists)

\* the update thread has answered the command of the connection at f and has
\* still to say so
Answering(f) == Looked /\ update.sent /\ update.look.fd = f

HostAt(h) ==
    host[h] # None =>
        /\ conn[host[h].fd] # None
        /\ Fits(h, host[h], conn[host[h].fd], omap, seen[h])
        /\ conn[host[h].fd].async =>
              conn[host[h].fd].cmd \in host[h].armed \/ Answering(host[h].fd)

\* A connection that is opened is not one the update thread knows of, and the
\* one it is about to answer has a command.
GenerationInv ==
    /\ \A f \in Fds : conn[f] # None => conn[f].gen <= gens
    /\ Running =>
          /\ \A k \in update.todo : k.gen <= gens
          /\ update.look # None =>
                /\ update.look.gen <= gens
                /\ ~update.sent /\ conn[update.look.fd] # None
                      /\ conn[update.look.fd].gen = update.look.gen
                      => conn[update.look.fd].async

Typed ==
    /\ omap \in SUBSET Entries
    /\ local \in SUBSET Entries
    /\ conn \in [Fds -> Connections \cup {None}]
    /\ gens \in Nat /\ changes \in Nat /\ faults \in Nat
    /\ alive \in BOOLEAN
    /\ host \in [Hosts -> HostStates \cup {None}]
    /\ timer \in Timers \cup {Dead}
    /\ update \in Updates \cup {None, Dead}
    /\ seen \in [Hosts -> SUBSET Lists]

Distinct ==
    \A h, k \in Hosts : host[h] # None /\ host[k] # None /\ host[h].fd = host[k].fd => h = k

ServiceInv == Typed /\ Distinct /\ GenerationInv /\ \A h \in Hosts : HostAt(h)

LEMMA ServiceTypeOK == ServiceInv => DiscoveryTypeOK
  BY DEF ServiceInv, Typed, HostAt, Fits, DiscoveryTypeOK

\* what is known of a host with a connection
LEMMA Connected ==
    ASSUME ServiceInv, NEW h \in Hosts, host[h] # None
    PROVE  /\ host[h] \in HostStates /\ host[h].fd \in Fds
           /\ Mine(h) \in Connections /\ Mine(h).link = "up"
           /\ Fits(h, host[h], Mine(h), omap, seen[h])
           /\ Mine(h).async => Mine(h).cmd \in host[h].armed \/ Answering(host[h].fd)
           /\ seen[h] \in SUBSET Lists
  <1>1. host[h] \in HostStates /\ host[h].fd \in Fds
    BY HostFields DEF ServiceInv, Typed
  <1>2. conn[host[h].fd] # None /\ conn[host[h].fd] \in Connections
    BY <1>1 DEF ServiceInv, Typed, HostAt
  <1> QED
    BY <1>1, <1>2 DEF ServiceInv, Typed, HostAt, Fits, Mine

\* The fields a fit depends on.
LEMMA FitsSame ==
    ASSUME NEW h, NEW s, NEW c, NEW es, NEW lists, Fits(h, s, c, es, lists),
           NEW d, d.link = c.link, d.nqn = c.nqn, d.cc = c.cc, d.list = c.list,
           d.page = c.page, d.unsent = c.unsent,
           NEW t, t.short = s.short, t.read = s.read
    PROVE  Fits(h, t, d, es, lists)
  BY DEF Fits, Reading

\* What a step of one host leaves of the others.
LEMMA OtherHosts ==
    ASSUME NEW k \in Hosts, HostAt(k), host'[k] = host[k], seen'[k] = seen[k], omap' = omap,
           host[k] # None => conn'[host[k].fd] = conn[host[k].fd], update' = update
    PROVE  HostAt(k)'
  BY DEF HostAt, Answering, Looked, Running

\* The main loop handles a command of a host.
LEMMA HandlesKept ==
    ASSUME ServiceInv, NEW h \in Hosts, NEW c \in Connections, Handles(h, c),
           NEW s \in HostStates, host' = [host EXCEPT ![h] = s], s.fd = host[h].fd,
           NEW lists \in SUBSET Lists, seen' = [seen EXCEPT ![h] = lists],
           Fits(h, s, c, omap, lists), c.gen = Mine(h).gen, Mine(h).async => c.async,
           c.async => c.cmd \in s.armed \/ Answering(s.fd)
    PROVE  ServiceInv'
  <1> DEFINE f == host[h].fd
             d == [c EXCEPT !.late = FALSE]
  <1>1. host[h] # None /\ conn' = [conn EXCEPT ![f] = d]
        /\ omap' = omap /\ gens' = gens /\ alive' = alive /\ timer' = timer /\ local' = local
        /\ update' = update /\ changes' = changes /\ faults' = faults
    BY DEF Handles, LeaveTheRest
  <1>2. f \in Fds /\ conn[f] # None /\ conn[f] \in Connections
    BY <1>1, Connected, ConnectionFields DEF Mine
  <1>3. /\ d \in Connections /\ d.gen = c.gen /\ d.nqn = c.nqn /\ d.link = c.link /\ d.cc = c.cc
        /\ d.async = c.async /\ d.cmd = c.cmd /\ d.list = c.list /\ d.page = c.page
        /\ d.unsent = c.unsent
    BY LateFields
  <1>4. d # None /\ s # None
    BY <1>3, ConnectionFields, HostFields
  <1> HIDE DEF d
  <1>5. /\ conn'[f] = d /\ \A k \in Fds : k # f => conn'[k] = conn[k]
        /\ host'[h] = s /\ \A k \in Hosts : k # h => host'[k] = host[k]
        /\ seen'[h] = lists /\ \A k \in Hosts : k # h => seen'[k] = seen[k]
    BY <1>1, <1>2 DEF ServiceInv, Typed
  <1>6. Typed'
    BY <1>1, <1>2, <1>3 DEF ServiceInv, Typed
  <1>7. Distinct'
    BY <1>1, <1>5 DEF ServiceInv, Distinct
  <1>8. GenerationInv'
    <2>1. d.gen = conn[f].gen /\ (conn[f].async => d.async)
      BY <1>3 DEF Mine
    <2>2. \A k \in Fds : conn'[k] # None =>
             conn[k] # None /\ conn'[k].gen = conn[k].gen /\ (conn[k].async => conn'[k].async)
      BY <1>2, <1>5, <2>1
    <2>3. Running /\ update.look # None => update.look.fd \in Fds
      BY DEF ServiceInv, Typed, Updates, Keys, Running
    <2> QED
      BY <1>1, <2>2, <2>3 DEF ServiceInv, GenerationInv, Running
  <1>9. ASSUME NEW k \in Hosts, k # h
        PROVE  HostAt(k)'
    <2>1. host[k] # None => host[k].fd \in Fds /\ host[k].fd # f
      BY <1>1, <1>9, Connected DEF ServiceInv, Distinct
    <2> QED
      BY <1>1, <1>5, <1>9, <2>1, OtherHosts DEF ServiceInv
  <1>10. HostAt(h)'
    <2>1. Fits(h, s, d, omap, lists)
      BY <1>3, FitsSame
    <2>2. d.async => d.cmd \in s.armed \/ Answering(s.fd)
      BY <1>3
    <2>3. Answering(f)' = Answering(f)
      BY <1>1 DEF Answering, Looked, Running
    <2> QED
      BY <1>1, <1>4, <1>5, <2>1, <2>2, <2>3 DEF HostAt
  <1> QED
    BY <1>6, <1>7, <1>8, <1>9, <1>10 DEF ServiceInv

(***************************************************************************)
(* The commands                                                            *)
(***************************************************************************)
\* A command that leaves what the host knows.
LEMMA HandlesSame ==
    ASSUME ServiceInv, NEW h \in Hosts, NEW c \in Connections, Handles(h, c),
           UNCHANGED <<host, seen>>, c.gen = Mine(h).gen, c.async = Mine(h).async,
           c.cmd = Mine(h).cmd, c.link = Mine(h).link, c.list = Mine(h).list,
           c.page = Mine(h).page, c.unsent = Mine(h).unsent,
           c.nqn \in {None, h}, c.cc # "off" => c.nqn = h
    PROVE  ServiceInv'
  <1>1. host[h] # None
    BY DEF Handles
  <1>2. /\ host[h] \in HostStates /\ Fits(h, host[h], Mine(h), omap, seen[h])
        /\ Mine(h).async => Mine(h).cmd \in host[h].armed \/ Answering(host[h].fd)
        /\ seen[h] \in SUBSET Lists
    BY <1>1, Connected
  <1>3. host' = [host EXCEPT ![h] = host[h]] /\ seen' = [seen EXCEPT ![h] = seen[h]]
    BY DEF ServiceInv, Typed
  <1>4. Fits(h, host[h], c, omap, seen[h])
    BY <1>2 DEF Fits, Reading
  <1> QED
    BY <1>2, <1>3, <1>4, HandlesKept

LEMMA ConnectKept ==
    ASSUME ServiceInv, NEW h \in Hosts, NEW asked \in BOOLEAN, Connect(h, asked)
    PROVE  ServiceInv'
  <1> DEFINE m == Mine(h)
             c == [m EXCEPT !.nqn = h, !.kato = TRUE]
  <1>1. host[h] # None /\ m.nqn = None /\ Handles(h, c) /\ UNCHANGED <<host, seen>>
    BY DEF Connect
  <1>2. m \in Connections /\ Fits(h, host[h], m, omap, seen[h])
    BY <1>1, Connected
  <1> HIDE DEF m
  <1>3. /\ c \in Connections /\ c.nqn = h /\ c.gen = m.gen /\ c.link = m.link /\ c.cc = m.cc
        /\ c.async = m.async /\ c.cmd = m.cmd /\ c.list = m.list /\ c.page = m.page
        /\ c.unsent = m.unsent
    BY <1>2 DEF Connections
  <1> HIDE DEF c
  <1> QED
    BY <1>1, <1>3, HandlesSame DEF m

LEMMA PropertySetKept ==
    ASSUME ServiceInv, NEW h \in Hosts, NEW cc \in {"on", "shut"}, PropertySet(h, cc)
    PROVE  ServiceInv'
  <1> DEFINE m == Mine(h)
             c == [m EXCEPT !.cc = cc]
  <1>1. host[h] # None /\ m.nqn = h /\ Handles(h, c) /\ UNCHANGED <<host, seen>>
    BY DEF PropertySet
  <1>2. m \in Connections
    BY <1>1, Connected
  <1> HIDE DEF m
  <1>3. /\ c \in Connections /\ c.nqn = m.nqn /\ c.gen = m.gen /\ c.link = m.link
        /\ c.async = m.async /\ c.cmd = m.cmd /\ c.list = m.list /\ c.page = m.page
        /\ c.unsent = m.unsent
    BY <1>2 DEF Connections
  <1> HIDE DEF c
  <1> QED
    BY <1>1, <1>3, HandlesSame DEF m

\* a command that changes nothing of the connection
LEMMA AnswerKept ==
    ASSUME ServiceInv, NEW h \in Hosts, Handles(h, Mine(h)), UNCHANGED <<host, seen>>
    PROVE  ServiceInv'
  <1>1. host[h] # None
    BY DEF Handles
  <1>2. Mine(h) \in Connections /\ Fits(h, host[h], Mine(h), omap, seen[h])
    BY <1>1, Connected
  <1> QED
    BY <1>2, HandlesSame DEF Fits

LEMMA StoreAsyncKept ==
    ASSUME ServiceInv, NEW h \in Hosts, NEW k \in Cmds, StoreAsync(h, k)
    PROVE  ServiceInv'
  <1> DEFINE m == Mine(h)
             c == [m EXCEPT !.async = TRUE, !.cmd = k]
             s == [host[h] EXCEPT !.armed = @ \cup {k}]
  <1>1. host[h] # None /\ Handles(h, c) /\ host' = [host EXCEPT ![h] = s] /\ seen' = seen
    BY DEF StoreAsync, Enabled
  <1>2. /\ m \in Connections /\ Fits(h, host[h], m, omap, seen[h]) /\ host[h] \in HostStates
        /\ seen[h] \in SUBSET Lists
    BY <1>1, Connected
  <1> HIDE DEF m
  <1>3. /\ c \in Connections /\ c.nqn = m.nqn /\ c.gen = m.gen /\ c.link = m.link /\ c.cc = m.cc
        /\ c.async /\ c.cmd = k /\ c.list = m.list /\ c.page = m.page /\ c.unsent = m.unsent
    BY <1>2 DEF Connections
  <1>4. /\ s \in HostStates /\ s.fd = host[h].fd /\ s.short = host[h].short
        /\ s.read = host[h].read /\ k \in s.armed
    BY <1>2 DEF HostStates
  <1> HIDE DEF c, s
  <1>5. Fits(h, s, c, omap, seen[h])
    BY <1>2, <1>3, <1>4, FitsSame
  <1>6. seen' = [seen EXCEPT ![h] = seen[h]]
    BY <1>1 DEF ServiceInv, Typed
  <1> QED
    BY <1>1, <1>2, <1>3, <1>4, <1>5, <1>6, HandlesKept DEF m

\* The host begins to read: the connection has a list, and with a header of 16
\* bytes no page yet.
LEMMA ReadHeaderKept ==
    ASSUME ServiceInv, NEW h \in Hosts, ReadHeader(h)
    PROVE  ServiceInv'
  <1> DEFINE m == Mine(h)
             c == Asked(m, HeaderBlocks)
             numrec == Cardinality(c.list)
             read == IF numrec = 0 THEN None ELSE [numrec |-> numrec, next |-> HeaderBlocks]
             s == [host[h] EXCEPT !.read = read]
  <1>1. /\ host[h] # None /\ m.cc = "on" /\ ~host[h].short
        /\ host[h].read # None => host[h].read.next = HeaderBlocks
        /\ Handles(h, c) /\ host' = [host EXCEPT ![h] = s] /\ seen' = seen
    BY DEF ReadHeader, Enabled
  <1>2. /\ m \in Connections /\ Fits(h, host[h], m, omap, seen[h]) /\ host[h] \in HostStates
        /\ m.async => m.cmd \in host[h].armed \/ Answering(host[h].fd)
        /\ seen[h] \in SUBSET Lists
    BY <1>1, Connected
  <1>3. m.nqn = h /\ HeaderBlocks \in {0, 1}
    BY <1>1, <1>2, DiscoveryReads DEF Fits
  <1> HIDE DEF m
  <1>4. /\ c \in Connections
        /\ c.list = IF m.list = {} THEN Records(omap, h) ELSE m.list
        /\ HeaderBlocks = 0 => c.page = m.page /\ c.unsent = m.unsent
        /\ c.gen = m.gen /\ c.nqn = m.nqn /\ c.link = m.link /\ c.cc = m.cc
        /\ c.async = m.async /\ c.cmd = m.cmd
    <2>1. HeaderBlocks \in Int /\ (HeaderBlocks = 0 => ~(HeaderBlocks > 0))
      BY <1>3
    <2> QED
      BY <1>2, <1>3, <2>1, AskedFields, ServiceTypeOK
  <1> HIDE DEF c
  <1>5. /\ numrec \in Nat /\ (c.list # {} => numrec >= 1) /\ (c.list = {} => numrec = 0)
    BY <1>4, ConnectionFields, ListSize, FS_EmptySet
  <1>6. read \in Reads \cup {None} /\ (read = None <=> numrec = 0)
    BY <1>3, <1>5, DiscoveryNone DEF Reads
  <1>7. /\ s \in HostStates /\ s.fd = host[h].fd /\ s.armed = host[h].armed
        /\ s.short = host[h].short /\ s.read = read
    <2> HIDE DEF read
    <2> QED
      BY <1>2, <1>6 DEF HostStates
  <1> HIDE DEF s
  <1>8. ASSUME HeaderBlocks = 0
        PROVE  Reading(s, c, seen[h])
    <2>1. Reading(host[h], m, seen[h]) /\ Records(omap, h) \in seen[h]
      BY <1>2, <1>8 DEF Fits
    <2>2. c.list # {} => c.list \in seen[h]
      BY <1>4, <2>1 DEF Reading
    <2>3. m.page = None /\ m.unsent = 0
      BY <1>1, <1>8, <2>1 DEF Reading
    <2>4. read # None => read.numrec = numrec /\ read.next = 0
      BY <1>6, <1>8
    <2> QED
      BY <1>1, <1>4, <1>5, <1>6, <1>7, <1>8, <2>2, <2>3, <2>4 DEF Reading
  <1>9. Fits(h, s, c, omap, seen[h])
    BY <1>2, <1>3, <1>4, <1>8 DEF Fits
  <1>10. seen' = [seen EXCEPT ![h] = seen[h]]
    BY <1>1 DEF ServiceInv, Typed
  <1> QED
    BY <1>1, <1>2, <1>4, <1>7, <1>9, <1>10, HandlesKept DEF m

\* What a host that reads on with headers of 16 bytes finds: the page is that
\* of the list its header told of, whatever the OMAP holds now.
LEMMA PageOfHeader ==
    ASSUME ServiceInv, HeaderBlocks = 0, NEW h \in Hosts, Enabled(h), host[h].read # None,
           NEW blocks \in Int, blocks > 0
    PROVE  /\ Mine(h).list \in seen[h] /\ Mine(h).list # None
           /\ host[h].read.numrec = Cardinality(Mine(h).list)
           /\ host[h].read.next <= host[h].read.numrec /\ ~host[h].short
           /\ Asked(Mine(h), blocks).list = Mine(h).list
           /\ Asked(Mine(h), blocks).page = Mine(h).list
           /\ Asked(Mine(h), blocks).unsent = host[h].read.numrec + 1 - host[h].read.next
  <1> DEFINE m == Mine(h)
             r == host[h].read
             c == Asked(m, blocks)
  <1>1. /\ m \in Connections /\ Reading(host[h], m, seen[h]) /\ host[h] \in HostStates
    BY Connected DEF Enabled, Fits
  <1>2. r.numrec \in Nat /\ r.next \in Nat
    BY <1>1, HostFields
  <1>3. /\ m.list # {} /\ m.list \in seen[h] /\ r.numrec = Cardinality(m.list)
        /\ r.next <= r.numrec /\ ~host[h].short
        /\ r.next > 0 => m.page = m.list /\ m.unsent = r.numrec + 1 - r.next
        /\ r.next = 0 => m.unsent = 0
    BY <1>1, <1>2 DEF Reading
  <1>4. m.list # None
    BY <1>1, ConnectionFields, DiscoveryNone
  <1>5. /\ c.list = IF m.list = {} THEN Records(omap, m.nqn) ELSE m.list
        /\ m.unsent = 0 /\ blocks > 0 => c.page = c.list /\ c.unsent = Cardinality(c.list) + 1
        /\ ~(m.unsent = 0 /\ blocks > 0) => c.page = m.page /\ c.unsent = m.unsent
    BY <1>1, AskedFields, ServiceTypeOK
  <1> HIDE DEF c, m
  <1>6. c.list = m.list
    BY <1>3, <1>5
  <1>7. CASE r.next = 0
    BY <1>2, <1>3, <1>4, <1>5, <1>6, <1>7 DEF c, m
  <1>8. CASE r.next > 0
    <2>1. m.unsent # 0
      BY <1>2, <1>3, <1>8
    <2> QED
      BY <1>3, <1>4, <1>5, <1>6, <1>8, <2>1 DEF c, m
  <1> QED
    BY <1>2, <1>7, <1>8

LEMMA ReadPartKept ==
    ASSUME ServiceInv, NEW h \in Hosts, ReadPart(h)
    PROVE  ServiceInv'
  <1> DEFINE m == Mine(h)
             r == host[h].read
             rest == r.numrec + 1 - r.next
             blocks == IF rest < Chunk THEN rest ELSE Chunk
             c == Asked(m, blocks)
             d == Sent(c, blocks)
             whole == r.next + blocks <= Size(c)
             ends == r.next + blocks = r.numrec + 1
             read == IF ends THEN None ELSE [r EXCEPT !.next = @ + blocks]
             s == [host[h] EXCEPT !.short = ~whole, !.read = read]
             lists == IF ends THEN {Records(omap, h)} ELSE seen[h]
  <1>1. /\ host[h] # None /\ m.cc = "on" /\ Enabled(h) /\ r # None /\ Handles(h, d)
        /\ host' = [host EXCEPT ![h] = s]
        /\ seen' = IF ends THEN [seen EXCEPT ![h] = {Records(omap, h)}] ELSE seen
    BY DEF ReadPart, Enabled
  <1>2. /\ m \in Connections /\ Fits(h, host[h], m, omap, seen[h]) /\ host[h] \in HostStates
        /\ m.async => m.cmd \in host[h].armed \/ Answering(host[h].fd)
        /\ seen[h] \in SUBSET Lists
    BY <1>1, Connected
  <1>3. /\ r.numrec \in Nat /\ r.next \in Nat /\ r \in Reads /\ Chunk \in Nat /\ Chunk >= 2
        /\ m.nqn = h
    BY <1>1, <1>2, HostFields, DiscoveryReads DEF Fits
  <1>4. /\ blocks \in Int /\ rest \in Int /\ r.next + blocks \in Nat
        /\ (ends <=> blocks = rest) /\ blocks <= rest
        /\ (rest >= 1 => blocks > 0)
    BY <1>3
  <1> HIDE DEF blocks, m
  <1>5. /\ c \in Connections /\ c.gen = m.gen /\ c.nqn = m.nqn /\ c.link = m.link /\ c.cc = m.cc
        /\ c.async = m.async /\ c.cmd = m.cmd
    BY <1>2, <1>4, AskedFields, ServiceTypeOK
  <1>6. ASSUME HeaderBlocks = 0
        PROVE  /\ m.list \in seen[h] /\ m.list # None /\ ~host[h].short
               /\ r.numrec = Cardinality(m.list) /\ r.next <= r.numrec
               /\ c.list = m.list /\ c.page = m.list /\ c.unsent = rest /\ m.list # {}
    <2>1. r.next <= r.numrec /\ m.list # {}
      BY <1>1, <1>2, <1>6 DEF Fits, Reading
    <2>2. blocks > 0
      BY <1>3, <1>4, <2>1
    <2> QED
      BY <1>1, <1>4, <1>6, <2>1, <2>2, PageOfHeader DEF m
  <1> HIDE DEF c
  <1>7. /\ d \in Connections /\ d.unsent = c.unsent - blocks
        /\ c.unsent = blocks => d.page = None /\ d.list = {}
        /\ c.unsent # blocks => d.page = c.page /\ d.list = c.list
        /\ d.gen = m.gen /\ d.nqn = m.nqn /\ d.link = m.link /\ d.cc = m.cc
        /\ d.async = m.async /\ d.cmd = m.cmd
    <2>1. HeaderBlocks = 0 => blocks <= c.unsent
      BY <1>4, <1>6
    <2> QED
      BY <1>4, <1>5, <2>1, SentFields
  <1> HIDE DEF d
  <1>8. /\ read \in Reads \cup {None} /\ (read = None <=> ends)
        /\ ~ends => read.numrec = r.numrec /\ read.next = r.next + blocks
    BY <1>3, <1>4, DiscoveryNone DEF Reads
  <1>9. /\ s \in HostStates /\ s.fd = host[h].fd /\ s.armed = host[h].armed
        /\ s.short = ~whole /\ s.read = read
    <2> HIDE DEF read, whole
    <2>1. whole \in BOOLEAN
      BY DEF whole
    <2> QED
      BY <1>2, <1>8, <2>1 DEF HostStates
  <1>10. ASSUME HeaderBlocks = 0
         PROVE  Reading(s, d, lists)
    <2>1. Size(c) = r.numrec + 1
      BY <1>6, <1>10 DEF Size
    <2>2. whole
      BY <1>3, <1>4, <2>1
    <2>3. CASE ends
      <3>1. d.page = None /\ d.list = {} /\ d.unsent = 0 /\ s.read = None
        BY <1>4, <1>6, <1>7, <1>8, <1>9, <1>10, <2>3
      <3> QED
        BY <1>9, <2>2, <3>1 DEF Reading
    <2>4. CASE ~ends
      <3>1. c.unsent # blocks /\ c.unsent = rest
        BY <1>4, <1>6, <1>10, <2>4
      <3>2. d.page = m.list /\ d.list = m.list /\ d.unsent = rest - blocks
        BY <1>6, <1>7, <1>10, <3>1
      <3>3. /\ s.read # None /\ s.read.numrec = r.numrec /\ s.read.next = r.next + blocks
        BY <1>8, <1>9, <2>4
      <3>4. rest >= 1 /\ blocks < rest /\ blocks > 0
        BY <1>3, <1>4, <1>6, <1>10, <2>4
      <3>5. s.read.next > 0 /\ s.read.next <= s.read.numrec
        BY <1>3, <1>4, <3>3, <3>4
      <3>6. d.unsent = s.read.numrec + 1 - s.read.next
        BY <1>3, <1>4, <3>2, <3>3
      <3>7. lists = seen[h]
        BY <2>4
      <3> QED
        BY <1>6, <1>9, <1>10, <2>2, <3>2, <3>3, <3>5, <3>6, <3>7 DEF Reading
    <2> QED
      BY <2>3, <2>4
  <1>11. Fits(h, s, d, omap, lists)
    BY <1>2, <1>3, <1>7, <1>10 DEF Fits
  <1>12. lists \in SUBSET Lists /\ seen' = [seen EXCEPT ![h] = lists]
    BY <1>1, <1>2, RecordsType DEF ServiceInv, Typed
  <1> HIDE DEF lists, s
  <1> QED
    BY <1>1, <1>2, <1>7, <1>9, <1>11, <1>12, HandlesKept DEF m

(***************************************************************************)
(* The OMAP, and connections that come and go                              *)
(***************************************************************************)
\* What is written to the OMAP is one of the lists a host could have seen.
LEMMA ChangeKept ==
    ASSUME ServiceInv, NEW e \in Entries, Change(e)
    PROVE  ServiceInv'
  <1>1. /\ omap' \in SUBSET Entries /\ changes' = changes + 1
        /\ seen' = [h \in Hosts |-> IF host[h] = None THEN {}
                                   ELSE seen[h] \cup {Records(omap', h)}]
        /\ conn' = conn /\ gens' = gens /\ alive' = alive /\ host' = host /\ timer' = timer
        /\ local' = local /\ update' = update /\ faults' = faults
    BY DEF Change, ServiceInv, Typed
  <1>2. \A h \in Hosts : Records(omap', h) \in Lists
    BY <1>1, RecordsType
  <1>3. Typed'
    BY <1>1, <1>2 DEF ServiceInv, Typed
  <1>4. Distinct' /\ GenerationInv'
    BY <1>1 DEF ServiceInv, Distinct, GenerationInv, Running
  <1>5. ASSUME NEW h \in Hosts
        PROVE  HostAt(h)'
    <2>1. CASE host[h] = None
      BY <1>1, <2>1 DEF HostAt
    <2>2. CASE host[h] # None
      <3>1. seen'[h] = seen[h] \cup {Records(omap', h)}
        BY <1>1, <2>2
      <3>2. /\ conn[host[h].fd] # None /\ Fits(h, host[h], conn[host[h].fd], omap, seen[h])
            /\ conn[host[h].fd].async =>
                  conn[host[h].fd].cmd \in host[h].armed \/ Answering(host[h].fd)
        BY <2>2 DEF ServiceInv, HostAt
      <3>3. Fits(h, host[h], conn[host[h].fd], omap', seen'[h])
        BY <3>1, <3>2 DEF Fits, Reading
      <3>4. Answering(host[h].fd)' = Answering(host[h].fd)
        BY <1>1 DEF Answering, Looked, Running
      <3> QED
        BY <1>1, <3>2, <3>3, <3>4 DEF HostAt
    <2> QED
      BY <2>1, <2>2
  <1> QED
    BY <1>3, <1>4, <1>5 DEF ServiceInv

LEMMA AcceptKept ==
    ASSUME ServiceInv, NEW h \in Hosts, Accept(h)
    PROVE  ServiceInv'
  <1> DEFINE c == NewConnection(gens + 1)
             lists == {Records(omap, h)}
  <1>1. PICK f \in Fds \ Table :
           /\ conn' = [conn EXCEPT ![f] = NewConnection(gens + 1)]
           /\ host' = [host EXCEPT ![h] = [fd |-> f, armed |-> {}, read |-> None,
                                         short |-> FALSE]]
    BY DEF Accept
  <1> DEFINE s == [fd |-> f, armed |-> {}, read |-> None, short |-> FALSE]
  <1>2. /\ host[h] = None /\ gens' = gens + 1 /\ seen' = [seen EXCEPT ![h] = lists]
        /\ omap' = omap /\ alive' = alive /\ timer' = timer /\ local' = local
        /\ update' = update /\ changes' = changes /\ faults' = faults
    BY DEF Accept
  <1>3. f \in Fds /\ conn[f] = None /\ gens \in Nat
    BY DEF Table, ServiceInv, Typed
  <1>4. c \in Connections
    <2>1. gens + 1 \in Nat /\ {} \in Lists /\ 0 \in IF HeaderBlocks = 0 THEN Nat ELSE Int
      BY <1>3 DEF Lists
    <2> QED
      BY <2>1 DEF NewConnection, Connections
  <1>5. /\ c.gen = gens + 1 /\ c.link = "up" /\ c.nqn = None /\ c.cc = "off" /\ ~c.async
        /\ c.list = {} /\ c.page = None /\ c.unsent = 0
    BY DEF NewConnection
  <1>6. s \in HostStates /\ s.fd = f /\ s.read = None /\ ~s.short
    BY <1>3 DEF HostStates
  <1>7. lists \in SUBSET Lists
    BY RecordsType DEF ServiceInv, Typed
  <1>8. c # None /\ s # None
    BY <1>4, <1>6, ConnectionFields, HostFields
  <1> HIDE DEF c, s
  <1>9. /\ conn'[f] = c /\ \A k \in Fds : k # f => conn'[k] = conn[k]
        /\ host'[h] = s /\ \A k \in Hosts : k # h => host'[k] = host[k]
        /\ seen'[h] = lists /\ \A k \in Hosts : k # h => seen'[k] = seen[k]
    BY <1>1, <1>2, <1>3 DEF ServiceInv, Typed, c, s
  <1>10. Typed'
    BY <1>1, <1>2, <1>3, <1>4, <1>6, <1>7 DEF ServiceInv, Typed, c, s
  <1>11. \A k \in Hosts : host[k] # None => host[k].fd \in Fds /\ host[k].fd # f
    BY <1>3, Connected, ConnectionFields DEF Mine
  <1>12. Distinct'
    BY <1>6, <1>9, <1>11 DEF ServiceInv, Distinct
  <1>13. GenerationInv'
    <2>1. \A k \in Fds : conn'[k] # None => conn'[k].gen <= gens'
      <3> SUFFICES ASSUME NEW k \in Fds, conn'[k] # None PROVE conn'[k].gen <= gens'
        OBVIOUS
      <3>1. CASE k = f
        BY <1>2, <1>3, <1>5, <1>9, <3>1
      <3>2. CASE k # f
        <4>1. conn'[k] = conn[k] /\ conn[k] \in Connections
          BY <1>9, <3>2 DEF ServiceInv, Typed
        <4>2. conn[k].gen \in Nat /\ conn[k].gen <= gens
          BY <4>1, ConnectionFields DEF ServiceInv, GenerationInv
        <4> QED
          BY <1>2, <1>3, <4>1, <4>2
      <3> QED
        BY <3>1, <3>2
    <2>2. ASSUME Running
          PROVE  /\ \A k \in update.todo : k.gen <= gens'
                 /\ update.look # None =>
                       /\ update.look.gen <= gens'
                       /\ ~update.sent /\ conn'[update.look.fd] # None
                             /\ conn'[update.look.fd].gen = update.look.gen
                             => conn'[update.look.fd].async
      <3>1. /\ \A k \in update.todo : k.gen \in Nat
            /\ update.look # None => update.look.gen \in Nat /\ update.look.fd \in Fds
        BY <2>2 DEF ServiceInv, Typed, Updates, Keys, Running
      <3>2. \A k \in update.todo : k.gen <= gens
        BY <2>2 DEF ServiceInv, GenerationInv
      <3>3. update.look # None =>
               /\ update.look.gen <= gens
               /\ ~update.sent /\ conn[update.look.fd] # None
                     /\ conn[update.look.fd].gen = update.look.gen
                     => conn[update.look.fd].async
        BY <2>2 DEF ServiceInv, GenerationInv
      <3>4. update.look # None => update.look.gen <= gens' /\ update.look.gen # c.gen
        BY <1>2, <1>3, <1>5, <3>1, <3>3
      <3> QED
        BY <1>2, <1>3, <1>9, <3>1, <3>2, <3>3, <3>4
    <2> QED
      BY <1>2, <2>1, <2>2 DEF GenerationInv, Running
  <1>14. ASSUME NEW k \in Hosts, k # h
         PROVE  HostAt(k)'
    BY <1>2, <1>9, <1>11, <1>14, OtherHosts DEF ServiceInv
  <1>15. HostAt(h)'
    <2>1. Fits(h, s, c, omap, lists)
      BY <1>5, <1>6 DEF Fits, Reading
    <2> QED
      BY <1>2, <1>5, <1>6, <1>8, <1>9, <2>1 DEF HostAt
  <1> QED
    BY <1>10, <1>12, <1>13, <1>14, <1>15 DEF ServiceInv

\* Some hosts lose their connections, the others keep theirs but for the late
\* flag; no connection is new.
Alike(c, d) ==
    /\ c.gen = d.gen /\ c.nqn = d.nqn /\ c.link = d.link /\ c.cc = d.cc /\ c.async = d.async
    /\ c.cmd = d.cmd /\ c.list = d.list /\ c.page = d.page /\ c.unsent = d.unsent

LEMMA GoneKept ==
    ASSUME ServiceInv, NEW gone \in SUBSET Hosts,
           host' = [h \in Hosts |-> IF h \in gone THEN None ELSE host[h]],
           seen' = [h \in Hosts |-> IF h \in gone THEN {} ELSE seen[h]],
           conn' \in [Fds -> Connections \cup {None}],
           \A h \in Hosts : h \notin gone /\ host[h] # None =>
              conn'[host[h].fd] # None /\ Alike(conn'[host[h].fd], conn[host[h].fd]),
           \A f \in Fds : conn'[f] # None =>
              conn[f] # None /\ conn'[f].gen = conn[f].gen /\ conn'[f].async = conn[f].async,
           omap' = omap, gens' = gens, local' = local, update' = update, changes' = changes,
           alive' \in BOOLEAN, timer' \in Timers \cup {Dead}, faults' \in Nat
    PROVE  ServiceInv'
  <1>1. Typed'
    BY DEF ServiceInv, Typed
  <1>2. Distinct'
    BY DEF ServiceInv, Distinct
  <1>3. GenerationInv'
    <2>1. Running /\ update.look # None => update.look.fd \in Fds
      BY DEF ServiceInv, Typed, Updates, Keys, Running
    <2> QED
      BY <2>1 DEF ServiceInv, GenerationInv, Running
  <1>4. ASSUME NEW h \in Hosts
        PROVE  HostAt(h)'
    <2>1. CASE h \in gone \/ host[h] = None
      BY SMTT(30), <2>1 DEF HostAt
    <2>2. CASE h \notin gone /\ host[h] # None
      <3>1. /\ host'[h] = host[h] /\ seen'[h] = seen[h]
            /\ conn'[host[h].fd] # None /\ Alike(conn'[host[h].fd], conn[host[h].fd])
        BY <2>2
      <3>2. /\ Fits(h, host[h], conn[host[h].fd], omap, seen[h])
            /\ conn[host[h].fd].async =>
                  conn[host[h].fd].cmd \in host[h].armed \/ Answering(host[h].fd)
        BY SMTT(30), <2>2 DEF ServiceInv, HostAt
      <3>3. Fits(h, host[h], conn'[host[h].fd], omap, seen[h])
        BY <3>1, <3>2, FitsSame DEF Alike
      <3>4. Answering(host[h].fd)' = Answering(host[h].fd)
        BY <3>1 DEF Answering, Looked, Running
      <3> QED
        BY <3>1, <3>2, <3>3, <3>4 DEF HostAt, Alike
    <2> QED
      BY <2>1, <2>2
  <1> QED
    BY <1>1, <1>2, <1>3, <1>4 DEF ServiceInv

\* the connection of one host ends, or its link
LEMMA OneGoneKept ==
    ASSUME ServiceInv, NEW h \in Hosts, host[h] # None, NEW d \in Connections \cup {None},
           d # None => d.gen = Mine(h).gen /\ d.async = Mine(h).async,
           conn' = [conn EXCEPT ![host[h].fd] = d],
           host' = [host EXCEPT ![h] = None], seen' = [seen EXCEPT ![h] = {}],
           omap' = omap, gens' = gens, local' = local, update' = update, changes' = changes,
           alive' = alive, timer' = timer, faults' \in Nat
    PROVE  ServiceInv'
  <1> DEFINE f == host[h].fd
  <1>1. f \in Fds /\ conn[f] # None /\ Mine(h) = conn[f]
    BY Connected, ConnectionFields DEF Mine
  <1>2. conn'[f] = d /\ \A k \in Fds : k # f => conn'[k] = conn[k]
    BY <1>1 DEF ServiceInv, Typed
  <1>3. conn' \in [Fds -> Connections \cup {None}] /\ alive' \in BOOLEAN
        /\ timer' \in Timers \cup {Dead}
    BY DEF ServiceInv, Typed
  <1>4. /\ host' = [k \in Hosts |-> IF k \in {h} THEN None ELSE host[k]]
        /\ seen' = [k \in Hosts |-> IF k \in {h} THEN {} ELSE seen[k]]
    BY DEF ServiceInv, Typed
  <1>5. \A k \in Hosts : k \notin {h} /\ host[k] # None =>
           conn'[host[k].fd] # None /\ Alike(conn'[host[k].fd], conn[host[k].fd])
    <2> SUFFICES ASSUME NEW k \in Hosts, k # h, host[k] # None
                 PROVE  conn'[host[k].fd] # None /\ Alike(conn'[host[k].fd], conn[host[k].fd])
      OBVIOUS
    <2>1. host[k].fd \in Fds /\ host[k].fd # f /\ conn[host[k].fd] # None
      BY Connected, ConnectionFields DEF ServiceInv, Distinct, Mine
    <2> QED
      BY <1>2, <2>1 DEF Alike
  <1>6. \A k \in Fds : conn'[k] # None =>
           conn[k] # None /\ conn'[k].gen = conn[k].gen /\ conn'[k].async = conn[k].async
    BY <1>1, <1>2
  <1> QED
    BY ZenonT(60), <1>3, <1>4, <1>5, <1>6, GoneKept

LEMMA PropertyGetKept ==
    ASSUME ServiceInv, NEW h \in Hosts, PropertyGet(h)
    PROVE  ServiceInv'
  <1>1. CASE Mine(h).cc = "shut"
    <2>1. /\ host[h] # None /\ conn' = [conn EXCEPT ![host[h].fd] = None]
          /\ host' = [host EXCEPT ![h] = None] /\ seen' = [seen EXCEPT ![h] = {}]
          /\ omap' = omap /\ gens' = gens /\ local' = local /\ update' = update
          /\ changes' = changes /\ alive' = alive /\ timer' = timer /\ faults' \in Nat
      BY <1>1 DEF PropertyGet, LeaveTheRest, ServiceInv, Typed
    <2> QED
      BY <2>1, OneGoneKept
  <1>2. CASE Mine(h).cc # "shut"
    BY <1>2, AnswerKept DEF PropertyGet
  <1> QED
    BY <1>1, <1>2

LEMMA LeaveKept ==
    ASSUME ServiceInv, NEW h \in Hosts, NEW link \in Ways, Leave(h, link)
    PROVE  ServiceInv'
  <1> DEFINE d == [Mine(h) EXCEPT !.link = link]
  <1>1. /\ host[h] # None /\ conn' = [conn EXCEPT ![host[h].fd] = d]
        /\ host' = [host EXCEPT ![h] = None] /\ seen' = [seen EXCEPT ![h] = {}]
        /\ omap' = omap /\ gens' = gens /\ local' = local /\ update' = update
        /\ changes' = changes /\ alive' = alive /\ timer' = timer /\ faults' \in Nat
    BY DEF Leave, Mine, ServiceInv, Typed
  <1>2. Mine(h) \in Connections /\ link \in {"up", "eof", "lost"}
    BY <1>1, Connected, DiscoveryWays
  <1>3. d \in Connections /\ d.gen = Mine(h).gen /\ d.async = Mine(h).async
    BY <1>2 DEF Connections
  <1> HIDE DEF d
  <1> QED
    BY <1>1, <1>3, OneGoneKept

\* nobody goes
LEMMA NoneGone ==
    ASSUME ServiceInv, UNCHANGED <<host, seen>>,
           conn' \in [Fds -> Connections \cup {None}],
           \A h \in Hosts : host[h] # None =>
              conn'[host[h].fd] # None /\ Alike(conn'[host[h].fd], conn[host[h].fd]),
           \A f \in Fds : conn'[f] # None =>
              conn[f] # None /\ conn'[f].gen = conn[f].gen /\ conn'[f].async = conn[f].async,
           omap' = omap, gens' = gens, local' = local, update' = update, changes' = changes,
           alive' \in BOOLEAN, timer' \in Timers \cup {Dead}, faults' \in Nat
    PROVE  ServiceInv'
  <1>1. PICK gone \in SUBSET Hosts : \A h \in Hosts : h \notin gone
    <2>1. {} \in SUBSET Hosts /\ \A h \in Hosts : h \notin {}
      OBVIOUS
    <2> QED
      BY <2>1, Zenon
  <1>2. /\ host' = [h \in Hosts |-> IF h \in gone THEN None ELSE host[h]]
        /\ seen' = [h \in Hosts |-> IF h \in gone THEN {} ELSE seen[h]]
    BY <1>1 DEF ServiceInv, Typed
  <1> QED
    BY <1>2, GoneKept

\* a connection is late, or heard of
LEMMA LateKept ==
    ASSUME ServiceInv, NEW f \in Fds, Eof(f) \/ Tick(f)
    PROVE  ServiceInv'
  <1>1. PICK late \in BOOLEAN : conn' = [conn EXCEPT ![f].late = late]
    BY DEF Eof, Tick
  <1>2. /\ conn[f] # None /\ UNCHANGED <<host, seen>>
        /\ omap' = omap /\ gens' = gens /\ local' = local /\ update' = update
        /\ changes' = changes /\ alive' = alive /\ timer' = timer /\ faults' = faults
    BY DEF Eof, Tick, LeaveTheRest
  <1> DEFINE d == [conn[f] EXCEPT !.late = late]
  <1>3. conn[f] \in Connections /\ conn' = [conn EXCEPT ![f] = d]
    BY <1>1, <1>2 DEF ServiceInv, Typed
  <1>4. d \in Connections /\ d # None /\ Alike(d, conn[f])
    BY <1>3, LateFields, ConnectionFields DEF Alike
  <1> HIDE DEF d
  <1>5. conn'[f] = d /\ \A k \in Fds : k # f => conn'[k] = conn[k]
    BY <1>3 DEF ServiceInv, Typed
  <1>6. conn' \in [Fds -> Connections \cup {None}] /\ alive' \in BOOLEAN
        /\ timer' \in Timers \cup {Dead} /\ faults' \in Nat
    BY <1>2, <1>3, <1>4 DEF ServiceInv, Typed
  <1>7. \A k \in Fds : conn[k] # None => conn'[k] # None /\ Alike(conn'[k], conn[k])
    BY <1>4, <1>5 DEF Alike
  <1>8. \A h \in Hosts : host[h] # None => host[h].fd \in Fds /\ conn[host[h].fd] # None
    BY Connected, ConnectionFields DEF Mine
  <1>9. \A k \in Fds : conn'[k] # None =>
           conn[k] # None /\ conn'[k].gen = conn[k].gen /\ conn'[k].async = conn[k].async
    BY <1>2, <1>5, <1>7 DEF Alike
  <1> QED
    BY <1>2, <1>6, <1>7, <1>8, <1>9, NoneGone

\* An exception closes all connections; the other threads go on.
LEMMA ExitKept ==
    ASSUME ServiceInv, Exit
    PROVE  ServiceInv'
  <1>1. /\ alive' = FALSE /\ faults' = faults + 1 /\ conn' = [f \in Fds |-> None]
        /\ host' = [h \in Hosts |-> None] /\ seen' = [h \in Hosts |-> {}]
        /\ omap' = omap /\ gens' = gens /\ timer' = timer /\ local' = local
        /\ update' = update /\ changes' = changes
    BY DEF Exit
  <1>2. /\ host' = [h \in Hosts |-> IF h \in Hosts THEN None ELSE host[h]]
        /\ seen' = [h \in Hosts |-> IF h \in Hosts THEN {} ELSE seen[h]]
    BY <1>1
  <1>3. /\ conn' \in [Fds -> Connections \cup {None}] /\ alive' \in BOOLEAN /\ faults' \in Nat
        /\ timer' \in Timers \cup {Dead}
    <2>1. conn' \in [Fds -> {None}]
      BY <1>1
    <2>2. faults \in Nat /\ timer \in Timers \cup {Dead}
      BY DEF ServiceInv, Typed
    <2>3. conn' \in [Fds -> Connections \cup {None}]
      BY <2>1
    <2>4. alive' \in BOOLEAN
      BY <1>1
    <2>5. faults' \in Nat /\ timer' \in Timers \cup {Dead}
      BY <1>1, <2>2
    <2> QED
      BY <2>3, <2>4, <2>5
  <1>4. \A f \in Fds : conn'[f] = None
    BY <1>1
  <1> QED
    BY <1>1, <1>2, <1>3, <1>4, GoneKept

\* The timer goes on to another connection, or dies.
LEMMA TimerKept ==
    ASSUME ServiceInv, TimerStart \/ (\E f \in Fds : TimerLook(f))
    PROVE  ServiceInv'
  <1>1. /\ UNCHANGED <<conn, host, seen>>
        /\ omap' = omap /\ gens' = gens /\ local' = local /\ update' = update
        /\ changes' = changes /\ alive' = alive /\ faults' = faults
    BY DEF TimerStart, TimerLook, TimerVars
  <1>2. timer' \in Timers \cup {Dead}
    <2>1. CASE TimerStart
      BY <2>1 DEF TimerStart, Idle, Table, Timers
    <2>2. CASE \E f \in Fds : TimerLook(f)
      <3>1. PICK f \in Fds : TimerLook(f)
        BY <2>2
      <3>2. timer \in Timers
        BY <3>1 DEF TimerLook, TimerRests, ServiceInv, Typed
      <3> QED
        BY <3>1, <3>2 DEF TimerLook, Timers
    <2> QED
      BY <2>1, <2>2
  <1>3. conn' \in [Fds -> Connections \cup {None}] /\ alive' \in BOOLEAN /\ faults' \in Nat
    BY <1>1 DEF ServiceInv, Typed
  <1>4. \A h \in Hosts : host[h] # None =>
           conn'[host[h].fd] # None /\ Alike(conn'[host[h].fd], conn[host[h].fd])
    BY <1>1, Connected, ConnectionFields DEF Alike, Mine
  <1> QED
    BY <1>1, <1>2, <1>3, <1>4, NoneGone

LEMMA TimerCloseKept ==
    ASSUME ServiceInv, TimerClose
    PROVE  ServiceInv'
  <1> DEFINE f == timer.closing
             gone == {h \in Hosts : Quits(h, f)}
  <1>1. timer \in Timers /\ f # None /\ f \in Fds
    BY DEF TimerClose, ServiceInv, Typed, Timers
  <1>2. /\ omap' = omap /\ gens' = gens /\ local' = local /\ update' = update
        /\ changes' = changes /\ alive' = alive /\ faults' = faults
    BY DEF TimerClose, TimerVars
  <1>3. alive' \in BOOLEAN /\ faults' \in Nat /\ conn \in [Fds -> Connections \cup {None}]
    BY <1>2 DEF ServiceInv, Typed
  <1>4. CASE conn[f] = None
    <2>1. timer' = Dead /\ UNCHANGED <<conn, host, seen>>
      BY <1>4 DEF TimerClose
    <2>2. \A h \in Hosts : host[h] # None =>
             conn'[host[h].fd] # None /\ Alike(conn'[host[h].fd], conn[host[h].fd])
      BY <2>1, Connected, ConnectionFields DEF Alike, Mine
    <2> QED
      BY <1>2, <1>3, <2>1, <2>2, NoneGone
  <1>5. CASE conn[f] # None
    <2>1. /\ timer' = [timer EXCEPT !.closing = None] /\ conn' = [conn EXCEPT ![f] = None]
          /\ host' = [h \in Hosts |-> IF Quits(h, f) THEN None ELSE host[h]]
          /\ seen' = [h \in Hosts |-> IF Quits(h, f) THEN {} ELSE seen[h]]
      BY <1>5 DEF TimerClose
    <2>2. timer' \in Timers \cup {Dead} /\ conn' \in [Fds -> Connections \cup {None}]
      BY <1>1, <1>3, <2>1 DEF Timers
    <2>3. /\ host' = [h \in Hosts |-> IF h \in gone THEN None ELSE host[h]]
          /\ seen' = [h \in Hosts |-> IF h \in gone THEN {} ELSE seen[h]]
      BY <2>1
    <2>4. conn'[f] = None /\ \A k \in Fds : k # f => conn'[k] = conn[k]
      BY <1>1, <1>3, <2>1
    <2>5. \A h \in Hosts : h \notin gone /\ host[h] # None =>
             conn'[host[h].fd] # None /\ Alike(conn'[host[h].fd], conn[host[h].fd])
      BY <2>4, Connected, ConnectionFields DEF Alike, Mine, Quits
    <2> HIDE DEF gone
    <2>6. \A k \in Fds : conn'[k] # None =>
             conn[k] # None /\ conn'[k].gen = conn[k].gen /\ conn'[k].async = conn[k].async
      BY <2>4
    <2>7. gone \in SUBSET Hosts
      BY DEF gone
    <2> QED
      BY <1>2, <1>3, <2>2, <2>3, <2>5, <2>6, <2>7, GoneKept
  <1> QED
    BY <1>4, <1>5

(***************************************************************************)
(* The update thread                                                       *)
(***************************************************************************)
\* What the update under way knows of the connections.
Knows(u) ==
    /\ \A k \in u.todo : k.gen <= gens
    /\ u.look # None =>
          /\ u.look.gen <= gens
          /\ ~u.sent /\ conn[u.look.fd] # None /\ conn[u.look.fd].gen = u.look.gen
                => conn[u.look.fd].async

LEMMA UpdateFields ==
    ASSUME ServiceInv, Running
    PROVE  /\ update \in Updates /\ Knows(update)
           /\ update.look # None => update.look.fd \in Fds
  BY DEF ServiceInv, Typed, GenerationInv, Running, Knows, Updates, Keys

\* A step that sends nothing, when no host waits for its command to be done
\* with.
LEMMA QuietKept ==
    ASSUME ServiceInv, UNCHANGED <<conn, host, seen>>, UNCHANGED UpdateVars,
           local' \in SUBSET Entries, update' \in Updates \cup {None, Dead},
           update' \in Updates => Knows(update'),
           \A h \in Hosts : host[h] # None => ~Answering(host[h].fd)
    PROVE  ServiceInv'
  <1>1. /\ conn' = conn /\ host' = host /\ seen' = seen /\ omap' = omap /\ gens' = gens
        /\ alive' = alive /\ timer' = timer /\ changes' = changes /\ faults' = faults
    BY DEF UpdateVars
  <1>2. Typed'
    BY <1>1 DEF ServiceInv, Typed
  <1>3. Distinct'
    BY <1>1 DEF ServiceInv, Distinct
  <1>4. GenerationInv'
    BY <1>1 DEF ServiceInv, GenerationInv, Running, Knows
  <1>5. ASSUME NEW h \in Hosts
        PROVE  HostAt(h)'
    BY <1>1 DEF ServiceInv, HostAt
  <1> QED
    BY <1>2, <1>3, <1>4, <1>5 DEF ServiceInv

\* update() calls finitely often
LEMMA CallsSize ==
    ASSUME NEW old, NEW new
    PROVE  Cardinality(Calls(old, new)) \in Nat
  <1>1. IsFiniteSet({"subsystem", "listener"}) /\ IsFiniteSet({old \ new, new \ old})
    <2>1. \A a, b : IsFiniteSet({a} \cup {b})
      BY FS_Singleton, FS_Union
    <2>2. {"subsystem", "listener"} = {"subsystem"} \cup {"listener"}
      OBVIOUS
    <2>3. {old \ new, new \ old} = {old \ new} \cup {new \ old}
      OBVIOUS
    <2>4. IsFiniteSet({"subsystem"} \cup {"listener"}) /\ IsFiniteSet({old \ new} \cup {new \ old})
      BY <2>1, Zenon
    <2> QED
      BY <2>2, <2>3, <2>4, Zenon
  <1>2. IsFiniteSet({"subsystem", "listener"} \X {old \ new, new \ old})
    BY <1>1, FS_Product
  <1>3. Calls(old, new) \subseteq {"subsystem", "listener"} \X {old \ new, new \ old}
    BY DEF Calls
  <1> QED
    BY <1>2, <1>3, FS_Subset, FS_CardinalityType

LEMMA NotifyQuietKept ==
    ASSUME ServiceInv, StartUpdate \/ NotifyStart \/ NotifyLook \/ EndUpdate
    PROVE  ServiceInv'
  <1>1. UNCHANGED <<conn, host, seen>> /\ UNCHANGED UpdateVars
    BY DEF StartUpdate, NotifyStart, NotifyLook, EndUpdate
  <1>2. ~Looked
    BY DEF StartUpdate, NotifyStart, NotifyLook, EndUpdate, Looked, Running
  <1>3. /\ omap \in SUBSET Entries /\ local \in SUBSET Entries
        /\ conn \in [Fds -> Connections \cup {None}]
    BY DEF ServiceInv, Typed
  <1>4. /\ local' \in SUBSET Entries /\ update' \in Updates \cup {None, Dead}
        /\ update' \in Updates => Knows(update')
    <2>1. CASE StartUpdate
      <3> DEFINE u == [st |-> omap, calls |-> Cardinality(Calls(local, omap)), todo |-> {},
                       look |-> None, sent |-> FALSE]
      <3>1. update' = u /\ local' = local
        BY <2>1 DEF StartUpdate
      <3>2. u \in Updates
        BY <1>3, CallsSize DEF Updates
      <3>3. Knows(u)
        BY DEF Knows
      <3> QED
        BY <1>3, <3>1, <3>2, <3>3
    <2>2. CASE NotifyStart
      <3> DEFINE todo == {[fd |-> f, gen |-> conn[f].gen] : f \in Table}
                 u == [update EXCEPT !.calls = @ - 1, !.todo = todo]
      <3>1. update \in Updates /\ update.look = None /\ update.calls > 0
        BY <2>2, UpdateFields DEF NotifyStart
      <3>2. update' = u /\ local' = local
        BY <2>2 DEF NotifyStart
      <3>3. \A f \in Table : f \in Fds /\ conn[f] \in Connections
        BY <1>3 DEF Table
      <3>4. todo \in SUBSET Keys /\ \A k \in todo : k.gen <= gens
        BY <3>3, ConnectionFields DEF Keys, ServiceInv, GenerationInv, Table
      <3> HIDE DEF todo
      <3>5. u \in Updates /\ u.todo = todo /\ u.look = None
        <4>1. update.calls - 1 \in Nat
          BY <3>1 DEF Updates
        <4> QED
          BY <3>1, <3>4, <4>1 DEF Updates
      <3> HIDE DEF u
      <3>6. Knows(u)
        BY <3>4, <3>5 DEF Knows
      <3> QED
        BY <1>3, <3>2, <3>5, <3>6
    <2>3. CASE NotifyLook
      <3>1. /\ update \in Updates /\ Knows(update) /\ update.look = None /\ local' = local
        BY <2>3, UpdateFields DEF NotifyLook
      <3>2. PICK k \in update.todo :
               update' = IF conn[k.fd] = None THEN Dead
                         ELSE [update EXCEPT !.todo = IF conn[k.fd].async THEN {} ELSE @ \ {k},
                                             !.look = IF conn[k.fd].async THEN k ELSE None]
        BY <2>3 DEF NotifyLook
      <3>3. CASE conn[k.fd] = None
        BY <1>3, <3>1, <3>2, <3>3, DiscoveryNone
      <3>4. CASE conn[k.fd] # None
        <4> DEFINE todo == IF conn[k.fd].async THEN {} ELSE update.todo \ {k}
                   look == IF conn[k.fd].async THEN k ELSE None
                   u == [update EXCEPT !.todo = todo, !.look = look]
        <4>1. update' = u
          BY <3>2, <3>4
        <4>2. k \in Keys /\ todo \in SUBSET Keys /\ todo \subseteq update.todo
          BY <3>1 DEF Updates
        <4>3. look \in Keys \cup {None} /\ (look # None => look = k /\ conn[k.fd].async)
          BY <4>2
        <4> HIDE DEF todo, look
        <4>4. u \in Updates /\ u.todo = todo /\ u.look = look
          BY <3>1, <4>2, <4>3 DEF Updates
        <4> HIDE DEF u
        <4>5. Knows(u)
          BY <3>1, <4>2, <4>3, <4>4 DEF Knows
        <4> QED
          BY <1>3, <3>1, <4>1, <4>4, <4>5
      <3> QED
        BY <3>3, <3>4
    <2>4. CASE EndUpdate
      <3>1. update \in Updates /\ local' = update.st /\ update' = None
        BY <2>4, UpdateFields DEF EndUpdate
      <3> QED
        BY <3>1, DiscoveryNone DEF Updates
    <2> QED
      BY <2>1, <2>2, <2>3, <2>4
  <1> QED
    BY <1>1, <1>2, <1>4, QuietKept DEF Answering

\* An event is sent: the host's command is done with, and the connection is
\* not yet told.
LEMMA NotifySendKept ==
    ASSUME ServiceInv, NotifySend
    PROVE  ServiceInv'
  <1> DEFINE f == update.look.fd
  <1>1. /\ Looked /\ ~update.sent /\ update \in Updates /\ Knows(update) /\ f \in Fds
        /\ UNCHANGED <<conn, seen, local>> /\ UNCHANGED UpdateVars
    BY UpdateFields DEF NotifySend, Looked
  <1>2. \A h \in Hosts : ~Answering(host[h].fd)
    BY <1>1 DEF Answering
  <1>3. local \in SUBSET Entries
    BY DEF ServiceInv, Typed
  <1>4. CASE update' = Dead /\ UNCHANGED host
    BY <1>1, <1>2, <1>3, <1>4, QuietKept, DiscoveryNone
  <1>5. CASE update' = [update EXCEPT !.look = None] /\ UNCHANGED host
    <2> DEFINE u == [update EXCEPT !.look = None]
    <2>1. u \in Updates /\ u.todo = update.todo /\ u.look = None
      BY <1>1 DEF Updates
    <2> HIDE DEF u
    <2>2. Knows(u)
      BY <1>1, <2>1 DEF Knows
    <2>3. update' = u
      BY <1>5 DEF u
    <2> QED
      BY <1>1, <1>2, <1>3, <1>5, <2>1, <2>2, <2>3, QuietKept
  <1>6. CASE /\ update' = [update EXCEPT !.sent = TRUE]
             /\ host' = [h \in Hosts |->
                          IF Quits(h, f) THEN [host[h] EXCEPT !.armed = @ \ {conn[f].cmd}]
                          ELSE host[h]]
    <2> DEFINE u == [update EXCEPT !.sent = TRUE]
    <2>1. u \in Updates /\ u.todo = update.todo /\ u.look = update.look /\ u.sent
      BY <1>1 DEF Updates
    <2> HIDE DEF u
    <2>2. update' = u
      BY <1>6 DEF u
    <2>3. /\ conn' = conn /\ seen' = seen /\ omap' = omap /\ gens' = gens /\ local' = local
          /\ alive' = alive /\ timer' = timer /\ changes' = changes /\ faults' = faults
      BY <1>1 DEF UpdateVars
    <2>4. Running' /\ Looked'
      BY <1>1, <2>1, <2>2, DiscoveryNone DEF Running, Looked
    <2>5. ASSUME NEW h \in Hosts, Quits(h, f)
          PROVE  /\ host'[h] \in HostStates /\ host'[h].fd = f /\ host'[h] # None /\ host[h].fd = f
                 /\ host'[h].short = host[h].short /\ host'[h].read = host[h].read
      <3>1. host[h] \in HostStates /\ host[h].fd = f
        BY <2>5, Connected DEF Quits
      <3> DEFINE s == [host[h] EXCEPT !.armed = @ \ {conn[f].cmd}]
      <3>2. s \in HostStates /\ s.fd = f /\ s.short = host[h].short /\ s.read = host[h].read
        BY <3>1 DEF HostStates
      <3> HIDE DEF s
      <3>3. host'[h] = s
        BY <1>6, <2>5 DEF s
      <3> QED
        BY <3>1, <3>2, <3>3, HostFields
    <2>6. \A h \in Hosts : ~Quits(h, f) => host'[h] = host[h]
      BY <1>6
    <2>7. Typed'
      <3>1. \A h \in Hosts : host'[h] \in HostStates \cup {None}
        BY <2>5, <2>6 DEF ServiceInv, Typed
      <3>2. host' \in [Hosts -> HostStates \cup {None}]
        BY <1>6, <3>1
      <3> QED
        BY <2>1, <2>2, <2>3, <3>2 DEF ServiceInv, Typed
    <2>8. Distinct'
      <3>1. \A h \in Hosts : host'[h] # None => host[h] # None /\ host'[h].fd = host[h].fd
        BY <2>5, <2>6 DEF Quits
      <3> QED
        BY <3>1 DEF ServiceInv, Distinct
    <2>9. GenerationInv'
      BY <1>1, <2>1, <2>2, <2>3, <2>4 DEF ServiceInv, GenerationInv, Knows
    <2>10. ASSUME NEW h \in Hosts
           PROVE  HostAt(h)'
      <3>1. CASE Quits(h, f)
        <4>1. /\ conn[f] # None /\ Fits(h, host[h], conn[f], omap, seen[h])
          BY <3>1 DEF Quits, ServiceInv, HostAt
        <4>2. Fits(h, host'[h], conn[f], omap, seen[h])
          BY <2>5, <3>1, <4>1, FitsSame
        <4>3. Looked' /\ update'.sent /\ update'.look.fd = f
          BY <2>1, <2>2, <2>4
        <4> HIDE DEF f
        <4> QED
          BY <2>3, <2>5, <3>1, <4>1, <4>2, <4>3 DEF HostAt, Answering
      <3>2. CASE ~Quits(h, f)
        BY <1>2, <2>3, <2>6, <3>2 DEF ServiceInv, HostAt
      <3> QED
        BY <3>1, <3>2
    <2> QED
      BY <2>7, <2>8, <2>9, <2>10 DEF ServiceInv
  <1> QED
    BY <1>4, <1>5, <1>6 DEF NotifySend

\* The connection is told that its command is done with.
LEMMA NotifyEndKept ==
    ASSUME ServiceInv, NotifyEnd
    PROVE  ServiceInv'
  <1> DEFINE f == update.look.fd
  <1>1. /\ Looked /\ update.sent /\ update \in Updates /\ Knows(update) /\ f \in Fds
        /\ UNCHANGED <<host, seen, local>> /\ UNCHANGED UpdateVars
    BY UpdateFields DEF NotifyEnd, Looked
  <1>2. local \in SUBSET Entries
    BY DEF ServiceInv, Typed
  <1>3. CASE conn[f] = None
    <2>1. update' = Dead /\ UNCHANGED conn
      BY <1>3 DEF NotifyEnd
    <2>2. \A h \in Hosts : host[h] # None => ~Answering(host[h].fd)
      BY <1>3 DEF Answering, ServiceInv, HostAt
    <2> QED
      BY <1>1, <1>2, <2>1, <2>2, QuietKept, DiscoveryNone
  <1>4. CASE conn[f] # None
    <2> DEFINE u == [update EXCEPT !.look = None, !.sent = FALSE]
               d == [conn[f] EXCEPT !.async = FALSE]
    <2>1. update' = u /\ conn' = [conn EXCEPT ![f] = d]
      BY <1>4 DEF NotifyEnd
    <2>2. u \in Updates /\ u.todo = update.todo /\ u.look = None
      BY <1>1 DEF Updates
    <2>3. conn[f] \in Connections
      BY <1>1, <1>4 DEF ServiceInv, Typed
    <2>4. /\ d \in Connections /\ d.gen = conn[f].gen /\ d.nqn = conn[f].nqn
          /\ d.link = conn[f].link /\ d.cc = conn[f].cc /\ ~d.async /\ d.list = conn[f].list
          /\ d.page = conn[f].page /\ d.unsent = conn[f].unsent
      BY <2>3 DEF Connections
    <2>5. d # None
      BY <2>4, ConnectionFields
    <2> HIDE DEF u, d
    <2>6. conn'[f] = d /\ \A k \in Fds : k # f => conn'[k] = conn[k]
      BY <1>1, <2>1 DEF ServiceInv, Typed
    <2>7. /\ host' = host /\ seen' = seen /\ omap' = omap /\ gens' = gens /\ local' = local
          /\ alive' = alive /\ timer' = timer /\ changes' = changes /\ faults' = faults
      BY <1>1 DEF UpdateVars
    <2>8. Typed'
      BY <2>1, <2>2, <2>4, <2>7 DEF ServiceInv, Typed
    <2>9. Distinct'
      BY <2>7 DEF ServiceInv, Distinct
    <2>10. GenerationInv'
      <3>1. \A k \in Fds : conn'[k] # None => conn'[k].gen <= gens
        BY <1>4, <2>4, <2>6 DEF ServiceInv, GenerationInv
      <3>2. \A k \in u.todo : k.gen <= gens
        BY <1>1, <2>2 DEF Knows
      <3> QED
        BY <2>1, <2>2, <2>7, <3>1, <3>2 DEF GenerationInv
    <2>11. ASSUME NEW h \in Hosts
           PROVE  HostAt(h)'
      <3>1. CASE host[h] = None
        BY <2>7, <3>1 DEF HostAt
      <3>2. CASE host[h] # None /\ host[h].fd = f
        <4>1. Fits(h, host[h], d, omap, seen[h])
          BY <2>4, <3>2, FitsSame DEF ServiceInv, HostAt
        <4> QED
          BY <2>4, <2>5, <2>6, <2>7, <3>2, <4>1 DEF HostAt
      <3>3. CASE host[h] # None /\ host[h].fd # f
        <4>1. host[h].fd \in Fds
          BY <3>3, Connected
        <4>2. ~Answering(host[h].fd)
          BY <3>3 DEF Answering
        <4> QED
          BY <2>6, <2>7, <3>3, <4>1, <4>2 DEF ServiceInv, HostAt
      <3> QED
        BY <3>1, <3>2, <3>3
    <2> QED
      BY <2>8, <2>9, <2>10, <2>11 DEF ServiceInv
  <1> QED
    BY <1>3, <1>4

(***************************************************************************)
(* The theorems                                                            *)
(***************************************************************************)
LEMMA ServiceInit == DiscoveryInit => ServiceInv
  <1> SUFFICES ASSUME DiscoveryInit PROVE ServiceInv
    OBVIOUS
  <1>1. Typed
    BY DiscoveryStarts DEF DiscoveryInit, Typed, Idle, Timers
  <1> QED
    BY <1>1 DEF DiscoveryInit, ServiceInv, Distinct, GenerationInv, HostAt, Running

LEMMA ServiceNext == ServiceInv /\ [DiscoveryNext]_discoveryVars => ServiceInv'
  <1> SUFFICES ASSUME ServiceInv, [DiscoveryNext]_discoveryVars PROVE ServiceInv'
    OBVIOUS
  <1>1. ASSUME NEW h \in Hosts, HostStep(h)
        PROVE  ServiceInv'
    <2>1. CASE Inquire(h) \/ KeepAlive(h)
      BY <2>1, AnswerKept DEF Inquire, KeepAlive
    <2>2. CASE \E asked \in BOOLEAN : Connect(h, asked)
      BY <2>2, ConnectKept
    <2>3. CASE \E cc \in {"on", "shut"} : PropertySet(h, cc)
      BY <2>3, PropertySetKept
    <2>4. CASE \E k \in Cmds : StoreAsync(h, k)
      BY <2>4, StoreAsyncKept
    <2>5. CASE \E link \in Ways : Leave(h, link)
      BY <2>5, LeaveKept
    <2>6. CASE Accept(h) \/ PropertyGet(h) \/ ReadHeader(h) \/ ReadPart(h)
      BY <2>6, AcceptKept, PropertyGetKept, ReadHeaderKept, ReadPartKept
    <2> QED
      BY <1>1, <2>1, <2>2, <2>3, <2>4, <2>5, <2>6 DEF HostStep
  <1>2. CASE \E e \in Entries : Change(e)
    BY <1>2, ChangeKept
  <1>3. CASE \E f \in Fds : Eof(f) \/ Tick(f)
    BY <1>3, LateKept
  <1>4. CASE Exit
    BY <1>4, ExitKept
  <1>5. CASE TimerStep
    BY <1>5, TimerKept, TimerCloseKept DEF TimerStep
  <1>6. CASE NotifyStep
    BY <1>6, NotifyQuietKept, NotifySendKept, NotifyEndKept DEF NotifyStep
  <1>7. CASE UNCHANGED discoveryVars
    <2>1. UNCHANGED <<host, seen>> /\ conn' = conn
          /\ omap' = omap /\ gens' = gens /\ local' = local /\ update' = update
          /\ changes' = changes /\ alive' = alive /\ timer' = timer /\ faults' = faults
      BY <1>7 DEF discoveryVars
    <2>2. conn' \in [Fds -> Connections \cup {None}] /\ alive' \in BOOLEAN
          /\ timer' \in Timers \cup {Dead} /\ faults' \in Nat
      BY <2>1 DEF ServiceInv, Typed
    <2>3. \A h \in Hosts : host[h] # None =>
             conn'[host[h].fd] # None /\ Alike(conn'[host[h].fd], conn[host[h].fd])
      BY <2>1, Connected, ConnectionFields DEF Alike, Mine
    <2> QED
      BY <2>1, <2>2, <2>3, NoneGone
  <1> QED
    BY <1>1, <1>2, <1>3, <1>4, <1>5, <1>6, <1>7 DEF DiscoveryNext

LEMMA AlwaysService == DiscoverySpec => []ServiceInv
  BY ServiceInit, ServiceNext, PTL DEF DiscoverySpec

\* Every variable keeps its type, and every host's file descriptor is that of a
\* connection that is up (DiscoveryTypeOK): a file descriptor is given to a new
\* connection only when the old one is out of the table, and a page has never
\* more sent of it than it has, for hosts that ask for 16 bytes of header.
THEOREM DiscoveryTypeCorrect == DiscoverySpec => []DiscoveryTypeOK
  BY AlwaysService, ServiceTypeOK, PTL

\* A page read in parts is as a whole one that the OMAP allowed, with as many
\* records as its header said (PageWasAllowed), whatever is written to the OMAP
\* between the parts; for hosts that ask for 16 bytes of header.
THEOREM PagesWereAllowed ==
    ASSUME HeaderBlocks = 0
    PROVE  DiscoverySpec => PageWasAllowed
  <1> DEFINE Allowed ==
        \A h \in Hosts :
          ReadPart(h) /\ host'[h].read = None =>
              LET page == Asked(Mine(h), Chunk).page IN
              page \in seen[h] /\ Cardinality(page) = host[h].read.numrec
  <1>1. ServiceInv => Allowed
    <2> SUFFICES ASSUME ServiceInv, NEW h \in Hosts, ReadPart(h)
                 PROVE  /\ Asked(Mine(h), Chunk).page \in seen[h]
                        /\ Cardinality(Asked(Mine(h), Chunk).page) = host[h].read.numrec
      OBVIOUS
    <2>1. Enabled(h) /\ host[h].read # None
      BY DEF ReadPart
    <2>2. Chunk \in Int /\ Chunk > 0
      BY DiscoveryReads
    <2> QED
      BY <2>1, <2>2, PageOfHeader
  <1>2. ServiceInv => [Allowed]_discoveryVars
    BY <1>1
  <1> QED
    BY <1>2, AlwaysService, PTL DEF PageWasAllowed

\* Every reply to Get Log Page holds as many bytes as the host asked for, if it
\* asks for 16 bytes of header (RepliesAreWhole).
THEOREM SmallHeadersGetWholeReplies ==
    ASSUME HeaderBlocks = 0
    PROVE  DiscoverySpec => []RepliesAreWhole
  <1>1. ServiceInv => RepliesAreWhole
    BY DEF ServiceInv, HostAt, Fits, Reading, RepliesAreWhole
  <1> QED
    BY <1>1, AlwaysService, PTL

\* An event answers a command for events that the host has left on its
\* connection and that no event has answered, if the connection is the one the
\* update thread has looked at (EventsAreAskedFor): the thread takes no lock, and
\* commands are left, connections closed and file descriptors given to others
\* between its look, its event and its note that the command is answered.
THEOREM EventsAnswerCommands == DiscoverySpec => EventsAreAskedFor
  <1> DEFINE AskedFor ==
        \A h \in Hosts :
          Looked /\ ~update.sent /\ Quits(h, update.look.fd) /\ update' # Dead =>
              (update'.sent /\ Mine(h).gen = update.look.gen =>
                   Mine(h).cmd \in host[h].armed)
  <1>1. ServiceInv => AskedFor
    <2> SUFFICES ASSUME ServiceInv, NEW h \in Hosts, Looked, ~update.sent,
                        Quits(h, update.look.fd), Mine(h).gen = update.look.gen
                 PROVE  Mine(h).cmd \in host[h].armed
      OBVIOUS
    <2>1. host[h] # None /\ host[h].fd = update.look.fd
      BY DEF Quits
    <2>2. conn[host[h].fd] # None
      BY <2>1 DEF ServiceInv, HostAt
    <2>3. Mine(h).async
      BY <2>1, <2>2 DEF ServiceInv, GenerationInv, Looked, Mine
    <2> QED
      BY <2>1, <2>3, Connected DEF Answering
  <1>2. ServiceInv => [AskedFor]_discoveryVars
    BY <1>1
  <1> QED
    BY <1>2, AlwaysService, PTL DEF EventsAreAskedFor

=============================================================================

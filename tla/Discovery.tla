------------------------------ MODULE Discovery ------------------------------
(***************************************************************************)
(* The discovery service (control/discovery.py): hosts connect, read the   *)
(* discovery log page, which lists the listeners the OMAP lets them use,   *)
(* and leave a request for an asynchronous event that tells of a change.   *)
(*                                                                         *)
(* Three threads share the table of connections, conn_vals: the main loop  *)
(* accepts and handles commands under the lock, the timer looks for silent *)
(* connections without the lock and closes them with it, and the update    *)
(* thread sends the events without it.  A command is sent, handled and     *)
(* answered in one step.                                                   *)
(***************************************************************************)
EXTENDS Integers, FiniteSets

CONSTANTS
    Hosts,
    Readers,      \* the hosts that read the page; the others wait for events
    Fds,          \* file descriptors; the lowest free one is taken
    Entries,      \* of the OMAP: [kind, sub, of]
    Starts,       \* what the OMAP may hold in the beginning
    Cmds,         \* a host's commands for events; outstanding at the same time
    HeaderBlocks, \* 0: a host asks for 16 bytes of header, 1: for 1024
    Ways,         \* how hosts go: "eof" and "lost", see Leave
    Chunk,        \* how many blocks of 1024 bytes a host asks for at a time
    MaxChanges,   \* bound: entries written or removed
    MaxConnects,  \* bound: connections
    MaxFaults,    \* bound: hosts that go, and errors that end the main loop
    Star,         \* all hosts
    Dead,         \* a thread that an exception has ended
    None

ASSUME DiscoveryEntries ==
    \A e \in Entries : e.kind \in {"subsystem", "host", "listener"}
ASSUME DiscoveryStarts == Starts \subseteq SUBSET Entries
ASSUME DiscoveryReaders == Readers \subseteq Hosts
ASSUME DiscoveryWays == Ways \subseteq {"eof", "lost"}
ASSUME DiscoveryFds == Fds \subseteq Nat
ASSUME DiscoveryReads == HeaderBlocks \in {0, 1} /\ Chunk \in Nat \ {0, 1}
ASSUME DiscoveryBounds == MaxChanges \in Nat /\ MaxConnects \in Nat /\ MaxFaults \in Nat

VARIABLES
    omap,     \* the entries
    conn,     \* conn_vals: the connection at a file descriptor
    gens,     \* connection_counter
    alive,    \* the main loop runs
    host,     \* what a host knows
    timer,    \* the thread handle_timeout
    local,    \* the entries as of the update thread's last update
    update,   \* the update under way
    changes, faults,
    seen      \* history: the lists a host could see since its last whole page

discoveryVars ==
    <<omap, conn, gens, alive, host, timer, local, update, changes, faults, seen>>

\* A listener is listed for each entry of a host that allows it.
Records(es, nqn) ==
    {r \in es \X es :
        /\ r[1].kind = "host" /\ r[1].of \in {Star, nqn}
        /\ r[2].kind = "listener" /\ r[2].sub = r[1].sub}

Lists == SUBSET {r \in Entries \X Entries : r[1].kind = "host" /\ r[2].kind = "listener"}

\* list is allow_listeners, page what log_page was made of, unsent the blocks
\* left of unsent_log_page_len, kato that there is a keep_alive_timeout, late
\* that it has passed; what is left falls below 0 when a host that asked for
\* 1024 bytes of header reads the page again
Connections ==
    [gen : Nat, nqn : Hosts \cup {None}, link : {"up", "eof", "lost"}, cc : {"off", "on", "shut"},
     kato : BOOLEAN, late : BOOLEAN, async : BOOLEAN, cmd : Cmds \cup {None},
     list : Lists, page : Lists \cup {None},
     unsent : IF HeaderBlocks = 0 THEN Nat ELSE Int]
NewConnection(gen) ==
    [gen |-> gen, nqn |-> None, link |-> "up", cc |-> "off", kato |-> FALSE, late |-> FALSE,
     async |-> FALSE, cmd |-> None, list |-> {}, page |-> None, unsent |-> 0]

\* numrec of the header and the next block to ask for; short after a reply of
\* fewer bytes than asked
Reads == [numrec : Nat, next : Nat]
HostStates ==
    [fd : Fds, armed : SUBSET Cmds, read : Reads \cup {None}, short : BOOLEAN]

Keys == [fd : Fds, gen : Nat]
Timers == [todo : SUBSET Fds, closing : Fds \cup {None}]
Updates ==
    [st : SUBSET Entries, calls : Nat, todo : SUBSET Keys, look : Keys \cup {None}, sent : BOOLEAN]

ASSUME DiscoveryNone ==
    /\ None \notin Hosts /\ None \notin Cmds /\ None \notin Fds /\ \A l \in Lists : l # None
    /\ None \notin Connections /\ None \notin HostStates /\ None \notin Reads /\ None \notin Keys
    /\ None \notin Updates /\ Dead \notin Updates /\ Dead \notin Timers /\ Dead # None
ASSUME DiscoveryFinite == IsFiniteSet(Entries)

DiscoveryTypeOK ==
    /\ omap \in SUBSET Entries
    /\ local \in SUBSET Entries
    /\ conn \in [Fds -> Connections \cup {None}]
    /\ gens \in Nat /\ changes \in Nat /\ faults \in Nat
    /\ alive \in BOOLEAN
    /\ host \in [Hosts -> HostStates \cup {None}]
    /\ timer \in Timers \cup {Dead}
    /\ update \in Updates \cup {None, Dead}
    /\ seen \in [Hosts -> SUBSET Lists]
    \* a host's file descriptor is that of a connection that is up
    /\ \A h \in Hosts : host[h] # None =>
            conn[host[h].fd] # None /\ conn[host[h].fd].link = "up"

Table == {f \in Fds : conn[f] # None}
Idle == [todo |-> {}, closing |-> None]

DiscoveryInit ==
    /\ omap \in Starts /\ local = omap
    /\ conn = [f \in Fds |-> None]
    /\ gens = 0 /\ changes = 0 /\ faults = 0
    /\ alive = TRUE
    /\ host = [h \in Hosts |-> None]
    /\ timer = Idle
    /\ update = None
    /\ seen = [h \in Hosts |-> {}]

(***************************************************************************)
(* The OMAP, written by the gateways                                       *)
(***************************************************************************)
Change(e) ==
    /\ changes < MaxChanges
    /\ changes' = changes + 1
    /\ omap' = IF e \in omap THEN omap \ {e} ELSE omap \cup {e}
    /\ seen' = [h \in Hosts |-> IF host[h] = None THEN {} ELSE seen[h] \cup {Records(omap', h)}]
    /\ UNCHANGED <<conn, gens, alive, host, timer, local, update, faults>>

(***************************************************************************)
(* The main loop                                                           *)
(***************************************************************************)
LeaveTheRest == UNCHANGED <<omap, gens, alive, timer, local, update, changes, faults>>

Accept(h) ==
    /\ alive /\ host[h] = None /\ gens < MaxConnects
    /\ \E f \in Fds \ Table :
        /\ \A k \in Fds \ Table : f <= k
        /\ conn' = [conn EXCEPT ![f] = NewConnection(gens + 1)]
        /\ host' = [host EXCEPT ![h] = [fd |-> f, armed |-> {}, read |-> None, short |-> FALSE]]
    /\ gens' = gens + 1
    /\ seen' = [seen EXCEPT ![h] = {Records(omap, h)}]
    /\ UNCHANGED <<omap, alive, timer, local, update, changes, faults>>

\* The main loop handles a command of a host whose connection is c: it is not
\* late any more.
Handles(h, c) ==
    /\ alive /\ host[h] # None
    /\ conn' = [conn EXCEPT ![host[h].fd] = [c EXCEPT !.late = FALSE]]
    /\ LeaveTheRest

Mine(h) == conn[host[h].fd]
\* A host enables the controller before its other commands, and no command
\* but the status follows a shutdown.
Enabled(h) == host[h] # None /\ Mine(h).cc = "on"

\* A host may ask for no timeout, and gets one of 15 seconds then.
ConnectAsAsked(h, asked) == \* a mutation
    /\ host[h] # None /\ Mine(h).nqn = None
    /\ Handles(h, [Mine(h) EXCEPT !.nqn = h, !.kato = asked])
    /\ UNCHANGED <<host, seen>>
Connect(h, asked) ==
    /\ host[h] # None /\ Mine(h).nqn = None
    /\ Handles(h, [Mine(h) EXCEPT !.nqn = h, !.kato = TRUE])
    /\ UNCHANGED <<host, seen>>

PropertySet(h, cc) ==
    /\ host[h] # None /\ Mine(h).nqn = h
    /\ <<Mine(h).cc, cc>> \in {<<"off", "on">>, <<"on", "shut">>}
    /\ Handles(h, [Mine(h) EXCEPT !.cc = cc])
    /\ UNCHANGED <<host, seen>>

\* The status of a controller that shuts down ends its connection.
PropertyGet(h) ==
    /\ alive /\ host[h] # None /\ Mine(h).nqn = h
    /\ IF Mine(h).cc = "shut"
       THEN /\ conn' = [conn EXCEPT ![host[h].fd] = None]
            /\ host' = [host EXCEPT ![h] = None]
            /\ seen' = [seen EXCEPT ![h] = {}]
            /\ LeaveTheRest
       ELSE Handles(h, Mine(h)) /\ UNCHANGED <<host, seen>>

\* Identify and the features: a reply
Inquire(h) == Enabled(h) /\ Handles(h, Mine(h)) /\ UNCHANGED <<host, seen>>

\* Keep alive and commands that are not supported: a reply
KeepAlive(h) == Enabled(h) /\ Mine(h).late /\ Handles(h, Mine(h)) /\ UNCHANGED <<host, seen>>

StoreAsync(h, k) ==
    /\ Enabled(h) /\ k \notin host[h].armed
    /\ Handles(h, [Mine(h) EXCEPT !.async = TRUE, !.cmd = k])
    /\ host' = [host EXCEPT ![h].armed = @ \cup {k}]
    /\ UNCHANGED seen

WithList(c) == IF c.list = {} THEN [c EXCEPT !.list = Records(omap, c.nqn)] ELSE c

\* A header of 16 bytes makes no page.
WithEntries(c, blocks) == \* a mutation
    IF c.unsent = 0 /\ blocks > 0
    THEN [c EXCEPT !.page = c.list, !.unsent = Cardinality(c.list)]
    ELSE c
WithPage(c, blocks) ==
    IF c.unsent = 0 /\ blocks > 0
    THEN [c EXCEPT !.page = c.list, !.unsent = Cardinality(c.list) + 1]
    ELSE c

Asked(c, blocks) == WithPage(WithList(c), blocks)
Size(c) == IF c.page = None THEN 0 ELSE Cardinality(c.page) + 1

SentButListed(c, blocks) == \* a mutation
    LET left == c.unsent - blocks IN
    IF left = 0 THEN [c EXCEPT !.unsent = 0, !.page = None] ELSE [c EXCEPT !.unsent = left]
Sent(c, blocks) ==
    LET left == c.unsent - blocks IN
    IF left = 0 THEN [c EXCEPT !.unsent = 0, !.page = None, !.list = {}]
    ELSE [c EXCEPT !.unsent = left]

\* Get Log Page of the header: of at most 1024 bytes, and from offset 0.  A
\* host asks for it to begin, and to see whether the page has changed.
ReadHeader(h) ==
    LET c == Asked(Mine(h), HeaderBlocks)
        numrec == Cardinality(c.list)
    IN  /\ h \in Readers /\ Enabled(h) /\ ~host[h].short
        /\ host[h].read # None => host[h].read.next = HeaderBlocks
        /\ Handles(h, c)
        /\ host' = [host EXCEPT ![h].read =
                        IF numrec = 0 THEN None ELSE [numrec |-> numrec, next |-> HeaderBlocks]]
        /\ UNCHANGED seen

\* Get Log Page of more, with the last block of which the host has the page
ReadPart(h) ==
    LET r == host[h].read
        blocks == IF r.numrec + 1 - r.next < Chunk THEN r.numrec + 1 - r.next ELSE Chunk
        c == Asked(Mine(h), blocks)
        whole == r.next + blocks <= Size(c)
        ends == r.next + blocks = r.numrec + 1
    IN  /\ Enabled(h) /\ host[h].read # None /\ ~host[h].short
        /\ Handles(h, Sent(c, blocks))
        /\ host' = [host EXCEPT ![h].short = ~whole,
                                ![h].read = IF ends THEN None ELSE [r EXCEPT !.next = @ + blocks]]
        /\ seen' = IF ends THEN [seen EXCEPT ![h] = {Records(omap, h)}] ELSE seen

\* The host has closed its connection: recv returns no bytes.
Eof(f) ==
    /\ alive /\ conn[f] # None /\ conn[f].link = "eof"
    /\ conn' = [conn EXCEPT ![f].late = FALSE]
    /\ UNCHANGED <<host, seen>> /\ LeaveTheRest

\* An exception that nothing catches, such as a reset connection, ends the
\* main loop and closes the connections.  The other threads go on.
Exit ==
    /\ alive /\ faults < MaxFaults /\ Table # {}
    /\ faults' = faults + 1
    /\ alive' = FALSE
    /\ conn' = [f \in Fds |-> None]
    /\ host' = [h \in Hosts |-> None]
    /\ seen' = [h \in Hosts |-> {}]
    /\ UNCHANGED <<omap, gens, timer, local, update, changes>>

\* A host closes its connection without a shutdown, or is not heard of again.
Leave(h, link) ==
    /\ host[h] # None /\ faults < MaxFaults
    /\ faults' = faults + 1
    /\ conn' = [conn EXCEPT ![host[h].fd].link = link]
    /\ host' = [host EXCEPT ![h] = None]
    /\ seen' = [seen EXCEPT ![h] = {}]
    /\ UNCHANGED <<omap, gens, alive, timer, local, update, changes>>

(***************************************************************************)
(* The timer                                                               *)
(***************************************************************************)
\* Only a connection that has had its Connect has a timeout.
Tick(f) ==
    /\ conn[f] # None /\ conn[f].kato /\ ~conn[f].late
    /\ conn' = [conn EXCEPT ![f].late = TRUE]
    /\ UNCHANGED <<host, seen>> /\ LeaveTheRest

TimerRests == timer # Dead /\ timer.closing = None
TimerVars == <<omap, gens, alive, local, update, changes, faults>>

TimerStart ==
    /\ TimerRests /\ timer.todo = {} /\ Table # {}
    /\ timer' = [Idle EXCEPT !.todo = Table]
    /\ UNCHANGED <<conn, host, seen>> /\ UNCHANGED TimerVars

\* KeyError, when the connection has gone since the list of keys was made
TimerLook(f) ==
    /\ TimerRests /\ f \in timer.todo
    /\ timer' = IF conn[f] = None THEN Dead
                ELSE [todo |-> timer.todo \ {f}, closing |-> IF conn[f].late THEN f ELSE None]
    /\ UNCHANGED <<conn, host, seen>> /\ UNCHANGED TimerVars

Quits(h, f) == host[h] # None /\ host[h].fd = f

TimerClose ==
    /\ timer # Dead /\ timer.closing # None
    /\ IF conn[timer.closing] = None
       THEN timer' = Dead /\ UNCHANGED <<conn, host, seen>>
       ELSE /\ timer' = [timer EXCEPT !.closing = None]
            /\ conn' = [conn EXCEPT ![timer.closing] = None]
            /\ host' = [h \in Hosts |-> IF Quits(h, timer.closing) THEN None ELSE host[h]]
            /\ seen' = [h \in Hosts |-> IF Quits(h, timer.closing) THEN {} ELSE seen[h]]
    /\ UNCHANGED TimerVars

(***************************************************************************)
(* The update thread                                                       *)
(***************************************************************************)
UpdateVars == <<omap, gens, alive, timer, changes, faults>>
Running == update \notin {None, Dead}

\* update() calls once for each kind of entries removed, and of entries added;
\* those of subsystems and of listeners are told to a host
Calls(old, new) ==
    {c \in {"subsystem", "listener"} \X {old \ new, new \ old} :
        \E e \in c[2] : e.kind = c[1]}

StartUpdate ==
    /\ update = None /\ local # omap
    /\ update' = [st |-> omap, calls |-> Cardinality(Calls(local, omap)), todo |-> {},
                  look |-> None, sent |-> FALSE]
    /\ UNCHANGED <<conn, host, seen, local>> /\ UNCHANGED UpdateVars

NotifyStart ==
    /\ Running /\ update.todo = {} /\ update.look = None /\ update.calls > 0
    /\ update' = [update EXCEPT !.calls = @ - 1,
                                !.todo = {[fd |-> f, gen |-> conn[f].gen] : f \in Table}]
    /\ UNCHANGED <<conn, host, seen, local>> /\ UNCHANGED UpdateVars

\* The keys are in the order in which the connections were accepted.
NotifyLook ==
    /\ Running /\ update.look = None
    /\ \E k \in update.todo :
        /\ \A o \in update.todo : k.gen <= o.gen
        /\ update' = IF conn[k.fd] = None THEN Dead
                     ELSE [update EXCEPT !.todo = IF conn[k.fd].async THEN {} ELSE @ \ {k},
                                         !.look = IF conn[k.fd].async THEN k ELSE None]
    /\ UNCHANGED <<conn, host, seen, local>> /\ UNCHANGED UpdateVars

Looked == Running /\ update.look # None

\* The event goes to the connection that the file descriptor has now.  It may
\* fail when the host has gone, and nothing more is sent then.
NotifySend ==
    /\ Looked /\ ~update.sent
    /\ LET f == update.look.fd IN
       IF conn[f] = None THEN update' = Dead /\ UNCHANGED host
       ELSE \/ /\ update' = [update EXCEPT !.sent = TRUE]
               /\ host' = [h \in Hosts |->
                            IF Quits(h, f) THEN [host[h] EXCEPT !.armed = @ \ {conn[f].cmd}]
                            ELSE host[h]]
            \/ /\ conn[f].link # "up"
               /\ update' = [update EXCEPT !.look = None]
               /\ UNCHANGED host
    /\ UNCHANGED <<conn, seen, local>> /\ UNCHANGED UpdateVars

NotifyButWaiting == \* a mutation
    /\ Looked /\ update.sent
    /\ update' = [update EXCEPT !.look = None, !.sent = FALSE]
    /\ UNCHANGED <<conn, host, seen, local>> /\ UNCHANGED UpdateVars
NotifyEnd ==
    /\ Looked /\ update.sent
    /\ LET f == update.look.fd IN
       IF conn[f] = None THEN update' = Dead /\ UNCHANGED conn
       ELSE /\ update' = [update EXCEPT !.look = None, !.sent = FALSE]
            /\ conn' = [conn EXCEPT ![f].async = FALSE]
    /\ UNCHANGED <<host, seen, local>> /\ UNCHANGED UpdateVars

EndUpdate ==
    /\ Running /\ update.calls = 0 /\ update.todo = {} /\ update.look = None
    /\ local' = update.st
    /\ update' = None
    /\ UNCHANGED <<conn, host, seen>> /\ UNCHANGED UpdateVars

-----------------------------------------------------------------------------
HostStep(h) ==
    \/ Accept(h) \/ (\E asked \in BOOLEAN : Connect(h, asked))
    \/ PropertyGet(h) \/ Inquire(h) \/ KeepAlive(h)
    \/ \E cc \in {"on", "shut"} : PropertySet(h, cc)
    \/ \E k \in Cmds : StoreAsync(h, k)
    \/ ReadHeader(h) \/ ReadPart(h)
    \/ \E link \in Ways : Leave(h, link)

TimerStep == TimerStart \/ (\E f \in Fds : TimerLook(f)) \/ TimerClose
NotifyStep ==
    StartUpdate \/ NotifyStart \/ NotifyLook \/ NotifySend \/ NotifyEnd \/ EndUpdate

DiscoveryNext ==
    \/ \E e \in Entries : Change(e)
    \/ \E h \in Hosts : HostStep(h)
    \/ \E f \in Fds : Eof(f) \/ Tick(f)
    \/ Exit \/ TimerStep \/ NotifyStep

DiscoverySpec == DiscoveryInit /\ [][DiscoveryNext]_discoveryVars

\* Time passes, the timer looks at each connection, and the main loop handles
\* what can be read.
DiscoveryFairness ==
    /\ \A f \in Fds : WF_discoveryVars(Tick(f)) /\ WF_discoveryVars(Eof(f))
    /\ WF_discoveryVars(TimerStep)

FairDiscoverySpec == DiscoverySpec /\ DiscoveryFairness

(***************************************************************************)
(* Properties                                                              *)
(***************************************************************************)
\* A host that reads a whole page finds in it as many records as the header
\* said, and they are those the OMAP allowed it at one moment since it last
\* had a whole page, however the OMAP changes between the parts
\* (reply_get_log_page, which keeps the list and the page in between).
PageWasAllowed ==
    [][\A h \in Hosts :
          ReadPart(h) /\ host'[h].read = None =>
              LET page == Asked(Mine(h), Chunk).page IN
              page \in seen[h] /\ Cardinality(page) = host[h].read.numrec]_discoveryVars

\* A reply to Get Log Page holds as many bytes as were asked for.
RepliesAreWhole == \A h \in Hosts : host[h] # None => ~host[h].short

\* An event answers a command for events that the host has left on its
\* connection, and that no event has answered: unless the connection was
\* replaced while the update thread, which takes no lock, was about to send
\* (_state_notify_update and store_async).
EventsAreAskedFor ==
    [][\A h \in Hosts :
          Looked /\ ~update.sent /\ Quits(h, update.look.fd) /\ update' # Dead =>
              (update'.sent /\ Mine(h).gen = update.look.gen =>
                   Mine(h).cmd \in host[h].armed)]_discoveryVars

\* The connection of a host that is not heard of again is closed, unless the
\* timer has died of a KeyError (handle_timeout).
LostIsClosed ==
    \A f \in Fds, g \in 1..MaxConnects :
        (conn[f] # None /\ conn[f].gen = g /\ conn[f].nqn # None /\ conn[f].link = "lost")
            ~> (IF conn[f] = None THEN TRUE ELSE conn[f].gen # g \/ timer = Dead)

\* The connection of a host that has closed it is closed in the end.
LeftIsClosed ==
    \A f \in Fds, g \in 1..MaxConnects :
        (conn[f] # None /\ conn[f].gen = g /\ conn[f].nqn # None /\ conn[f].link = "eof")
            ~> (IF conn[f] = None THEN TRUE ELSE conn[f].gen # g \/ timer = Dead)

\* The timer closes only a connection whose time is over.
OnlyLateIsClosed ==
    [][TimerClose /\ conn[timer.closing] # None => conn[timer.closing].late]_discoveryVars

=============================================================================

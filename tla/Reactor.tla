------------------------------ MODULE Reactor ------------------------------
(***************************************************************************)
(* The multi-threaded reactor of lib/event-loop: a main event loop that    *)
(* accepts connections and hands each one, round robin, to one of PoolSize *)
(* loops, each with its own thread, channel map, epoll set, pending list   *)
(* and wake-up socket pair.  Written from event_loop.c, epoll_dispatcher.c,*)
(* event_loop_thread.c, thread_pool.c, tcp_server.c, tcp_connection.c.     *)
(*                                                                         *)
(* One step is what a loop's thread does between two points where another  *)
(* thread or the peer can interfere.  A critical section of the pending    *)
(* list's mutex is one step.  The kernel (descriptors, epoll sets, socket  *)
(* states) is part of the state, as far as these files use it.             *)
(***************************************************************************)
EXTENDS Integers, Sequences, FiniteSets

CONSTANTS
  PoolSize,      \* thread_pool->thread_number
  Conns,         \* the connections clients may open
  Fds,           \* the descriptors accept can return
  PairCapacity,  \* how many bytes a wake-up socket pair takes before write blocks
  None

Main    == 0                 \* the loop of the main thread
Workers == 1..PoolSize
Loops   == 0..PoolSize

ASSUME ReactorAssumption ==
  /\ PoolSize \in Nat
  /\ PairCapacity \in Nat \ {0}
  /\ Fds \subseteq Nat
  /\ None \notin Conns \cup Fds

VARIABLES
  pc,         \* where each loop's thread stands
  position,   \* thread_pool->position
  launched,   \* the sub-loop threads created so far
  batch,      \* per loop: events epoll_wait returned that are not handled yet
  pending,    \* per loop: the list of channel elements, each <<type, channel>>
  entries,    \* per loop: channelMap, the connection registered per descriptor
  watched,    \* per loop: the descriptors in its epoll set
  wake,       \* per loop: bytes in its wake-up socket pair
  current,    \* the connection Main is establishing, None if accept failed
  target,     \* the loop Main chose for it
  loopOf,     \* per connection: tcpConnection->eventLoop, Main before accept
  backlog,    \* kernel: connections not accepted yet
  fdOf,       \* per connection: channel->fd, None before accept
  owner,      \* kernel: the connection each open descriptor stands for
  net,        \* kernel: what waits on each connection, of {"data", "fin", "rst"}
  shut,       \* connections whose sending side the server shut down
  dataSet,    \* connections whose data field was assigned
  early,      \* history: connections with a message or closed callback before that
  closed      \* history: connections whose closed callback ran

loopVars == <<batch, pending, entries, watched, wake>>
mainVars == <<position, launched, current, target, loopOf>>
netVars  == <<backlog, fdOf, owner, net, shut>>
appVars  == <<dataSet, early, closed>>
vars     == <<pc, loopVars, mainVars, netVars, appVars>>

Init ==
  /\ pc = [l \in Loops |-> IF l = Main THEN "start" ELSE "off"]
  /\ position = 0 /\ launched = 0
  /\ batch = [l \in Loops |-> {}]
  /\ pending = [l \in Loops |-> << >>]
  /\ entries = [l \in Loops |-> [fd \in Fds |-> None]]
  /\ watched = [l \in Loops |-> {}]
  /\ wake = [l \in Loops |-> 0]
  /\ current = None /\ target = Main /\ loopOf = [c \in Conns |-> Main]
  /\ backlog = {} /\ fdOf = [c \in Conns |-> None] /\ owner = [fd \in Fds |-> None]
  /\ net = [c \in Conns |-> {}] /\ shut = {}
  /\ dataSet = {} /\ early = {} /\ closed = {}

Goto(l, from, to) == pc[l] = from /\ pc' = [pc EXCEPT ![l] = to]
-----------------------------------------------------------------------------
(* thread_pool_start: a thread per sub-loop, each awaited on a condition   *)
(* variable until its event loop exists; then the main loop listens.       *)
Launch ==
  /\ launched < PoolSize
  /\ pc[Main] = "start"
  /\ pc' = [pc EXCEPT ![Main] = "await", ![launched + 1] = "init"]
  /\ launched' = launched + 1
  /\ UNCHANGED <<loopVars, position, current, target, loopOf, netVars, appVars>>

InitLoop(l) ==
  /\ Goto(l, "init", "dispatch")
  /\ UNCHANGED <<loopVars, mainVars, netVars, appVars>>

Awaited ==
  /\ pc[launched] \notin {"off", "init"}
  /\ Goto(Main, "await", "start")
  /\ UNCHANGED <<loopVars, mainVars, netVars, appVars>>

Listen ==
  /\ launched = PoolSize
  /\ Goto(Main, "start", "dispatch")
  /\ UNCHANGED <<loopVars, mainVars, netVars, appVars>>
-----------------------------------------------------------------------------
(* epoll_dispatch.  An event is <<kind, descriptor>>; the wake-up pair and *)
(* the listening socket, registered once and for all, have none.           *)
Hup(c)      == "rst" \in net[c] \/ ("fin" \in net[c] /\ c \in shut)
Readable(c) == net[c] # {}

Events(l) ==
  (IF wake[l] > 0 THEN {<<"wake", None>>} ELSE {})
  \cup (IF l = Main /\ backlog # {} THEN {<<"listen", None>>} ELSE {})
  \cup {<<"hup", fd>> : fd \in {f \in watched[l] : Hup(owner[f])}}
  \cup {<<"in", fd>> : fd \in {f \in watched[l] : ~Hup(owner[f]) /\ Readable(owner[f])}}

\* epoll_wait sleeps until something is ready.
Dispatch(l) ==
  /\ Events(l) # {}
  /\ Goto(l, "dispatch", "events")
  /\ batch' = [batch EXCEPT ![l] = Events(l)]
  /\ UNCHANGED <<pending, entries, watched, wake, mainVars, netVars, appVars>>

\* The loop takes one event of its batch.
Event(l, e) ==
  /\ pc[l] = "events"
  /\ e \in batch[l]
  /\ batch' = [batch EXCEPT ![l] = @ \ {e}]

\* handleWakeup reads one byte.
HandleWakeup(l) ==
  /\ Event(l, <<"wake", None>>)
  /\ wake' = [wake EXCEPT ![l] = @ - 1]
  /\ UNCHANGED <<pc, pending, entries, watched, mainVars, netVars, appVars>>

\* EPOLLERR or EPOLLHUP: the descriptor is closed, and nothing else is done.  With
\* it the kernel drops the socket and its place in the epoll set.
HangUp(l, fd) ==
  /\ Event(l, <<"hup", fd>>)
  /\ owner' = [owner EXCEPT ![fd] = None]
  /\ watched' = [watched EXCEPT ![l] = @ \ {fd}]
  /\ net' = [net EXCEPT ![owner[fd]] = {}]
  /\ shut' = shut \ {owner[fd]}
  /\ UNCHANGED <<pc, pending, entries, wake, mainVars, backlog, fdOf, appVars>>
-----------------------------------------------------------------------------
(* The pending list of a loop: event_loop_handle_pending_add and _remove,  *)
(* and the walk over the list.  `at' is the map and epoll set so far.      *)
PendingAddUnmapped(at, c) ==
  LET fd == fdOf[c] IN
  IF c = None THEN at
  ELSE [at EXCEPT !.entries[fd] = IF @ = None THEN c ELSE @, !.watched = @ \cup {fd}]
PendingAddPositive(at, c) ==
  LET fd == fdOf[c] IN
  IF c = None \/ fd <= 0 \/ at.entries[fd] # None THEN at
  ELSE [entries |-> [at.entries EXCEPT ![fd] = c], watched |-> at.watched \cup {fd}]
PendingAdd(at, c) ==
  LET fd == fdOf[c] IN
  IF c = None \/ at.entries[fd] # None THEN at
  ELSE [entries |-> [at.entries EXCEPT ![fd] = c], watched |-> at.watched \cup {fd}]

PendingRemove(at, c) ==
  [entries |-> [at.entries EXCEPT ![fdOf[c]] = None], watched |-> at.watched \ {fdOf[c]}]

HandleElement(at, e) == IF e[1] = "add" THEN PendingAdd(at, e[2]) ELSE PendingRemove(at, e[2])

\* The walk: map and epoll set after the first i elements.
PendingWalk(l, list) ==
  LET at[i \in 0..Len(list)] ==
        IF i = 0 THEN [entries |-> entries[l], watched |-> watched[l]]
        ELSE HandleElement(at[i - 1], list[i])
  IN at

HandlePending(l, list) ==
  LET after == PendingWalk(l, list)[Len(list)] IN
  /\ entries' = [entries EXCEPT ![l] = after.entries]
  /\ watched' = [watched EXCEPT ![l] = after.watched]
  /\ pending' = [pending EXCEPT ![l] = << >>]

\* The end of one turn of event_loop_run.
EndOfTurn(l) ==
  /\ batch[l] = {}
  /\ Goto(l, "events", "dispatch")
  /\ HandlePending(l, pending[l])
  /\ UNCHANGED <<batch, wake, mainVars, netVars, appVars>>

\* A callback of c that reads tcpConnection->data before the main thread assigned it.
CallsBack(c) == early' = IF c \in dataSet THEN early ELSE early \cup {c}

\* channel_event_activate takes the entry of the descriptor without looking at it.
Activated(l, fd) == entries[l][fd]

\* handle_read on a connection with bytes to read: the message callback, which may
\* shut the sending side down.
Message(l, fd) ==
  LET c == Activated(l, fd) IN
  /\ Event(l, <<"in", fd>>)
  /\ c # None
  /\ "data" \in net[owner[fd]]
  /\ net' = [net EXCEPT ![owner[fd]] = @ \ {"data"}]
  /\ CallsBack(c)
  /\ shut' \in {shut, shut \cup {c}}
  /\ UNCHANGED <<pc, pending, entries, watched, wake, mainVars, backlog, fdOf, owner, dataSet, closed>>

\* handle_read at end of file or on an error: handle_connection_closed removes the
\* channel, through the pending list and at once, and runs the closed callback.
Closed(l, fd) ==
  LET c == Activated(l, fd) IN
  /\ Event(l, <<"in", fd>>)
  /\ c # None
  /\ "data" \notin net[owner[fd]]
  /\ HandlePending(l, Append(pending[l], <<"remove", c>>))
  /\ closed' = closed \cup {c}
  /\ CallsBack(c)
  /\ UNCHANGED <<pc, wake, mainVars, netVars, dataSet>>
-----------------------------------------------------------------------------
(* handle_connection_established, in the main loop.                        *)
Free == {fd \in Fds : owner[fd] = None}

\* thread_pool_get_loop.
NextPositionLate == IF position + 1 > PoolSize THEN 0 ELSE position + 1
NextPosition     == IF position + 1 >= PoolSize THEN 0 ELSE position + 1

GetLoop ==
  /\ target' = IF PoolSize > 0 THEN position + 1 ELSE Main
  /\ position' = IF PoolSize > 0 THEN NextPosition ELSE position

Accept(c, fd) ==
  /\ Event(Main, <<"listen", None>>)
  /\ c \in backlog /\ backlog' = backlog \ {c}
  /\ fd \in Free /\ \A g \in Free : fd <= g            \* the lowest free descriptor
  /\ owner' = [owner EXCEPT ![fd] = c]
  /\ fdOf' = [fdOf EXCEPT ![c] = fd]
  /\ GetLoop
  /\ loopOf' = [loopOf EXCEPT ![c] = target']
  /\ current' = c
  /\ pc' = [pc EXCEPT ![Main] = "add"]
  /\ UNCHANGED <<pending, entries, watched, wake, launched, net, shut, appVars>>

\* No descriptor is left: accept returns -1, which goes on as a descriptor.
AcceptFails ==
  /\ Event(Main, <<"listen", None>>)
  /\ Free = {}
  /\ GetLoop
  /\ current' = None
  /\ pc' = [pc EXCEPT ![Main] = "add"]
  /\ UNCHANGED <<pending, entries, watched, wake, launched, loopOf, netVars, appVars>>

\* event_loop_do_channel_event on the chosen loop, up to the unlock; the main loop
\* itself handles its list at once.
Register ==
  LET list == Append(pending[target], <<"add", current>>) IN
  /\ pc[Main] = "add"
  /\ IF target = Main
     THEN HandlePending(Main, list) /\ pc' = [pc EXCEPT ![Main] = "data"]
     ELSE /\ pending' = [pending EXCEPT ![target] = list]
          /\ pc' = [pc EXCEPT ![Main] = "wake"]
          /\ UNCHANGED <<entries, watched>>
  /\ UNCHANGED <<batch, wake, mainVars, netVars, appVars>>

\* event_loop_wakeup: the write blocks when the socket pair is full.
WakeupForgotten ==
  /\ Goto(Main, "wake", "data")
  /\ UNCHANGED <<loopVars, mainVars, netVars, appVars>>
Wakeup ==
  /\ wake[target] < PairCapacity
  /\ Goto(Main, "wake", "data")
  /\ wake' = [wake EXCEPT ![target] = @ + 1]
  /\ UNCHANGED <<batch, pending, entries, watched, mainVars, netVars, appVars>>

\* tcpConnection->data = tcpServer->data.
SetDataForgotten ==
  /\ Goto(Main, "data", "events")
  /\ UNCHANGED <<loopVars, mainVars, netVars, appVars>>
SetData ==
  /\ Goto(Main, "data", "events")
  /\ dataSet' = IF current = None THEN dataSet ELSE dataSet \cup {current}
  /\ UNCHANGED <<loopVars, mainVars, netVars, early, closed>>
-----------------------------------------------------------------------------
(* The peers.  What reaches a connection after its end was handled is     *)
(* never looked at, and left out.                                          *)
Live(c) == c \in backlog \/ (fdOf[c] # None /\ owner[fdOf[c]] = c /\ c \notin closed)

Connect(c) ==
  /\ c \notin backlog /\ fdOf[c] = None
  /\ backlog' = backlog \cup {c}
  /\ UNCHANGED <<pc, loopVars, mainVars, fdOf, owner, net, shut, appVars>>

Arrive(c, what) ==
  /\ Live(c) /\ net[c] \cap {"fin", "rst", what} = {}
  /\ net' = [net EXCEPT ![c] = IF what = "rst" THEN {"rst"} ELSE @ \cup {what}]
  /\ UNCHANGED <<pc, loopVars, mainVars, backlog, fdOf, owner, shut, appVars>>

\* Every loop sleeps in epoll_wait, with nothing to report.
Quiet ==
  /\ \A l \in Loops : pc[l] = "dispatch" /\ Events(l) = {}
  /\ UNCHANGED vars
-----------------------------------------------------------------------------
Callback(l, fd) == Message(l, fd) \/ Closed(l, fd)
LoopStep(l) ==
  \/ InitLoop(l) \/ Dispatch(l) \/ HandleWakeup(l) \/ EndOfTurn(l)
  \/ \E fd \in Fds : HangUp(l, fd) \/ Callback(l, fd)
StartStep == Launch \/ Awaited \/ Listen
HandOver ==
  \/ \E c \in Conns, fd \in Fds : Accept(c, fd)
  \/ AcceptFails \/ Register \/ Wakeup \/ SetData
Peer == \E c \in Conns : Connect(c) \/ \E what \in {"data", "fin", "rst"} : Arrive(c, what)

Next == StartStep \/ HandOver \/ (\E l \in Loops : LoopStep(l)) \/ Peer \/ Quiet

Spec == Init /\ [][Next]_vars

\* Every loop's thread runs, and callbacks return; peers do as they like.
Fairness ==
  /\ WF_vars(StartStep \/ HandOver \/ LoopStep(Main))
  /\ \A l \in Workers : WF_vars(LoopStep(l))

FairSpec == Spec /\ Fairness
-----------------------------------------------------------------------------
EventTypes == {"wake", "listen", "hup", "in"} \X (Fds \cup {None})
Channels == Conns \cup {None}

TypeOK ==
  /\ pc \in [Loops -> {"off", "init", "start", "await", "dispatch", "events", "add", "wake", "data"}]
  /\ position \in 0..PoolSize /\ (PoolSize > 0 => position < PoolSize)
  /\ launched \in 0..PoolSize
  /\ batch \in [Loops -> SUBSET EventTypes]
  /\ pending \in [Loops -> Seq({"add"} \X Channels)]
  /\ entries \in [Loops -> [Fds -> Channels]]
  /\ watched \in [Loops -> SUBSET Fds]
  /\ wake \in [Loops -> 0..PairCapacity]
  /\ current \in Channels /\ target \in Loops /\ loopOf \in [Conns -> Loops]
  /\ backlog \subseteq Conns
  /\ fdOf \in [Conns -> Fds \cup {None}] /\ owner \in [Fds -> Channels]
  /\ net \in [Conns -> SUBSET {"data", "fin", "rst"}]
  /\ shut \subseteq Conns /\ dataSet \subseteq Conns
  /\ early \subseteq Conns /\ closed \subseteq Conns

(* No wake-up is lost: a loop never sleeps in epoll_wait on a list of      *)
(* channels to register unless a wake-up byte is there or about to be      *)
(* written.  The order of append, wake-up, reading the byte and walking    *)
(* the list is what makes it so.                                           *)
NoLostWakeup ==
  \A l \in Loops : pc[l] = "dispatch" /\ pending[l] # << >> =>
     wake[l] > 0 \/ (pc[Main] = "wake" /\ target = l)

(* An event on a descriptor reaches the connection the descriptor stands   *)
(* for, in one loop only, although descriptors are reused and channel maps *)
(* are per loop; and whatever was removed since epoll_wait returned, an    *)
(* event still to be handled has its channel: channel_event_activate never *)
(* dereferences a NULL entry.                                              *)
RightConnection ==
  \A l \in Loops : \A fd \in Fds :
     /\ fd \in watched[l] =>
          /\ owner[fd] # None /\ entries[l][fd] = owner[fd]
          /\ \A k \in Loops \ {l} : fd \notin watched[k]
     /\ pc[l] = "events" /\ <<"in", fd>> \in batch[l] =>
          Activated(l, fd) = owner[fd] /\ owner[fd] # None

\* The registration of c waits in a list, or Main is about to put it there.
Listed(l, c) == \E i \in DOMAIN pending[l] : pending[l][i] = <<"add", c>>
InFlight(c)  == (current = c /\ pc[Main] = "add") \/ \E l \in Loops : Listed(l, c)

\* The loop that was chosen for c watches it.
Watching(c) == fdOf[c] \in watched[loopOf[c]]

\* The map of the loop chosen for c still holds a hung-up connection under the
\* descriptor of c.
Shadowed(c) == fdOf[c] # None /\ entries[loopOf[c]][fdOf[c]] \notin {None, c}

(* tcp_connection.c:96: the channel of a new connection is registered with *)
(* the dispatcher of its loop: once the registration was handled, the loop *)
(* chosen for it watches the connection until its closed callback.         *)
Attended ==
  \A c \in Conns : Live(c) /\ c \notin backlog /\ ~InFlight(c) => Watching(c)

(* What the code does guarantee: a connection can miss registration only   *)
(* because the map of the loop chosen for it still holds an earlier        *)
(* connection that was hung up under the same descriptor.  A stale entry   *)
(* in the map of any other loop does no harm.                              *)
AttendedUnlessShadowed ==
  \A c \in Conns : Live(c) /\ c \notin backlog /\ ~InFlight(c) => Watching(c) \/ Shadowed(c)

(* The message and closed callbacks can find tcpConnection->data unset     *)
(* only while the main thread is between registering that connection and   *)
(* setting it.  (The connection-completed callback finds it unset always:  *)
(* tcp_connection_new runs it before it returns, tcp_connection.c:92.)     *)
UnsetWindow ==
  [][\A c \in early' \ early : current = c /\ pc[Main] \in {"wake", "data"}]_vars

(* Bytes that reach a connection are read, and its end is noticed by the   *)
(* closed callback or by closing the descriptor, unless no descriptor is   *)
(* left for it or it is shadowed.                                          *)
Unaccepted(c) == c \in backlog /\ Free = {}
Served ==
  \A c \in Conns :
    /\ "data" \in net[c] ~> "data" \notin net[c] \/ ~Live(c) \/ Shadowed(c) \/ Unaccepted(c)
    /\ net[c] \cap {"fin", "rst"} # {} ~> ~Live(c) \/ Shadowed(c) \/ Unaccepted(c)
=============================================================================

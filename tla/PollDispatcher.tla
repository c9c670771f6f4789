--------------------------- MODULE PollDispatcher ---------------------------
(***************************************************************************)
(* An event loop whose dispatcher is poll (poll_dispatcher.c), as the      *)
(* library is built where there is no epoll, in a server without threads   *)
(* of its own (thread_num 0): the callbacks poll_dispatch runs while it    *)
(* walks over its array accept connections into that array and take        *)
(* closed ones out of it.  With the channel map that grows by doubling.    *)
(***************************************************************************)
EXTENDS Integers, Sequences, FiniteSets, FiniteSetsExt, SequencesExt

CONSTANTS
  INIT_POLL_SIZE,   \* slots of the array
  INIT_MAP_SIZE,    \* 32 in map_make_space
  LastFd            \* bound: the last descriptor accept returns

VARIABLES
  event_set,      \* the array: descriptor, or -1, and what poll found for it
  i,              \* how far poll_dispatch has walked
  ready_number,   \* how many it still looks for; 0 means it is about to poll
  entries,        \* channelMap: the descriptors that have a channel ...
  nentries,       \* ... and how many it has room for
  lastFd,         \* kernel: the descriptors up to this one are open
  readable,       \* kernel: descriptors with something to read ...
  ended,          \* ... and those that are at their end
  polled,         \* history: what the last poll reported,
  activated,      \* the channels activated since, in order,
  turnedAway      \* and the descriptors that found the array full

dispatcher == <<event_set, i, ready_number, entries, nentries>>
kernel     == <<lastFd, readable, ended>>
history    == <<polled, activated, turnedAway>>
pollVars   == <<dispatcher, kernel, history>>

\* event_loop_init makes the pair before the acceptor gets its socket.
pair == 1
listen_fd == 2
Slots == 0 .. INIT_POLL_SIZE - 1
Unreported(fd) == [fd |-> fd, revents |-> FALSE]

\* map_make_space doubles until there is room.
Room(n, fd) ==
  LET doubled[k \in 0..fd + 1] == IF k = 0 THEN n ELSE 2 * doubled[k - 1]
  IN Min({m \in {doubled[k] : k \in 0..fd + 1} : m > fd})
SpaceFor(fd) == Room(IF nentries = 0 THEN INIT_MAP_SIZE ELSE nentries, fd)
-----------------------------------------------------------------------------
(* poll_add takes the first vacant slot, poll_del empties the first that   *)
(* has the descriptor.                                                     *)
VacantSlots(set) == {s \in Slots : set[s].fd < 0}
SlotsOf(set, fd) == {s \in Slots : set[s].fd = fd}

PollAddNoBreak(set, fd) ==
  [s \in Slots |-> IF s \in VacantSlots(set) THEN [set[s] EXCEPT !.fd = fd] ELSE set[s]]
poll_add(set, fd) ==
  IF VacantSlots(set) = {} THEN set ELSE [set EXCEPT ![Min(VacantSlots(set))].fd = fd]
poll_del(set, fd) ==
  IF SlotsOf(set, fd) = {} THEN set ELSE [set EXCEPT ![Min(SlotsOf(set, fd))].fd = -1]

Init ==
  /\ event_set = [s \in Slots |-> IF s = 0 THEN Unreported(pair)
                                  ELSE IF s = 1 THEN Unreported(listen_fd) ELSE Unreported(-1)]
  /\ i = 0 /\ ready_number = 0
  /\ entries = {pair, listen_fd}
  /\ nentries = Room(Room(INIT_MAP_SIZE, pair), listen_fd)
  /\ lastFd = listen_fd /\ readable = {} /\ ended = {}
  /\ polled = {} /\ activated = <<>> /\ turnedAway = {}
-----------------------------------------------------------------------------
(* The peers.                                                              *)
Connections == listen_fd + 1 .. lastFd

Arrive(fd) ==
  /\ fd \in {listen_fd} \cup (Connections \ ended)
  /\ readable' = readable \cup {fd}
  /\ UNCHANGED <<dispatcher, lastFd, ended, history>>

End(fd) ==
  /\ fd \in Connections
  /\ ended' = ended \cup {fd}
  /\ UNCHANGED <<dispatcher, lastFd, readable, history>>
-----------------------------------------------------------------------------
(* poll_dispatch.                                                          *)
Ready(fd) == fd \in readable \cup ended
Reported  == {s \in Slots : event_set[s].fd >= 0 /\ Ready(event_set[s].fd)}

\* The slots the walk will still come to that poll reported.
Ahead    == {s \in Slots : s >= i /\ event_set[s].fd >= 0 /\ event_set[s].revents}
Sleeping == ready_number = 0 \/ Ahead = {}

Poll ==
  /\ Sleeping /\ Reported # {}
  /\ event_set' = [s \in Slots |-> [event_set[s] EXCEPT !.revents = s \in Reported]]
  /\ i' = 0
  /\ ready_number' = Cardinality(Reported)
  /\ polled' = {event_set[s].fd : s \in Reported}
  /\ activated' = <<>>
  /\ UNCHANGED <<entries, nentries, kernel, turnedAway>>

\* channel_event_activate of the next one, if the map has its channel.
Activate(fd) ==
  /\ ~Sleeping
  /\ fd = event_set[Min(Ahead)].fd
  /\ i' = Min(Ahead) + 1
  /\ ready_number' = ready_number - 1
  /\ activated' = IF fd < nentries /\ fd \in entries THEN Append(activated, fd) ELSE activated
  /\ UNCHANGED polled

\* handle_connection_established: event_loop_handle_pending_add, at once.  More clients
\* may wait.
Accept ==
  LET fd == lastFd + 1 IN
  /\ Activate(listen_fd)
  /\ fd <= LastFd
  /\ lastFd' = fd
  /\ readable' \in {readable, readable \ {listen_fd}}
  /\ nentries' = SpaceFor(fd)
  /\ entries' = entries \cup {fd}
  /\ event_set' = poll_add(event_set, fd)
  /\ turnedAway' = IF VacantSlots(event_set) = {} THEN turnedAway \cup {fd} ELSE turnedAway
  /\ UNCHANGED ended

\* No descriptor is left, and -1 is not registered; the client goes on waiting.
AcceptFails ==
  /\ Activate(listen_fd)
  /\ lastFd = LastFd
  /\ UNCHANGED <<event_set, entries, nentries, kernel, turnedAway>>

Message(fd) ==
  /\ Activate(fd) /\ fd \in readable \cap Connections
  /\ readable' = readable \ {fd}
  /\ UNCHANGED <<event_set, entries, nentries, lastFd, ended, turnedAway>>

\* handle_connection_closed: event_loop_handle_pending_remove, at once.  The descriptor
\* stays open.
Closed(fd) ==
  /\ Activate(fd) /\ fd \in (ended \ readable) \cap Connections
  /\ event_set' = poll_del(event_set, fd)
  /\ entries' = entries \ {fd}
  /\ UNCHANGED <<nentries, kernel, turnedAway>>

Next ==
  \/ Poll \/ Accept \/ AcceptFails
  \/ \E fd \in listen_fd .. LastFd : Arrive(fd) \/ End(fd) \/ Message(fd) \/ Closed(fd)

Spec == Init /\ [][Next]_pollVars
-----------------------------------------------------------------------------
(* Though callbacks change the array under the walk, each channel that     *)
(* poll reported is activated once, and none is missed, before the loop    *)
(* polls again: the early end by ready_number never cuts the walk short.   *)
(* A channel of the map lies within it and is polled through one slot, and *)
(* no other descriptor is; except for the connections that found the array *)
(* full, which stay in the map and are never heard.                        *)
ReadyServedOnce ==
  /\ IsInjective(activated) /\ ToSet(activated) \subseteq polled
  /\ Sleeping => ToSet(activated) = polled
  /\ \A fd \in 0..LastFd :
       /\ Cardinality(SlotsOf(event_set, fd)) = IF fd \in entries \ turnedAway THEN 1 ELSE 0
       /\ fd \in entries => fd < nentries
=============================================================================

----------------------------- MODULE EdgeServer -----------------------------
(***************************************************************************)
(* The edge-triggered server of chap-23: epoll reports a descriptor once   *)
(* for what has arrived, so main must go on until nothing is left.  Its    *)
(* read loop does; but it counts bytes in the n and i that main walks its  *)
(* batch with, so the batch ends with the first connection in it that is   *)
(* read, and accept is called once however many clients wait.              *)
(***************************************************************************)
EXTENDS Integers, Sequences, SequencesExt, FiniteSetsExt

CONSTANTS
  Client,
  Listener,    \* listen_fd
  MAXEVENTS,
  BufSize,     \* sizeof(buf)
  MaxSent      \* bound: bytes a client sends

VARIABLES
  place,       \* of a client: "away", "backlog", "served", "closed" (by the server)
  sent,        \* bytes each client has sent
  unread,      \* of these, what the server has not read
  answered,    \* and what it has written back
  over,        \* "open", "fin" or "reset": how the client's side ended
  ready,       \* the kernel: descriptors with an event to report, in order
  events,      \* events[i] and those behind it: descriptor, and whether it is an error
  at,          \* main: "wait" in epoll_wait, "walk" or "read" in the loops, or "exited"
  missed,      \* whose event was dropped, and none has come since
  short        \* clients who got a part of an answer

edgeVars == <<place, sent, unread, answered, over, ready, events, at, missed, short>>

Waiting == {c \in Client : place[c] = "backlog"}
Readable(fd) == IF fd = Listener THEN Waiting # {} ELSE unread[fd] > 0 \/ over[fd] # "open"

Init ==
  /\ place = [c \in Client |-> "away"] /\ over = [c \in Client |-> "open"]
  /\ sent = [c \in Client |-> 0] /\ unread = sent /\ answered = sent
  /\ ready = <<>> /\ events = <<>> /\ at = "wait" /\ missed = {} /\ short = {}
-----------------------------------------------------------------------------
(* Something arrives for fd: the kernel reports it at the next epoll_wait. *)
Edge(fd) ==
  /\ ready' = IF fd \in ToSet(ready) THEN ready ELSE Append(ready, fd)
  /\ missed' = missed \ {fd}
EdgeOf(c) ==
  IF place[c] = "served" THEN Edge(c) ELSE UNCHANGED <<ready, missed>>

Connect(c) ==
  /\ place[c] = "away" /\ at # "exited"
  /\ place' = [place EXCEPT ![c] = "backlog"]
  /\ Edge(Listener)
  /\ UNCHANGED <<sent, unread, answered, over, events, at, short>>

Send(c) ==
  /\ at # "exited" /\ place[c] \in {"backlog", "served"}
  /\ over[c] = "open" /\ sent[c] < MaxSent
  /\ sent' = [sent EXCEPT ![c] = @ + 1] /\ unread' = [unread EXCEPT ![c] = @ + 1]
  /\ EdgeOf(c)
  /\ UNCHANGED <<place, answered, over, events, at, short>>

End(c, how) ==
  /\ at # "exited" /\ place[c] \in {"backlog", "served"} /\ over[c] = "open"
  /\ over' = [over EXCEPT ![c] = how]
  /\ unread' = IF how = "reset" THEN [unread EXCEPT ![c] = 0] ELSE unread
  /\ EdgeOf(c)
  /\ UNCHANGED <<place, sent, answered, events, at, short>>
-----------------------------------------------------------------------------
\* The members of s that are in S, in their order.
Among(s, S) ==
  LET among[k \in 0..Len(s)] ==
        IF k = 0 THEN <<>>
        ELSE IF s[k] \in S THEN Append(among[k - 1], s[k]) ELSE among[k - 1]
  IN among[Len(s)]

Live == Among(ready, {fd \in ToSet(ready) : Readable(fd)})
EpollWait ==
  LET n == Min({Len(Live), MAXEVENTS}) IN
  /\ at = "wait" /\ n > 0
  /\ events' = [i \in 1..n |->
                  [fd |-> Live[i], error |-> Live[i] \in Client /\ over[Live[i]] = "reset"]]
  /\ ready' = SubSeq(Live, n + 1, Len(Live))
  /\ at' = "walk"
  /\ UNCHANGED <<place, sent, unread, answered, over, missed, short>>

Event == Head(events)

\* A closed descriptor leaves the epoll set.
Close(c) ==
  /\ place' = [place EXCEPT ![c] = "closed"]
  /\ ready' = Among(ready, ToSet(ready) \ {c})

EpollError ==
  /\ at = "walk" /\ events # <<>> /\ Event.error
  /\ Close(Event.fd)
  /\ events' = Tail(events)
  /\ UNCHANGED <<sent, unread, answered, over, at, missed, short>>

Accept(c) ==
  /\ at = "walk" /\ events # <<>> /\ Event.fd = Listener /\ c \in Waiting
  /\ place' = [place EXCEPT ![c] = "served"]
  /\ ready' = IF Readable(c) THEN Append(ready, c) ELSE ready
  /\ events' = Tail(events)
  /\ missed' = IF Waiting # {c} /\ Listener \notin ToSet(ready)
                 THEN missed \cup {Listener} ELSE missed
  /\ UNCHANGED <<sent, unread, answered, over, at, short>>

\* There may be no descriptor left for accept.
AcceptFails ==
  /\ at = "walk" /\ events # <<>> /\ Event.fd = Listener
  /\ at' = "exited"
  /\ UNCHANGED <<place, sent, unread, answered, over, ready, events, missed, short>>

Serve ==
  /\ at = "walk" /\ events # <<>> /\ Event.fd \in Client /\ ~Event.error
  /\ at' = "read"
  /\ UNCHANGED <<place, sent, unread, answered, over, ready, events, missed, short>>

EndOfBatch ==
  /\ at = "walk" /\ events = <<>> /\ at' = "wait"
  /\ UNCHANGED <<place, sent, unread, answered, over, ready, events, missed, short>>
-----------------------------------------------------------------------------
(* The read loop.  n is -1 or 0 behind it, and i < n ends the walk.        *)
NothingLeft(c) == unread[c] = 0

\* What the socket takes of the answer is up to how fast the client reads.
Read(c, written) ==
  LET n == Min({unread[c], BufSize}) IN
  /\ at = "read" /\ c = Event.fd /\ ~NothingLeft(c) /\ written <= n
  /\ unread' = [unread EXCEPT ![c] = @ - n]
  /\ answered' = [answered EXCEPT ![c] = @ + written]
  /\ short' = IF written < n THEN short \cup {c} ELSE short
  /\ at' = IF written = 0 THEN "exited" ELSE at
  /\ UNCHANGED <<place, sent, over, ready, events, missed>>

DropRest(fds) == missed' = (missed \cup fds) \ ToSet(ready')

NothingMore(c) ==
  /\ at = "read" /\ c = Event.fd /\ NothingLeft(c)
  /\ CASE over[c] = "open"  -> at' = "wait" /\ UNCHANGED <<place, ready>>     \* EAGAIN
       [] over[c] = "fin"   -> at' = "wait" /\ Close(c)
       [] over[c] = "reset" -> at' = "exited" /\ UNCHANGED <<place, ready>>
  /\ events' = <<>>
  /\ DropRest({e.fd : e \in ToSet(Tail(events))})
  /\ UNCHANGED <<sent, unread, answered, over, short>>

Next ==
  \/ \E c \in Client :
       \/ Connect(c) \/ Send(c) \/ End(c, "fin") \/ End(c, "reset")
       \/ Accept(c) \/ NothingMore(c)
       \/ \E written \in 0..BufSize : Read(c, written)
  \/ EpollWait \/ EpollError \/ AcceptFails \/ Serve \/ EndOfBatch

Spec == Init /\ [][Next]_edgeVars
-----------------------------------------------------------------------------
(* While main sleeps in epoll_wait, whoever has something for it is about  *)
(* to be reported, or is one whose event main had and dropped: it was in a *)
(* batch behind a connection that was read, or waited with another one for *)
(* accept.  Every other client has been answered for all it sent, but for  *)
(* what a full socket refused, also when it is closed in an orderly way.   *)
HeardUnlessMissed ==
  at = "wait" =>
    /\ \A fd \in {Listener} \cup {c \in Client : place[c] = "served"} :
         Readable(fd) => fd \in ToSet(ready) \cup missed
    /\ \A c \in Client \ (missed \cup short) :
         \/ place[c] = "closed" /\ over[c] = "fin"
         \/ place[c] = "served" /\ over[c] = "open" /\ c \notin ToSet(ready)
         => answered[c] = sent[c]
=============================================================================

-------------------------------- MODULE Echo --------------------------------
(***************************************************************************)
(* The select server of chap-22 (nonblocking_server.c): one Buffer for     *)
(* each descriptor, all of them made at the start; a line that has been    *)
(* read is sent back in rot13.  A client sends, half-closes and reads when *)
(* it likes.                                                               *)
(***************************************************************************)
EXTENDS Integers, Sequences, SequencesExt

CONSTANTS
  FD_INIT_SIZE,   \* Buffers: descriptors 1 .. FD_INIT_SIZE-1 are for connections
  MAX_LINE,       \* bytes of a Buffer
  Window,         \* bytes a socket takes before send returns EAGAIN
  MaxBytes        \* bound: bytes all clients send

\* Descriptor 0 stands for the listening socket and those opened before it.
Fds == 1 .. FD_INIT_SIZE - 1
listen_fd == 0

VARIABLES
  buffer,              \* the Buffer of each descriptor; data ends at writeIndex
  socket,              \* what the kernel has for each descriptor
  readset, writeset,   \* what select returned
  i,                   \* how far the loop over the descriptors is; -1 is select
  waiting,             \* a connection can be accepted
  fate,                \* "running", or how main ended
  got, gave,           \* history: bytes read from and sent to the connection
  inherited,           \* history: its Buffer when it was accepted
  dropped,             \* history: bytes of it found the Buffer full
  bytes                \* history: bytes sent by all clients

sets    == <<readset, writeset>>
history == <<got, gave, inherited, dropped, bytes>>
echoVars == <<buffer, socket, sets, i, waiting, fate, history>>

rot13_char == [c \in {"a", "n", "eol"} |-> CASE c = "a" -> "n" [] c = "n" -> "a" [] OTHER -> c]
Rot13(s) == [k \in 1..Len(s) |-> rot13_char[s[k]]]

\* alloc_Buffer.
EmptyBuffer == [connect_fd |-> 0, data |-> <<>>, readIndex |-> 0, readable |-> FALSE]
Closed == [open |-> FALSE, in |-> <<>>, out |-> <<>>, eof |-> FALSE]

Init ==
  /\ buffer = [f \in Fds |-> EmptyBuffer]
  /\ socket = [f \in Fds |-> Closed]
  /\ readset = {} /\ writeset = {} /\ i = -1
  /\ waiting = FALSE /\ fate = "running"
  /\ got = [f \in Fds |-> <<>>] /\ gave = [f \in Fds |-> <<>>]
  /\ inherited = [f \in Fds |-> EmptyBuffer] /\ dropped = [f \in Fds |-> FALSE]
  /\ bytes = 0

Pending(b) == SubSeq(b.data, b.readIndex + 1, Len(b.data))
-----------------------------------------------------------------------------
(* The clients.                                                            *)
Connect == ~waiting /\ waiting' = TRUE /\ UNCHANGED <<buffer, socket, sets, i, fate, history>>

SendByte(f, c) ==
  /\ socket[f].open /\ ~socket[f].eof /\ bytes < MaxBytes
  /\ socket' = [socket EXCEPT ![f].in = Append(@, c)]
  /\ bytes' = bytes + 1
  /\ UNCHANGED <<buffer, sets, i, waiting, fate, got, gave, inherited, dropped>>

HalfClose(f) ==
  /\ socket[f].open /\ ~socket[f].eof
  /\ socket' = [socket EXCEPT ![f].eof = TRUE]
  /\ UNCHANGED <<buffer, sets, i, waiting, fate, history>>

ReadAnswer(f) ==
  /\ socket[f].out # <<>>
  /\ socket' = [socket EXCEPT ![f].out = <<>>]
  /\ UNCHANGED <<buffer, sets, i, waiting, fate, history>>
-----------------------------------------------------------------------------
(* The server.                                                             *)
Connected == {f \in Fds : buffer[f].connect_fd > 0}
CanRead   == {f \in Connected : socket[f].in # <<>> \/ socket[f].eof}
             \cup (IF waiting THEN {listen_fd} ELSE {})
CanWrite  == {f \in Connected : buffer[f].readable /\ Len(socket[f].out) < Window}

Select ==
  /\ fate = "running" /\ i = -1
  /\ CanRead \cup CanWrite # {}
  /\ readset' = CanRead /\ writeset' = CanWrite
  /\ i' = listen_fd
  /\ UNCHANGED <<buffer, socket, waiting, fate, history>>

\* accept returns the lowest descriptor that is free.  FD_INIT_SIZE passes the test of
\* main and is one more than the last index of the array.
FreeFds == {f \in Fds : ~socket[f].open}
Lowest(f) == f \in FreeFds /\ \A g \in FreeFds : f <= g

Accept(f) ==
  /\ Lowest(f)
  /\ socket' = [socket EXCEPT ![f] = [Closed EXCEPT !.open = TRUE]]
  /\ IF buffer[f].connect_fd = 0
       THEN buffer' = [buffer EXCEPT ![f].connect_fd = f] /\ UNCHANGED fate
       ELSE fate' = "too many connections" /\ UNCHANGED buffer
  /\ got' = [got EXCEPT ![f] = <<>>] /\ gave' = [gave EXCEPT ![f] = <<>>]
  /\ inherited' = [inherited EXCEPT ![f] = buffer[f]]
  /\ dropped' = [dropped EXCEPT ![f] = FALSE]
AcceptTooMany ==
  /\ FreeFds = {} /\ fate' = "overrun"
  /\ UNCHANGED <<buffer, socket, got, gave, inherited, dropped>>

Listening ==
  /\ fate = "running" /\ i = listen_fd
  /\ i' = 1
  /\ IF listen_fd \in readset
       THEN waiting' = FALSE /\ ((\E f \in Fds : Accept(f)) \/ AcceptTooMany)
       ELSE UNCHANGED <<buffer, socket, waiting, fate, got, gave, inherited, dropped>>
  /\ UNCHANGED <<sets, bytes>>

UpTo(s, n) == SubSeq(s, 1, IF n < Len(s) THEN n ELSE Len(s))

\* The bytes of s that onSocketRead copies into b.
Fitting(b, s) == UpTo(s, MAX_LINE - Len(b.data))
AfterRead(b, s) ==
  [b EXCEPT !.data = @ \o Rot13(Fitting(b, s)),
            !.readable = @ \/ \E k \in DOMAIN s : s[k] = "eol"]

\* The bytes onSocketWrite sends before it is done or gets EAGAIN.
Sendable(b, out) == UpTo(Pending(b), Window - Len(out))
AfterWriteKeepsIndex(b, n) ==
  IF n = Len(Pending(b)) THEN [b EXCEPT !.readable = FALSE]
                         ELSE [b EXCEPT !.readIndex = @ + n]
AfterWriteForgotten(b, n) ==
  [b EXCEPT !.readIndex = @ + n, !.readable = FALSE]
AfterWrite(b, n) ==
  IF n = Len(Pending(b)) THEN [b EXCEPT !.data = <<>>, !.readIndex = 0, !.readable = FALSE]
                         ELSE [b EXCEPT !.readIndex = @ + n]

Serve(f) ==
  LET in  == IF f \in readset THEN socket[f].in ELSE <<>>
      end == f \in readset /\ socket[f].eof
      b   == IF f \in readset THEN AfterRead(buffer[f], in) ELSE buffer[f]
      out == IF f \in writeset /\ ~end THEN Sendable(b, socket[f].out) ELSE <<>>
      c   == IF f \in writeset /\ ~end THEN AfterWrite(b, Len(out)) ELSE b
  IN
  /\ fate = "running" /\ i = f
  /\ i' = IF f + 1 \in Fds THEN f + 1 ELSE -1
  /\ got' = [got EXCEPT ![f] = @ \o in]
  /\ gave' = [gave EXCEPT ![f] = @ \o out]
  /\ dropped' = [dropped EXCEPT ![f] = @ \/ (f \in readset /\ Fitting(buffer[f], in) # in)]
  /\ buffer' = [buffer EXCEPT ![f] = IF end THEN [c EXCEPT !.connect_fd = 0] ELSE c]
  /\ socket' = [socket EXCEPT ![f] =
       IF end THEN Closed
              ELSE [socket[f] EXCEPT !.in = IF f \in readset THEN <<>> ELSE @, !.out = @ \o out]]
  /\ UNCHANGED <<sets, waiting, fate, inherited, bytes>>

ServerStep == Select \/ Listening \/ \E f \in Fds : Serve(f)
Next ==
  \/ ServerStep
  \/ Connect
  \/ \E f \in Fds : HalfClose(f) \/ ReadAnswer(f) \/ \E c \in {"a", "eol"} : SendByte(f, c)

Spec == Init /\ [][Next]_echoVars
-----------------------------------------------------------------------------
(* What a connection has been sent, followed by what its Buffer holds for  *)
(* it, is what it sent in rot13, after the bytes the connection before it  *)
(* left in the Buffer; unless bytes of it found the Buffer full, which     *)
(* takes more of them than the Buffer has room for. main never finds the  *)
(* Buffer of an accepted descriptor taken.                                 *)
Full(f) == Len(inherited[f].data) + Len(got[f]) > MAX_LINE

StreamEchoed ==
  /\ \A f \in Fds : socket[f].open =>
       IF dropped[f] THEN Full(f)
                     ELSE gave[f] \o Pending(buffer[f]) = Pending(inherited[f]) \o Rot13(got[f])
  /\ fate # "too many connections"

(* A line that has been read is sent back, unless its client half-closes   *)
(* before: the server closes the connection then, whatever it still has to *)
(* send.                                                                   *)
LineSentBack ==
  \A f \in Fds :
    Pending(buffer[f]) # <<>> /\ buffer[f].readable /\ socket[f].open
      ~> Pending(buffer[f]) = <<>> \/ ~socket[f].open \/ fate # "running"
=============================================================================

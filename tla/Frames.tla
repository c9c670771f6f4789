------------------------------- MODULE Frames -------------------------------
(***************************************************************************)
(* The messages of chap-16: stream_client sends each line behind its       *)
(* length and a type, stream_server takes them out of the byte stream with *)
(* read_message, which reads each part with readn, as many bytes at a time *)
(* as have arrived.  An interrupted read (EINTR) is tried again and        *)
(* changes nothing.                                                        *)
(***************************************************************************)
EXTENDS Integers, Sequences, SequencesExt

CONSTANTS
  Word,       \* bytes of a u_int32_t
  DataSize,   \* sizeof(message.data), and sizeof(buf) of the server
  Letters,    \* the characters of a line
  MaxLines    \* bound: lines the client reads

VARIABLES
  typed,      \* the lines the client has sent whole
  stream,     \* bytes sent and not read yet
  peer,       \* the client: "up", "ended", or "failed" when its connection broke
  call,       \* read_message: the readn it is in, the bytes that one has, msg_length
  received,   \* the messages read_message returned
  fate        \* of the server: "running", or how main ended

frameVars == <<typed, stream, peer, call, received, fate>>

\* fgets leaves room for the NUL; a longer line comes as several.
Line == UNION {[1..n -> Letters] : n \in 1 .. DataSize - 1}

\* Shifted(n)[k] is n >> 8 * k.  htonl puts the length in network order; the type stays in
\* host order.
Shifted(n) == LET shift[k \in 0..Word] == IF k = 0 THEN n ELSE shift[k - 1] \div 256 IN shift
Network(n) == [k \in 1..Word |-> Shifted(n)[Word - k] % 256]
Host(n)    == [k \in 1..Word |-> Shifted(n)[k - 1] % 256]
Message(line) == Network(Len(line)) \o Host(1) \o line

ntohl(bytes) ==
  LET value[k \in 0..Word] == IF k = 0 THEN 0 ELSE 256 * value[k - 1] + bytes[k] IN value[Word]

Reading(part, length) == [part |-> part, bytes |-> <<>>, msg_length |-> length]

Init ==
  /\ typed = <<>> /\ stream = <<>> /\ peer = "up"
  /\ call = Reading("length", 0)
  /\ received = <<>> /\ fate = "running"
-----------------------------------------------------------------------------
(* The client.  One that is killed has sent a part of its message at most. *)
Send(line) ==
  /\ peer = "up" /\ Len(typed) < MaxLines
  /\ typed' = Append(typed, line)
  /\ stream' = stream \o Message(line)
  /\ UNCHANGED <<peer, call, received, fate>>

Killed(line, n) ==
  /\ peer = "up" /\ Len(typed) < MaxLines /\ n < Len(Message(line))
  /\ stream' = stream \o SubSeq(Message(line), 1, n)
  /\ peer' = "ended"
  /\ UNCHANGED <<typed, call, received, fate>>

EndOfInput ==
  /\ peer = "up" /\ peer' = "ended"
  /\ UNCHANGED <<typed, stream, call, received, fate>>

Breaks ==
  /\ peer # "failed" /\ peer' = "failed" /\ stream' = <<>>
  /\ UNCHANGED <<typed, call, received, fate>>
-----------------------------------------------------------------------------
(* readn asks for what is missing; read returns some of it.                *)
Asked == IF call.part = "body" THEN call.msg_length ELSE Word
Whole(bytes) == Len(bytes) = Asked

\* read_message with one of its parts whole.
Part(bytes) ==
  CASE call.part = "length" ->
         /\ call' = Reading("type", ntohl(bytes))
         /\ UNCHANGED <<received, fate>>
    [] call.part = "type" /\ call.msg_length > DataSize ->
         /\ fate' = "readError"
         /\ UNCHANGED <<call, received>>
    [] call.part = "type" /\ call.msg_length <= DataSize ->
         /\ call' = Reading("body", call.msg_length)
         /\ UNCHANGED <<received, fate>>
    [] call.part = "body" ->
         /\ received' = Append(received, bytes)
         /\ call' = Reading("length", 0)
         /\ UNCHANGED fate

Read(n) ==
  LET bytes == call.bytes \o SubSeq(stream, 1, n) IN
  /\ fate = "running" /\ n <= Len(stream) /\ n <= Asked - Len(call.bytes)
  /\ stream' = SubSeq(stream, n + 1, Len(stream))
  /\ IF Whole(bytes) THEN Part(bytes)
                     ELSE call' = [call EXCEPT !.bytes = bytes] /\ UNCHANGED <<received, fate>>
  /\ UNCHANGED <<typed, peer>>

\* readn returns fewer bytes than it was asked for, or -1: main ends either way.
Ended ==
  /\ fate = "running" /\ stream = <<>> /\ peer # "up"
  /\ fate' = IF peer = "ended" THEN "clientClosed" ELSE "readError"
  /\ UNCHANGED <<typed, stream, peer, call, received>>

Next ==
  \/ \E line \in Line : Send(line) \/ \E n \in 0 .. 2 * Word + DataSize : Killed(line, n)
  \/ EndOfInput \/ Breaks
  \/ \E n \in 1 .. Word + DataSize : Read(n)
  \/ Ended

Spec == Init /\ [][Next]_frameVars
-----------------------------------------------------------------------------
(* However the stream is cut into reads, the server gets the lines of the  *)
(* client, in order and whole: none of them merged, split, or made from    *)
(* the part of a message that a killed client left; it has got all of them *)
(* when it says that the client closed, and never fails on a connection    *)
(* that holds.  Each leaves room in buf for the NUL behind it.             *)
MessagesWhole ==
  /\ IsPrefix(received, typed)
  /\ fate = "clientClosed" => received = typed
  /\ fate = "readError" => peer = "failed"
  /\ \A k \in 1..Len(received) : Len(received[k]) < DataSize
=============================================================================

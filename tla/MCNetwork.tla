----------------------------- MODULE MCNetwork ------------------------------
(***************************************************************************)
(* Programs that read from sockets, each on its own: the growing buffer of *)
(* the event loop (a block of three bytes that may grow to six, chunks up  *)
(* to one byte more than the block), the HTTP server with two connections  *)
(* of one loop, the keep-alive of chap-12 with its own times, and the      *)
(* select server of chap-22.                                               *)
(***************************************************************************)
EXTENDS Buffer

CONSTANTS
  Parts,
  Conns, Url, Page, MaxRequests, Room, None,
  KEEP_ALIVE_TIME, KEEP_ALIVE_INTERVAL, KEEP_ALIVE_PROBETIMES, SleepingTimes, Jitter,
  FD_INIT_SIZE, MAX_LINE, Window, MaxBytes

\* chap-12 probes for no longer than it waits before: 3 * 3 seconds against 10.
ASSUME KeepAliveAssumption ==
  /\ KEEP_ALIVE_TIME \in Nat /\ KEEP_ALIVE_INTERVAL \in Nat /\ KEEP_ALIVE_PROBETIMES \in Nat
  /\ KEEP_ALIVE_PROBETIMES * KEEP_ALIVE_INTERVAL <= KEEP_ALIVE_TIME
  /\ SleepingTimes \subseteq Nat /\ Jitter \in Nat
ASSUME EchoAssumption == FD_INIT_SIZE \in Nat /\ MAX_LINE \in Nat /\ Window \in Nat
ASSUME HttpAssumption == None \notin Conns /\ Room \in Nat

VARIABLES
  part,                                                                       \* which of them runs
  asked, todo, socket, input, request, answers, shut, turn, fate, cut, piled, \* Http
  client, server, heartbeats, tv, typed, link, pings, pongs, sleepingTime,    \* Heartbeat
  busy, silence,
  buffer, sockets, readset, writeset, i, waiting, end, got, gave, inherited,  \* Echo
  dropped, bytes

SmallChunks == UNION {[1..n -> Byte] : n \in 1..4}

\* One request of each kind the parser tells apart.
Ask(u, v, h) == [url |-> u, version |-> v, tight |-> FALSE, headers |-> h]
Tight(r) == [r EXCEPT !.tight = TRUE]
SmallRequests ==
  {Ask(u, "HTTP/1.1", <<>>) : u \in Url}
    \cup {Ask(Page, "HTTP/1.1", h) : h \in {<<"close">>, <<"bare">>, <<"host", "host">>}}
    \cup {Ask(Page, "HTTP/1.0", h) : h \in {<<>>, <<"keep-alive">>}}
    \cup {Tight(Ask(Page, "HTTP/1.1", <<>>))}

Server == INSTANCE Http WITH Requests <- SmallRequests
Alive  == INSTANCE Heartbeat
Rot    == INSTANCE Echo WITH socket <- sockets, fate <- end

httpVars  == <<asked, todo, socket, input, request, answers, shut, turn, fate, cut, piled>>
aliveVars == <<client, server, heartbeats, tv, typed, link, pings, pongs, sleepingTime, busy, silence>>
rotVars   == <<buffer, sockets, readset, writeset, i, waiting, end, got, gave, inherited, dropped, bytes>>
allVars   == <<part, vars, httpVars, aliveVars, rotVars>>

InBuffer == part = "buffer" /\ UNCHANGED <<part, httpVars, aliveVars, rotVars>>
InHttp   == part = "http"   /\ UNCHANGED <<part, vars, aliveVars, rotVars>>
InAlive  == part = "alive"  /\ UNCHANGED <<part, vars, httpVars, rotVars>>
InRot    == part = "rot"    /\ UNCHANGED <<part, vars, httpVars, aliveVars>>

AnyInit ==
  /\ part \in Parts /\ Init /\ Server!Init /\ Rot!Init
  /\ Alive!Init /\ (part # "alive" => sleepingTime = 0)

AnyNext ==
  \/ \E chunk \in Chunks : InBuffer /\ Append_(chunk)
  \/ \E chunk \in Chunks : InBuffer /\ ReadSocket(chunk)
  \/ \E chunk \in Chunks : InBuffer /\ Overrun(chunk)
  \/ \E n \in 1..MaxSize : InBuffer /\ Take(n)
  \/ \E c \in Conns, r \in SmallRequests : InHttp /\ Server!Ask(c, r)
  \/ \E c \in Conns : \E n \in 1..Len(todo[c]) : InHttp /\ Server!Send(c, n)
  \/ \E c \in Conns : InHttp /\ Server!OnMessage(c)
  \/ \E c \in Conns : InHttp /\ Server!Spin(c)
  \/ \E c \in Conns : InHttp /\ Server!ProcessStatusLine(c)
  \/ \E c \in Conns : InHttp /\ Server!NoStatusLine(c)
  \/ \E c \in Conns : InHttp /\ Server!AddHeader(c)
  \/ \E c \in Conns : InHttp /\ Server!LastLine(c)
  \/ \E c \in Conns : InHttp /\ Server!Respond(c)
  \/ InAlive /\ Alive!Timeout
  \/ InAlive /\ Alive!Read
  \/ InAlive /\ Alive!ServerTerminated
  \/ InAlive /\ Alive!Ping
  \/ InAlive /\ Alive!Pong
  \/ InAlive /\ Alive!ClientClosed
  \/ InAlive /\ Alive!Tick
  \/ InAlive /\ Alive!PressEnter
  \/ InAlive /\ Alive!Cut
  \/ InAlive /\ Alive!Crash
  \/ InRot /\ Rot!Connect
  \/ \E f \in Rot!Fds, c \in {"a", "eol"} : InRot /\ Rot!SendByte(f, c)
  \/ \E f \in Rot!Fds : InRot /\ Rot!HalfClose(f)
  \/ \E f \in Rot!Fds : InRot /\ Rot!ReadAnswer(f)
  \/ InRot /\ Rot!Select
  \/ InRot /\ Rot!Listening
  \/ \E f \in Rot!Fds : InRot /\ Rot!Serve(f)

AnySpec == AnyInit /\ [][AnyNext]_allVars
\* Every program runs on; time passes; clients of chap-22 read what they are sent.
FairAnySpec ==
  /\ AnySpec
  /\ WF_allVars(InHttp /\ (\E c \in Conns : Server!LoopStep(c)))
  /\ WF_allVars(InAlive /\ Alive!ClientStep)
  /\ WF_allVars(InAlive /\ Alive!ServerStep)
  /\ WF_allVars(InAlive /\ Alive!Tick)
  /\ WF_allVars(InRot /\ Rot!ServerStep)
  /\ \A f \in Rot!Fds : WF_allVars(InRot /\ Rot!ReadAnswer(f))
-----------------------------------------------------------------------------
(* Requests are answered in order, one by one, and by themselves: see Http. *)
AnswersFollowRequests == Server!AnswersFollowRequests

(* Requests that are read whole and one by one are answered: see Http.     *)
WholeRequestsAnswered == Server!WholeRequestsAnswered

(* Requests that come in pieces are answered: see Http.                    *)
PiecesAnswered == Server!PiecesAnswered

(* The connection is given up after that much silence and not before, and  *)
(* never with a server that answers in time: see Heartbeat.                *)
GivenUpRightly == Alive!DeadAfterSilence /\ Alive!PromptServerLives

(* A lost link is noticed: see Heartbeat.                                  *)
LossNoticed == Alive!LossNoticed

(* A connection gets its own bytes in rot13: see Echo.                     *)
StreamEchoed == Rot!StreamEchoed

(* A line is sent back: see Echo.                                          *)
LineSentBack == Rot!LineSentBack
=============================================================================

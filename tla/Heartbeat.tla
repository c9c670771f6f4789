----------------------------- MODULE Heartbeat ------------------------------
(***************************************************************************)
(* The keep-alive of chap-12: ping_client.c probes a server that has been  *)
(* silent for KEEP_ALIVE_TIME, every KEEP_ALIVE_INTERVAL, and gives up     *)
(* after KEEP_ALIVE_PROBETIMES probes; ping_server.c sleeps before each    *)
(* answer.  Time passes in seconds, and only when neither program can go   *)
(* on.                                                                     *)
(***************************************************************************)
EXTENDS Integers

CONSTANTS
  KEEP_ALIVE_TIME, KEEP_ALIVE_INTERVAL, KEEP_ALIVE_PROBETIMES,
  SleepingTimes,    \* arguments ping_server is started with
  Jitter            \* bound: seconds sleep may take longer

VARIABLES
  client, server,   \* how each program fares
  heartbeats, tv,   \* of the client; tv is what select leaves of its timeout
  typed,            \* standard input is readable: it is selected and never read
  link,             \* whether messages get through
  pings, pongs,     \* messages in the receiving sockets
  sleepingTime,
  busy,             \* seconds the server still sleeps, or Awake
  silence           \* history: seconds since the client last read from its socket

ends == <<client, server>>
heartbeatVars == <<ends, heartbeats, tv, typed, link, pings, pongs, sleepingTime, busy, silence>>

Awake == -1

Init ==
  /\ client = "runs" /\ server = "runs"
  /\ heartbeats = 0 /\ tv = KEEP_ALIVE_TIME
  /\ typed = FALSE /\ link = TRUE
  /\ pings = 0 /\ pongs = 0
  /\ sleepingTime \in SleepingTimes
  /\ busy = Awake /\ silence = 0

\* What the other end closed can be read only over the link.
ServerGone == server = "ended" /\ link
ClientGone == client # "runs" /\ link
SocketReadable == pongs > 0 \/ ServerGone

ServerCanAct == server = "runs" /\ \/ busy = 0
                                   \/ busy = Awake /\ (pings > 0 \/ ClientGone)
ClientCanAct == client = "runs" /\ (SocketReadable \/ (tv = 0 /\ ~typed))
-----------------------------------------------------------------------------
(* One turn of the client: select returns 0, or the socket is readable.    *)
CountedNot == heartbeats
Counted == heartbeats + 1
TryAgainEarly == Counted < KEEP_ALIVE_PROBETIMES
TryAgain == Counted <= KEEP_ALIVE_PROBETIMES

Timeout ==
  /\ client = "runs" /\ tv = 0 /\ ~typed /\ ~SocketReadable
  /\ heartbeats' = Counted
  /\ IF TryAgain
       THEN /\ pings' = IF link /\ server = "runs" THEN pings + 1 ELSE pings
            /\ tv' = KEEP_ALIVE_INTERVAL
            /\ UNCHANGED ends
       ELSE client' = "dead" /\ UNCHANGED <<server, pings, tv>>
  /\ UNCHANGED <<typed, link, pongs, sleepingTime, busy, silence>>

HeartbeatsReset == 0

Read ==
  /\ client = "runs" /\ pongs > 0
  /\ pongs' = 0
  /\ heartbeats' = HeartbeatsReset
  /\ tv' = KEEP_ALIVE_TIME
  /\ silence' = 0
  /\ UNCHANGED <<ends, typed, link, pings, sleepingTime, busy>>

ServerTerminated ==
  /\ client = "runs" /\ pongs = 0 /\ ServerGone
  /\ client' = "terminated"
  /\ UNCHANGED <<server, heartbeats, tv, typed, link, pings, pongs, sleepingTime, busy, silence>>
-----------------------------------------------------------------------------
(* The server: read a message, sleep, answer.                              *)
Ping ==
  /\ server = "runs" /\ busy = Awake /\ pings > 0
  /\ pings' = pings - 1
  /\ \E late \in 0..Jitter : busy' = sleepingTime + late
  /\ UNCHANGED <<ends, heartbeats, tv, typed, link, pongs, sleepingTime, silence>>

Pong ==
  /\ server = "runs" /\ busy = 0
  /\ pongs' = IF link /\ client = "runs" THEN pongs + 1 ELSE pongs
  /\ busy' = Awake
  /\ UNCHANGED <<ends, heartbeats, tv, typed, link, pings, sleepingTime, silence>>

ClientClosed ==
  /\ server = "runs" /\ busy = Awake /\ pings = 0 /\ ClientGone
  /\ server' = "ended"
  /\ UNCHANGED <<client, heartbeats, tv, typed, link, pings, pongs, sleepingTime, busy, silence>>
-----------------------------------------------------------------------------
(* Time, the user, the network, a server that dies.                        *)
Less(s) == IF s > 0 THEN s - 1 ELSE s

Tick ==
  /\ (client = "runs" \/ busy > 0) /\ ~ServerCanAct /\ ~ClientCanAct
  /\ tv' = Less(tv) /\ busy' = Less(busy)
  /\ silence' = IF silence > KEEP_ALIVE_TIME + KEEP_ALIVE_PROBETIMES * KEEP_ALIVE_INTERVAL
                  THEN silence ELSE silence + 1
  /\ UNCHANGED <<ends, heartbeats, typed, link, pings, pongs, sleepingTime>>

PressEnter == client = "runs" /\ ~typed /\ typed' = TRUE
              /\ UNCHANGED <<ends, heartbeats, tv, link, pings, pongs, sleepingTime, busy, silence>>

Cut == link /\ link' = FALSE
       /\ UNCHANGED <<ends, heartbeats, tv, typed, pings, pongs, sleepingTime, busy, silence>>

Crash == server = "runs" /\ server' = "ended"
         /\ UNCHANGED <<client, heartbeats, tv, typed, link, pings, pongs, sleepingTime, busy, silence>>

ClientStep == Timeout \/ Read \/ ServerTerminated
ServerStep == Ping \/ Pong \/ ClientClosed
Next == ClientStep \/ ServerStep \/ Tick \/ PressEnter \/ Cut \/ Crash

Spec == Init /\ [][Next]_heartbeatVars
-----------------------------------------------------------------------------
(* ping_client.c:55 gives the connection up after three intervals without  *)
(* an answer: never before that much silence, whatever the order of late   *)
(* answers and timeouts.                                                   *)
DeadAfterSilence ==
  client = "dead" => silence >= KEEP_ALIVE_TIME + KEEP_ALIVE_PROBETIMES * KEEP_ALIVE_INTERVAL

(* A server that is there and answers within the three intervals is never  *)
(* given up, though each probe costs it a whole sleep and it falls behind  *)
(* with them; and no more probes wait for it than the client may send.     *)
PromptServerLives ==
  /\ client = "dead" =>
       ~link \/ server = "ended" \/ sleepingTime + Jitter >= KEEP_ALIVE_PROBETIMES * KEEP_ALIVE_INTERVAL
  /\ sleepingTime + Jitter < KEEP_ALIVE_PROBETIMES * KEEP_ALIVE_INTERVAL =>
       pings <= KEEP_ALIVE_PROBETIMES

(* A lost link is noticed; unless something was typed, after which select  *)
(* never times out.                                                        *)
LossNoticed == ~link ~> client # "runs" \/ typed
=============================================================================

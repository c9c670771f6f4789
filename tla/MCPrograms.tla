----------------------------- MODULE MCPrograms -----------------------------
(***************************************************************************)
(* Programs of one thread, each on its own: the array of the poll          *)
(* dispatcher; the servers of the network chapters that take messages and  *)
(* lines out of a stream, and the edge-triggered one; the calculator; the  *)
(* numbers of leptjson, character by character.                            *)
(***************************************************************************)
EXTENDS Integers, Sequences, FiniteSets

CONSTANTS
  Parts,                                           \* which of them are looked at
  INIT_POLL_SIZE, INIT_MAP_SIZE, LastFd,           \* PollDispatcher
  Word, DataSize, Letters, MaxLines,               \* Frames
  BufferSize, Length, MaxTyped,                    \* Lines
  Client, Listener, MAXEVENTS, BufSize, MaxSent,   \* EdgeServer
  MAX_CHAR, MaxKeys,                               \* Calculator
  MaxNumber                                        \* LeptNumber

VARIABLES
  part,                                                    \* which of them runs
  event_set, walked, ready_number, entries, nentries, lastFd, readable, ended, polled,
  activated, turnedAway,                                   \* PollDispatcher
  typed, stream, sender, call, received, outcome,          \* Frames
  lineSent, arrived, peer, line, records, fate,            \* Lines
  place, sent, unread, answered, over, ready, events, doing, missed, short,   \* EdgeServer
  input, result, previous, current, display, replaced, cleared, repeated, keys, \* Calculator
  number                                                                      \* LeptNumber

Poller == INSTANCE PollDispatcher WITH i <- walked
Framed == INSTANCE Frames WITH peer <- sender, fate <- outcome
Lined  == INSTANCE Lines WITH sent <- lineSent, MaxSent <- MaxTyped
Edge   == INSTANCE EdgeServer WITH at <- doing
Calc   == INSTANCE Calculator
Number == INSTANCE LeptNumber

\* An item for the listener and one for the pair; a map that can grow by doubling.
ASSUME PollerAssumption ==
  /\ INIT_POLL_SIZE \in Nat /\ INIT_POLL_SIZE >= 2
  /\ INIT_MAP_SIZE \in Nat /\ INIT_MAP_SIZE >= 1 /\ LastFd \in Nat
\* The length of a message fits in a word.
ASSUME FramesAssumption ==
  /\ Word \in Nat /\ Word >= 1 /\ DataSize \in Nat
  /\ \A n \in 1 .. DataSize - 1 : Framed!Shifted(n)[Word] = 0
\* A line has room for a character and the 0 that ends it.
ASSUME LinesAssumption == Length \in Nat /\ Length >= 2 /\ BufferSize \in Nat
ASSUME EdgeAssumption == Listener \notin Client /\ MAXEVENTS \in Nat /\ BufSize \in Nat
\* Calculator has a percent as 10^(MAX_CHAR - 2).
ASSUME CalculatorAssumption == MAX_CHAR \in Nat /\ MAX_CHAR >= 2

arrayVars == <<event_set, walked, ready_number, entries, nentries, lastFd, readable, ended,
               polled, activated, turnedAway>>
frameVars == <<typed, stream, sender, call, received, outcome>>
lineVars  == <<lineSent, arrived, peer, line, records, fate>>
edgeVars  == <<place, sent, unread, answered, over, ready, events, doing, missed, short>>
calcVars  == <<input, result, previous, current, display, replaced, cleared, repeated, keys>>
programVars == <<part, arrayVars, frameVars, lineVars, edgeVars, calcVars, number>>

Runs(p)  == part = p /\ UNCHANGED part
InArray  == Runs("array")  /\ UNCHANGED <<frameVars, lineVars, edgeVars, calcVars, number>>
InFrames == Runs("frames") /\ UNCHANGED <<arrayVars, lineVars, edgeVars, calcVars, number>>
InLines  == Runs("lines")  /\ UNCHANGED <<arrayVars, frameVars, edgeVars, calcVars, number>>
InEdge   == Runs("edge")   /\ UNCHANGED <<arrayVars, frameVars, lineVars, calcVars, number>>
InKeys   == Runs("keys")   /\ UNCHANGED <<arrayVars, frameVars, lineVars, edgeVars, number>>
InNumber == Runs("number") /\ UNCHANGED <<arrayVars, frameVars, lineVars, edgeVars, calcVars>>

ProgramsInit ==
  /\ part \in Parts
  /\ Poller!Init /\ Framed!Init /\ Lined!Init /\ Edge!Init /\ Calc!Init /\ Number!Init

ProgramsNext ==
  \/ InArray /\ Poller!Next
  \/ InFrames /\ Framed!Next
  \/ InLines /\ Lined!Next
  \/ InEdge /\ Edge!Next
  \/ InKeys /\ Calc!Next
  \/ InNumber /\ Number!Next

ProgramsSpec == ProgramsInit /\ [][ProgramsNext]_programVars
-----------------------------------------------------------------------------
(* Nothing that is ready, sent or written is left out, served twice or     *)
(* mixed up: a channel that poll reports, a client of the edge-triggered   *)
(* server, a message, a line, what stands on the calculator, a number.     *)
(* See ReadyServedOnce of PollDispatcher, HeardUnlessMissed of EdgeServer, *)
(* MessagesWhole of Frames, RecordsInPlace of Lines, WorksWithWhatIsSeen   *)
(* of Calculator, NumberReadOnce of LeptNumber.                            *)
ServedRight ==
  CASE part = "array"  -> Poller!ReadyServedOnce
    [] part = "edge"   -> Edge!HeardUnlessMissed
    [] part = "frames" -> Framed!MessagesWhole
    [] part = "lines"  -> Lined!RecordsInPlace
    [] part = "keys"   -> Calc!WorksWithWhatIsSeen
    [] part = "number" -> Number!NumberReadOnce
    [] OTHER -> TRUE
=============================================================================

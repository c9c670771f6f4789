-------------------------------- MODULE Lines -------------------------------
(***************************************************************************)
(* The lines of chap-18: bufferclient sends each line as it is typed,      *)
(* samplebuffer03 takes them out of the stream with readline of read.c,    *)
(* which receives what has arrived into a buffer of its own and forgets,   *)
(* with its local nleft, what it has not used when it returns.             *)
(***************************************************************************)
EXTENDS Integers, Sequences, SequencesExt, FiniteSetsExt

CONSTANTS
  BufferSize,   \* sizeof(read_buffer)
  Length,       \* the length readline is called with
  MaxSent       \* bound: characters the client sends

Letter == {"a", "b", "eol"}

VARIABLES
  sent,      \* what the client has sent
  arrived,   \* how much of it recv has returned
  peer,      \* the client: "up", "ended", or "failed" when its connection broke
  line,      \* what readline has put into its caller's buffer
  records,   \* what it has returned: the lines, and what it forgot with each
  fate       \* of the server: "running", or how main ended

lineVars == <<sent, arrived, peer, line, records, fate>>

Init ==
  /\ sent = <<>> /\ arrived = 0 /\ peer = "up"
  /\ line = <<>> /\ records = <<>> /\ fate = "running"

Send(c) ==
  /\ peer = "up" /\ Len(sent) < MaxSent
  /\ sent' = Append(sent, c)
  /\ UNCHANGED <<arrived, peer, line, records, fate>>

EndOfInput ==
  /\ peer = "up" /\ peer' = "ended"
  /\ UNCHANGED <<sent, arrived, line, records, fate>>

Breaks ==
  /\ peer # "failed" /\ fate = "running"
  /\ peer' = "failed"
  /\ UNCHANGED <<sent, arrived, line, records, fate>>
-----------------------------------------------------------------------------
(* One recv of readline and the characters it takes from it: up to the end *)
(* of the line, and never more than leave room for the NUL.                *)
Room == Length - 1 - Len(line)
FirstEol(chunk) == Min({Len(chunk) + 1} \cup {k \in 1..Len(chunk) : chunk[k] = "eol"})
Taken(chunk) == Min({FirstEol(chunk), Len(chunk), Room})

Recv(n) ==
  LET chunk == SubSeq(sent, arrived + 1, arrived + n)
      taken == Taken(chunk)
      now   == line \o SubSeq(chunk, 1, taken)
      rest  == SubSeq(chunk, taken + 1, n)
  IN
  /\ fate = "running" /\ peer # "failed" /\ n <= Len(sent) - arrived
  /\ arrived' = arrived + n
  /\ \/ /\ Last(now) = "eol"
        /\ records' = Append(records, [line |-> now, forgotten |-> rest])
        /\ line' = <<>>
        /\ UNCHANGED fate
     \/ /\ Last(now) # "eol" /\ Len(now) = Length - 1
        /\ fate' = "readError" /\ line' = now
        /\ UNCHANGED records
     \/ /\ Last(now) # "eol" /\ Len(now) < Length - 1
        /\ line' = now
        /\ UNCHANGED <<records, fate>>
  /\ UNCHANGED <<sent, peer>>

\* recv returns 0 or -1: what readline had of a line goes unused.
Ended ==
  /\ fate = "running"
  /\ \/ peer = "ended" /\ arrived = Len(sent) /\ fate' = "clientClosed"
     \/ peer = "failed" /\ fate' = "readError"
  /\ UNCHANGED <<sent, arrived, peer, line, records>>

Next ==
  \/ \E c \in Letter : Send(c)
  \/ EndOfInput \/ Breaks
  \/ \E n \in 1..BufferSize : Recv(n)
  \/ Ended

Spec == Init /\ [][Next]_lineVars
-----------------------------------------------------------------------------
(* "A newline terminated record" (read.c:65): each record readline returns *)
(* is a piece of what the client sent, of at most Length - 1 characters,   *)
(* with its only line end at its end. Between two records nothing is lost  *)
(* but what came behind a line end in the same recv; without that, records *)
(* are the client's lines. On a connection that holds it gives up only on  *)
(* a line longer than that.                                                *)
Whole(r) == r.line \o r.forgotten
RecordsInPlace ==
  /\ fate = "running" =>
       SubSeq(sent, 1, arrived) = FlattenSeq([k \in 1..Len(records) |-> Whole(records[k])]) \o line
  /\ \A k \in 1..Len(records) :
       LET l == records[k].line IN
       Len(l) < Length /\ \A j \in 1..Len(l) : l[j] = "eol" <=> j = Len(l)
  /\ fate = "readError" /\ peer # "failed" =>
       Len(line) = Length - 1 /\ "eol" \notin ToSet(line)
=============================================================================

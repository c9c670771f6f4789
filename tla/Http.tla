-------------------------------- MODULE Http --------------------------------
(***************************************************************************)
(* The HTTP server of network/lib on top of one event loop, with the       *)
(* requestCallback of chap-34: connections whose clients send requests in  *)
(* pieces of their choice, the parser that runs in the message callback,   *)
(* and the answer.  The clients stay connected.                            *)
(*                                                                         *)
(* Text is a sequence of lines and ends of lines (CRLF).  A line is what   *)
(* the parser tells apart: a status line, a header with ": ", a header     *)
(* without the blank ("bare"), and what is left of a line whose first two  *)
(* bytes were skipped ("rest", with fewer than two blanks).                *)
(***************************************************************************)
EXTENDS Integers, Sequences, SequencesExt, FiniteSetsExt

CONSTANTS
  Conns,         \* connections of one loop
  Requests,      \* what clients send: [url, version, tight, headers]; tight says that a
                 \* part of the status line fills the block malloc gives for it
  MaxRequests,   \* bound: requests of all clients
  Room,          \* headers that fit the array request_headers
  None

VARIABLES
  asked,     \* history: the requests each client has begun to send
  todo,      \* what it has not sent of the last one
  socket,    \* sent and not read
  input,     \* readable part of input_buffer
  request,   \* the http_request of the connection
  answers,   \* what was sent back
  shut,      \* tcp_connection_shutdown was called
  turn,      \* the connection whose message callback runs
  fate,      \* how the process fares
  cut,       \* history: a read ended inside a request
  piled      \* history: a read left more than one request to answer

client == <<asked, todo>>
server == <<input, request, answers, shut, turn, fate>>
httpVars == <<client, socket, server, cut, piled>>

CRLF == [kind |-> "crlf"]
Rest == [kind |-> "rest"]
Status(r) == [kind |-> "status", url |-> r.url, version |-> r.version, tight |-> r.tight]
Header(h) == [kind |-> "header", field |-> h]
\* The status line, the headers and an empty line, each with its CRLF.
Text(r) ==
  LET last == 2 * Len(r.headers) + 3
  IN  [k \in 1..last |-> IF k = 1 THEN Status(r)
                         ELSE IF k % 2 = 1 /\ k < last THEN Header(r.headers[k \div 2]) ELSE CRLF]

\* http_request_new.
NewRequest == [current_state |-> "STATUS", url |-> None, version |-> None, headers |-> <<>>]

Init ==
  /\ asked = [c \in Conns |-> <<>>]   /\ todo = [c \in Conns |-> <<>>]
  /\ socket = [c \in Conns |-> <<>>]  /\ input = [c \in Conns |-> <<>>]
  /\ request = [c \in Conns |-> NewRequest]
  /\ answers = [c \in Conns |-> <<>>] /\ shut = [c \in Conns |-> FALSE]
  /\ turn = None /\ fate = "running"
  /\ cut = FALSE /\ piled = FALSE
-----------------------------------------------------------------------------
(* The clients.                                                            *)
Ask(c, r) ==
  /\ todo[c] = <<>>
  /\ MapThenSumSet(LAMBDA d : Len(asked[d]), Conns) < MaxRequests
  /\ asked' = [asked EXCEPT ![c] = Append(@, r)]
  /\ todo' = [todo EXCEPT ![c] = Text(r)]
  /\ UNCHANGED <<socket, server, cut, piled>>

Send(c, n) ==
  /\ n \in 1..Len(todo[c])
  /\ socket' = [socket EXCEPT ![c] = @ \o SubSeq(todo[c], 1, n)]
  /\ todo' = [todo EXCEPT ![c] = SubSeq(@, n + 1, Len(@))]
  /\ UNCHANGED <<asked, server, cut, piled>>

\* Requests the client has sent to the end.
Sent(c) == Len(asked[c]) - (IF todo[c] = <<>> THEN 0 ELSE 1)
InMiddle(c) == todo[c] # <<>> /\ todo[c] # Text(Last(asked[c]))
-----------------------------------------------------------------------------
(* The loop: handle_read takes what is there and calls http_onMessage.     *)
OnMessage(c) ==
  /\ fate = "running" /\ turn = None /\ socket[c] # <<>>
  /\ input' = [input EXCEPT ![c] = @ \o socket[c]]
  /\ socket' = [socket EXCEPT ![c] = <<>>]
  /\ turn' = c
  /\ cut' = (cut \/ InMiddle(c))
  /\ piled' = (piled \/ Sent(c) > Len(answers[c]) + 1)
  /\ UNCHANGED <<client, request, answers, shut, fate>>

Parsing(c, state) == turn = c /\ fate = "running" /\ request[c].current_state = state

\* buffer_find_CRLF.  Without one parse_http_request goes round for ever.
HasLine(c) == CRLF \in ToSet(input[c])
Spin(c) ==
  /\ Parsing(c, "STATUS") \/ Parsing(c, "HEADERS")
  /\ ~HasLine(c)
  /\ UNCHANGED httpVars

Consume(c, n) == input' = [input EXCEPT ![c] = SubSeq(@, n + 1, Len(@))]

\* The zero behind method, url and version is written one byte past their blocks: nothing
\* happens while the allocator rounds up, and anything may when a block is full.
ProcessStatusLine(c) ==
  /\ Parsing(c, "STATUS") /\ HasLine(c)
  /\ Head(input[c]).kind = "status"
  /\ request' = [request EXCEPT ![c] = [request[c] EXCEPT !.url = Head(input[c]).url,
                    !.version = Head(input[c]).version, !.current_state = "HEADERS"]]
  /\ fate' \in IF Head(input[c]).tight THEN {"running", "overrun"} ELSE {"running"}
  /\ Consume(c, 2)
  /\ UNCHANGED <<client, socket, answers, shut, turn, cut, piled>>

\* assert(space != NULL).
NoStatusLine(c) ==
  /\ Parsing(c, "STATUS") /\ HasLine(c)
  /\ Head(input[c]).kind # "status"
  /\ fate' = "assertion"
  /\ UNCHANGED <<client, socket, input, request, answers, shut, turn, cut, piled>>

IsHeader(line) == line.kind = "header" /\ line.field # "bare"
AddHeader(c) ==
  /\ Parsing(c, "HEADERS") /\ HasLine(c)
  /\ IsHeader(Head(input[c]))
  /\ IF Len(request[c].headers) < Room
       THEN request' = [request EXCEPT ![c].headers = Append(@, Head(input[c]).field)] /\ UNCHANGED fate
       ELSE fate' = "overrun" /\ UNCHANGED request
  /\ Consume(c, 2)
  /\ UNCHANGED <<client, socket, answers, shut, turn, cut, piled>>

\* A line without ": " is taken for the last one, and two bytes of it are skipped.
SkippedNot(c) == UNCHANGED input
Skipped(c) == input' = [input EXCEPT ![c] = (IF Head(@) = CRLF THEN <<>> ELSE <<Rest>>) \o Tail(@)]
LastLine(c) ==
  /\ Parsing(c, "HEADERS") /\ HasLine(c)
  /\ ~IsHeader(Head(input[c]))
  /\ request' = [request EXCEPT ![c].current_state = "DONE"]
  /\ Skipped(c)
  /\ UNCHANGED <<client, socket, answers, shut, turn, fate, cut, piled>>

\* http_request_close_connection; without a Connection header a version of 1.0
\* makes it compare the null pointer.
OfConnection(headers) == SelectSeq(headers, LAMBDA h : h \in {"close", "keep-alive"})
ConnectionHeader(r) == OfConnection(r.headers)
CloseConnection(r) == ConnectionHeader(r) # <<>> /\ Head(ConnectionHeader(r)) = "close"
NullCompared(r) == r.version = "HTTP/1.0" /\ ConnectionHeader(r) = <<>>

ResetKeepsHeaders(r) == [NewRequest EXCEPT !.headers = r.headers]
Reset(r) == NewRequest

\* requestCallback compares a copy of the url that lacks its terminating zero: a page
\* that exists may not be found.  A write after the shutdown raises SIGPIPE, which
\* acceptor_init does not ignore.
Answer(c) ==
  /\ \E found \in BOOLEAN :
       answers' = [answers EXCEPT ![c] = Append(@, [url |-> request[c].url, found |-> found])]
  /\ IF NullCompared(request[c])
       THEN fate' = "null" /\ UNCHANGED <<request, shut, turn>>
       ELSE /\ shut' = [shut EXCEPT ![c] = CloseConnection(request[c])]
            /\ request' = [request EXCEPT ![c] = Reset(@)]
            /\ turn' = None /\ UNCHANGED fate

Respond(c) ==
  /\ Parsing(c, "DONE")
  /\ IF shut[c] THEN fate' = "sigpipe" /\ UNCHANGED <<request, answers, shut, turn>>
     ELSE Answer(c)
  /\ UNCHANGED <<client, socket, input, cut, piled>>

LoopStep(c) ==
  \/ OnMessage(c) \/ ProcessStatusLine(c) \/ NoStatusLine(c) \/ AddHeader(c) \/ LastLine(c)
  \/ Respond(c)
-----------------------------------------------------------------------------
(* Requests that stop the process: a header without a blank after its      *)
(* colon, HTTP/1.0 without a Connection header, more headers than fit, a   *)
(* status line that fills a block, and any request after one that asked to *)
(* close the connection.                                                   *)
IsBare(r) == "bare" \in ToSet(r.headers)
Fatal(r) == IsBare(r) \/ NullCompared(r) \/ Len(r.headers) > Room \/ r.tight
AfterClose(c, i) == \E j \in 1..i - 1 : CloseConnection(asked[c][j])
FatalAsked == \E c \in Conns : \E i \in DOMAIN asked[c] : Fatal(asked[c][i]) \/ AfterClose(c, i)

(* However the bytes are cut and the connections interleave, a connection  *)
(* gets one answer per request, in their order and about that request;     *)
(* none before the request has ended, unless a header without blank ends   *)
(* it early; none after the answer to a request to close; it is shut down  *)
(* exactly when an answered request asked for that, so that nothing of one *)
(* request is left for the next; and nothing but the requests named above  *)
(* stops the process.                                                      *)
AnswersFollowRequests ==
  /\ \A c \in Conns :
       /\ Len(answers[c]) <= Len(asked[c])
       /\ Len(answers[c]) > Sent(c) => IsBare(Last(asked[c]))
       /\ \A i \in DOMAIN answers[c] :
            /\ answers[c][i].url = asked[c][i].url
            /\ IsBare(asked[c][i]) \/ CloseConnection(asked[c][i]) => i = Len(answers[c])
       /\ fate = "running" /\ ~FatalAsked =>
            (shut[c] <=> \E i \in DOMAIN answers[c] : CloseConnection(asked[c][i]))
  /\ fate # "running" => FatalAsked

(* As long as no read ends inside a request and none brings two, every     *)
(* request is answered.                                                    *)
WholeRequestsAnswered ==
  \A c \in Conns : \A k \in 1..MaxRequests :
    Sent(c) >= k ~> Len(answers[c]) >= k \/ cut \/ piled \/ FatalAsked

(* http_server.c:88 of network/lib says that not all of the data may have  *)
(* been received and that this is handled: a request is answered also when *)
(* it comes in pieces, as long as no client sends two at a time.           *)
PiecesAnswered ==
  \A c \in Conns : \A k \in 1..MaxRequests :
    Sent(c) >= k ~> Len(answers[c]) >= k \/ piled \/ FatalAsked
=============================================================================

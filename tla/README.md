# Specifications of learning-c

TLA+ models, TLC checks and TLAPS proofs of the concurrent and stateful parts of this
repository. Paths are relative to the repository root. `PROJECT.json` lists, for every
definition that models code, the lines it stands for; the runs; one mutant per checked
property; the hazards; the findings; the theorems.

## The repository

A collection of C programs. Most of `basic/` (language lessons), `network/chap-*` (one socket
call per program) and `gtk/Chapter14` has no state worth a model. Logic of their own have:

| part | state | operations | talks to |
|---|---|---|---|
| thread pool, `lib/wget-gui/src/common/threadpool*.c` | ring of tasks, counters, shutdown mode, mutex, condition | create, add, worker loop, destroy, free; the manager's one global pool | called by the GTK thread and from inside tasks; runs downloads |
| download tasks, `lib/wget-gui/src/{ui,model}` | task list, status and handler per task, `downloading_task_size`, idle queue, database rows | resume, pause, remove, new task, close, restart; worker: transfer, call back | pool, libcurl, SQLite, GTK main loop |
| reactor, `lib/event-loop/lib` | per loop: epoll set, channel map, pending list, wake-up pair; the acceptor's round robin | start loops, accept, hand over, register, dispatch, read, close, hang up | threads share the pending lists; the kernel delivers events |
| poll dispatcher, `lib/event-loop/lib/poll_dispatcher.c` | array of watched descriptors | add, del, dispatch | an event loop where there is no epoll |
| byte buffer, `lib/event-loop/lib/buffer.c` | block, read and write index | append, socket read, read, make_room | used by connections |
| blocking queue, `network/chap-26/thread02.c` | ring of descriptors, mutex, two conditions | push, pop | accepting thread and servers |
| HTTP server, `network/lib/http_*.c` with `chap-34` | one request object per connection | status line, headers, response, reset | message callback of the event loop |
| keep-alive, `network/chap-12` | probes unanswered, timeout of `select` | probe, answer, give up | client and server over a socket |
| select server, `network/chap-22` | a `Buffer` per descriptor | accept, read, write | clients |
| message and line servers, `network/chap-16`, `chap-18` with `network/lib/read.c` | part of a message or line read so far | send, read | one client |
| edge-triggered server, `network/chap-23/epoll01.c` | batch of events, place in it | wait, accept, read until nothing is left, close | clients, the kernel |
| calculator, `gtk/Chapter15` | typed text, result, two operations | a key | GTK, console or test |
| JSON library, `lib/json/leptjson.c` | value tree, parser stack | parse, generate, edit | sequential |
| tinycthread, `lib/wget-gui/src/common/tinycthread.c` | flags of a mutex, counter and events of a condition variable, status of a once flag | lock, try, unlock; wait, signal, broadcast; call_once | Windows, pthreads |
| file and progress of a download, `lib/wget-gui/src/common/http_manager.c` | file, progress in task and row | request with a range, body, progress, abort | libcurl, SQLite, disk |

What is hard about them and where it bites is listed line by line under "hazards". In short:
signals that go to nobody, wake-ups that race the work they announce, rings at their limit,
destruction while a caller is inside, a descriptor number that comes back for another
connection, callbacks that arrive after what they are about is gone, a flag that is set by two
threads in an unlucky order, a process that dies between two writes, a request that arrives in
pieces, answers that come after the timeout that counted them lost, a partial result that an
error path must give back.

What makes each part correct: a pool begins every accepted task once and in order, loses no
wake-up and is freed when nobody is inside; a reactor registers each connection with one loop
and delivers its events to it and to no other; a buffer is a byte queue; the blocking queue is a
bounded FIFO; a download has at most one transfer, the counter the end of the program waits for
is balanced, the rows say what the objects say and the file holds what the progress says; the
array of the poll dispatcher names each channel once; an HTTP connection answers its own
requests in order; the keep-alive gives up a dead server and no other; an echo server mixes no
streams, and one that is told of an event once reads to its end; messages and lines come out of
a stream as they went in; the parser accepts JSON and nothing else, leaves no block behind and
nothing on its stack; a mutex counts its owner's calls, a wait is ended by what signals it, a
callback runs once.

## Modules

| module | models |
|---|---|
| `ThreadPool` | `threadpool.c`, `threadpool_manager.c` |
| `TaskPool` | abstract: tasks accepted, begun in order, finished; closed; stopped |
| `Reactor` | `event_loop.c`, `epoll_dispatcher.c`, `event_loop_thread.c`, `thread_pool.c`, `tcp_server.c`, reading half of `tcp_connection.c`, and as much of the kernel as they use |
| `PollDispatcher` | `poll_dispatcher.c` and `channel_map.c` in a loop without sub-loops |
| `BufferOps`, `Buffer` | `buffer.c`: operators on one struct; a buffer in use |
| `ByteQueue` | abstract: bytes in, bytes out |
| `BlockQueue` | `network/chap-26/thread02.c` |
| `BoundedQueue` | abstract: bounded FIFO whose items go to one taker each |
| `Download` | the download tasks of wget-gui, from the user's click to the database row |
| `Transfer` | the file of one download, its progress and its row |
| `Http` | `network/lib/http_server.c`, `http_request.c`, callback of `chap-34/http_server01.c` |
| `Heartbeat` | `network/chap-12/ping_client.c`, `ping_server.c` |
| `Echo` | `network/chap-22/nonblocking_server.c` |
| `Frames` | `network/chap-16/stream_client.c`, `stream_server.c` with `readn`, `read_message` of `network/lib/read.c` |
| `Lines` | `network/chap-18/bufferclient.c`, `samplebuffer03.c` with `readline` |
| `EdgeServer` | `network/chap-23/epoll01.c` |
| `Calculator` | `gtk/Chapter15/calculator.c`, `operation.c` |
| `Lept` | `lept_parse` of `leptjson.c`: calls, stack, blocks, error paths |
| `LeptValue` | the functions of `leptjson.c` that change a value |
| `LeptNumber`, `LeptString` | its numbers character by character, its strings in both directions |
| `TinyMutex`, `TinyCnd`, `TinyOnce` | `tinycthread.c` on Windows |
| `ThreadPoolProofs`, `ReactorProofs`, `LeptProofs` | theorems about the module they are named after |
| `SyncProofs`, `NetworkProofs`, `DownloadProofs`, `ProgramProofs` | theorems about the systems of `MCSync`; about those of `MCNetwork`, `Buffer` included; about `Download` and `Transfer`; about the programs of `MCPrograms` |
| `SetInduction` | induction and walks over the naturals, for the proofs about recursive functions |
| `MCPrograms` | the programs of one thread whose proofs are in `ProgramProofs`: poll dispatcher, message, line and edge-triggered server, calculator, numbers of leptjson; `MCSequential` adds the parser, the values and the strings of leptjson |
| `MCLept` | parser and values of leptjson together, the system of `LeptProofs` |
| `MC*` | instances for TLC; `MCNetwork`, `MCSync`, `MCSequential` and `MCDownloadFile` hold several systems of which `part` says which one runs |

**ThreadPool.** A step is what a thread does between two points of interference: `mtx_lock`
succeeding, the rest of a critical section up to its unlock or `cnd_wait`, a task running.
Fields of `threadpool_t` keep their names. `cnd_signal` moves any one waiting worker (or
nobody), `cnd_broadcast` all, and a waiting worker may return spuriously. Creation may fail
before or between threads; a task may submit another task; the main thread destroys in either
mode. `accepted`, `taken`, `finished`, `refused` are history. Lock and unlock calls are taken to
succeed. `CallersFirst` is the rule of `threadpool_manager.h:24` ("after init before destroy"):
the main thread destroys the pool only when no other thread is inside `ThreadPoolExecute`.

**Reactor.** One thread per loop. `Dispatch` is `epoll_wait`, after which the events of the
batch are handled one by one (any order) while other threads and peers go on, so events may be
stale when handled. The critical section of the pending list is one step; the wake-up byte is
written after it, in another. The hang-up branch, which closes the descriptor and nothing else,
is modelled as it is. The kernel reuses the lowest free descriptor. An entry of
the channel map is used without a test, as in the code; `RightConnection` says it is there and
whose it is.
`loopOf` is the loop chosen for a connection, and only that loop's map counts when a
registration is missed. Both callbacks that use `data`, message and closed, note a connection
that they find without it; the completed callback always does, since `tcp_connection_new` runs
it before it returns (`tcp_connection.c:92`).

**Buffer.** `MakeRoom`, `Store`, `SocketRead` follow the branches of the code; memory not yet
written is `Garbage`. A failing `realloc` is the step `Overrun`, after which nothing follows.

**BlockQueue.** A critical section up to unlock or wait is one step. The test `front == rear`
is kept as written. No descriptor is ever closed, so each connection takes a new one; a failing
`accept` or `recv` ends the process with all its threads (`Exit`).

**Download.** The main thread's handlers are cut where a worker can interfere: between handing a
request to the pool and setting the status; between reading the handler and storing through it;
between two tasks of the closing loop. A worker takes a request, publishes its context in the
task, sets `is_running`, transfers, posts its callback, and only then resets the handler. The
pool is a FIFO of requests that runs each once and drops what is queued at shutdown, which is
what `TaskPool` promises and `ThreadPool` is shown to keep. A task freed while a request of its
own is under way is `torn`. Writing through a pointer to freed memory is modelled as having no
effect, or as hitting another context that now lives there; that it may kill the process is
covered by `Crash`, possible at any time. Only `db` survives a crash or an exit.

**Transfer.** One transfer of one task at a time, in units. The server may serve ranges or not,
tell lengths or not, answer with the range, the whole, or an error with a page. The file is
opened by the first unit, for appending after a 206 and anew otherwise; a connection that
breaks is an error, but where no length was told it is the end of the body and the task becomes
Completed (`http_manager.c:209`, `request_api.c:24`); progress is
`now + size - total`; the row gets what an `int` keeps of it (`AsInt`). A crash loses what stdio
still holds. `spoiled` remembers what the code does not defend against: a file of that name that
was there before, an error page that overwrote it, a failed `fwrite`, a body that ended short.

**PollDispatcher.** `Poll` marks the slots with something to report; then the walk goes on from
slot to slot, and each activated channel is one step: the acceptor puts a new connection into
the first vacant slot of the array that is being walked, a closed one empties its slot. A slot
keeps what poll reported for its former descriptor. Descriptors are never closed
(`handle_connection_closed` does not), so they only grow, and the channel map with them.

**Http.** Text is a sequence of lines, since the parser only asks for the next CRLF; a client cuts
it where it likes. `OnMessage` reads, then each round of the loop is a step, and the loop is busy
with that connection (`turn`) until it is answered. `Spin` is a round that finds no CRLF. What
stops the process is a step with a `fate` of its own: an assertion, the header array overrun, a
null pointer compared, a zero written behind a full block of the status line
(`http_server.c:21`, 30, 36; a request is `tight` when malloc has nothing to spare for it), and
SIGPIPE when a request is answered after the connection was shut down for writing. Clients do
not close, and an answer is written in one go.

**Heartbeat.** Time passes by one second when neither program can go on: the timeout of `select`
that Linux leaves in `tv`, the sleep before each answer, which may take `Jitter` longer. The
client's standard input is selected and never read. The link may go, the server may die.

**Echo.** One `select` fills both sets, then the descriptors are served in order while clients go
on. Buffers belong to descriptors and survive the connection.

**Frames, Lines.** One client, one server. A read returns any number of the bytes that have
arrived. A call of `readn` or `recv` is a step; what `read_message` and `readline` hold between
them is in `call` and `line`. A client that is killed leaves a part of its message; the
connection may break. `Lines` notes with each record what `readline` forgot when it returned.

**EdgeServer.** `ready` is the list of the kernel: a descriptor enters it when something arrives
for it and leaves it when `epoll_wait` reports it or finds nothing there any more. The read loop
leaves -1 or 0 in `n`, which ends the walk over the batch; `missed` are those whose event went
with it. What a `write` takes is open, since the client may not read.

**Calculator.** A step is a key. Typed text is a sequence of characters, a result the operation it
came from, and what `%.6g` leaves of it on the display is marked as rounded: it tells the result
but is not the number the next key works with. `replaced` remembers that an operator was pressed
behind another one; `cleared` and `repeated` what was typed when a key took or dropped it.

**Lept.** The text is chosen token by token as the parser reads it, so every text up to the
bound is parsed. Each call under way is a record; the stack is the sequence of what was pushed,
with its size in bytes; `live` is what malloc gave out. `LeptValue` is a program that calls any
function on any place of its values but the keys of objects, the heap being a map from blocks to slots; a field that
nobody has set is `Unset`. `doubts` names what a call relied on that the library does not give:
the unset capacity of a parsed array; slots of a new array that `lept_free` looks at before they
are written, in any copy of an array with elements; the hole an object leaves in a copied array;
a value moved, swapped or copied within itself. `wild` is memory used outside a block, or
garbage freed. The program goes on until then; slots that did no harm end nothing.

**TinyMutex, TinyCnd, TinyOnce.** The Windows branch, because the other one only calls pthreads.
Every access to a shared field is a step of its own. `AtRest` of `MCSync` says where threads may
stop.

## Runs

| run | instance | shows |
|---|---|---|
| `threadpool` | 2 workers, 1 client, 4 tasks, ring of 2, 1 spurious return | refinement of `TaskPool`, FIFO ring, no lost wake-up, nothing freed in use, graceful drain; liveness: accepted tasks run, destroy returns |
| `reactor` | 2 sub-loops, 2 connections, 1 descriptor, pair of 1 byte | no lost registration, events reach the right connection, who can be left unattended, when `data` may be unset |
| `reactor_live` | 1 sub-loop, 2 connections, 2 descriptors | bytes are read and ends noticed |
| `reactor_shadow` | 1 sub-loop, 2 connections, 1 descriptor | **violation** of `Attended` |
| `network` | four programs, each alone: blocks of 3 to 6 bytes; 2 HTTP connections, 2 requests; keep-alive 10/3/3 with servers that take 0 to 12 seconds; a Buffer of 2 bytes | refinement of `ByteQueue`; answers in order, each of its own request, until one of the named requests stops the process; dead servers given up and live ones not; streams not mixed; liveness: whole requests answered, loss noticed, lines sent back |
| `http_pieces` | the HTTP server alone | **violation** of `PiecesAnswered` |
| `sync` | four objects, each alone: 2 servers, ring of 3, 7 descriptors; 3 threads for each of mutex, condition and once flag | refinement of `BoundedQueue`, no lost wake-up unless the ring is full, locks counted, broadcasts and signals delivered, one callback; liveness: service, `call_once` returns |
| `queue_full` | 2 servers, ring of 2, 4 descriptors | **violation** of `WaitsOnlyWhenEmpty` |
| `sequential` | leptjson: texts of 8 tokens, 2 variables and 3 blocks, numbers of 5 characters, strings of 3 pieces; poll: 4 slots, 5 descriptors; 2 messages, 5 characters in lines, 2 clients of the edge-triggered server, 5 keys of the calculator | JSON and only JSON accepted, stack and blocks given back, no write outside a block, values read back as written; messages and lines as they were sent; the display of the calculator tells the operand, and what is typed is used; each ready channel activated once, each event followed to its end unless it was dropped |
| `download` | 2 tasks, 2 workers; a file of up to 3 units | one request per download, counter, handlers, rows, clean exit; file, progress and row agree |
| `download_live` | 2 tasks, 1 worker | downloads end, the dialog is answered, closing ends the program |
| `download_pause` | 1 task, 1 worker | **violation** of `PauseIsHeeded` |

The four violations are findings about the code:

- `epoll_dispatcher.c:138-142` closes a hung-up descriptor but leaves its channel in the map.
  When `accept` returns the number again, `event_loop_handle_pending_add` finds the entry taken
  and returns: the new connection is never watched. `AttendedUnlessShadowed` says that this is
  the only way to miss registration: the entry must be in the map of the loop chosen for the new
  connection, and of another connection.
- `thread02.c:69` takes a full ring for an empty one; once it is full and the accepting thread
  waits, nobody runs again.
- A pause between `request_api.c:12` (handler published) and `http_manager.c:208`
  (`is_running = 1`) is overwritten.
- `network/lib/http_server.c:43` loops until the request is complete and does nothing when there
  is no CRLF to find. A request that is read in two pieces, which the comment at line 88 says to
  handle, keeps the loop spinning in the message callback and no connection of it is served
  again.

Other behaviour of the download tasks that the invariants carve out, with no statement in the
repository to hold against it: a task removed while its request is queued is freed under the
request and keeps its count, so that closing then waits for ever (`CloseEnds` excepts
`Torn`); a task that was DOWNLOADING when the process died can be neither resumed nor paused
afterwards (`stuck`); the late reset of the handler can wipe that of the next transfer.

`FileFollowsProgress` holds only of a file that is `Intact`. Each exception was put there because
TLC showed the property false without it: a task added for a file that exists appends to it, an
error page truncates and replaces what was downloaded, a full disk goes unnoticed, a download of
unknown length is never reported (so never paused either), resumes from 0 by appending, and is
Completed when its connection breaks (a file cut so holds its first units, but is not claimed to
be whole), and a
length of 2^32 or more resumes after a restart where its low 32 bits say; between 2^31 and 2^32 it
starts anew. `ServedRight` excepts connections that found the array full: they stay open, in the
map and unheard, and clients of `epoll01.c` that `missed` names: it walks its batch with the `n`
and `i` that its read loop counts bytes in, so that behind the first connection it reads the other
events of the batch are gone, edge-triggered and therefore for good until their client sends
again; clients that connect together are accepted one per event. `readline` forgets what came
behind a line end in the same `recv`, which `RecordsInPlace` counts out. The calculator takes the
last result, not the number it shows, for the left operand when an operator is pressed behind
another one, for the right one when `=` follows an operator, and for that of `%` and `S` behind an
operator; where the display shows the operand of a key it shows six digits of it, of which the
key uses all (`gtk/Chapter15/cases.txt`, line 3: 14.2857 and then 2.04082); and `=` with no
operator pressed since the last result repeats the last operation and drops a number that was
typed meanwhile, which `repeated` excepts.
`GivenUpRightly` and `LossNoticed` except what a key pressed at the client does: `select` then
never times out. `WholeRequestsAnswered` excepts a read that cuts a request or brings two (the
second waits for the next event) and the requests that stop the process (`FatalAsked`): too many
headers, a header without a blank behind its colon, HTTP/1.0 without a Connection header, for
which a null pointer is compared (`http_request.c:78`), a part of the status line that fills its
block, and any request after one that asked to close (SIGPIPE; `acceptor.c:30` would ignore it
but is a comment). `StreamEchoed`
starts from what the last connection left in the Buffer, and a full Buffer drops bytes.
`LocksAndWaits` ends where a thread that holds a timed mutex tries it again (`tinycthread.c:248`
leaves a critical section it never entered), and counts two signals that came before anyone waited
as one.

`BlocksSafe` has the exceptions that `doubts` names. Reading an unset capacity
(`leptjson.c:399` parses without setting it) may write outside the block. Copying an array with
elements calls `lept_free` on slots fresh from malloc (`leptjson.c:1181-1200`), which may free
garbage; an object in it is not copied and leaves its slot unwritten. Moving or swapping a value
into one of its own elements (`leptjson.c:1222`, 1234 only ask that the two differ) makes a cycle
that no variable reaches, and moving or copying an element over the value it belongs to reads the
block just freed. The note above `lept_copy` (`leptjson.c:1167`) says that it leaks memory; where
the fresh slots do no harm the model finds an owner for every block of a copy, so what there is
to mend is what is freed, not what is kept.

### Bounds

- ThreadPool: the ring is smaller than the number of tasks, so it fills, refuses and wraps; two
  workers are enough for a signal to reach the wrong one; nested submission gives a third
  submitter. `MaxSpurious` bounds spurious returns, which only lead back to the test.
- Reactor: one descriptor and two connections force reuse, also across the two sub-loops; a pair
  of one byte makes the write block.
- Buffer: `MaxSize` is twice the initial size, so that growth, compaction and the spill-over into
  the stack block all occur, also on a block that has grown; two byte values tell order.
- PollDispatcher: two of the four slots are the loop's own, so two connections fill the array,
  the third is turned away, and after a close its slot is taken again; the map of 2 grows
  to 4 and 8.
- BlockQueue: a ring of three holds two descriptors before it is full, so that order shows and
  the ring wraps short of being full; seven are more than ring, servers and the hand of the main
  thread hold together. `queue_full` needs only a full ring.
- Download: two tasks compete for workers and for the list; two workers let the tail of one
  transfer overlap the start of the next one of the same task. Sessions and crashes are not
  bounded. `download_live` uses one worker, which makes tasks queue behind each other; the same
  properties hold with two, in five minutes instead of seconds.
- Transfer: a length of 1 is done with its first unit, one of 3 can be paused and broken in the
  middle; ints of 2 bits make 2 negative and 3 too, and 1 not. Sessions, pauses and crashes are
  not bounded.
- Http: room for one header, so a second one overflows; one request of each kind the parser
  tells apart, one of them with a status line that fills a block; two requests, so that one may
  follow a request to close; two connections of which one can starve the other.
- Frames: words of 2 bytes instead of 4 and lines of up to 2 characters, so that each part of a
  message may come in pieces or share a read with the next one. Lines: a `recv` of up to 3
  characters holds three lines or the end of one and the start of another; a line of 3 is
  the longest that fits, with its end.
- EdgeServer: two clients and the listener are more than a batch of two holds; three bytes are
  read in two goes. Three clients give the same result, in four minutes.
- Calculator: five keys are typed number, operator, another one, number and `=`; a buffer of four
  characters holds a number with a point and fills up.
- Heartbeat: the times are those of the source (10, 3, 3); the server's sleep lies below, at and
  above the three intervals after which it is given up.
- Echo: one descriptor for connections, so each one inherits; a Buffer of two bytes and a socket
  that takes one, so that both fill.
- Lept: a stack that starts at 2 bytes grows with every push. Eight tokens make an object inside
  an array, two members, and every error inside a second element. Units at every boundary of
  UTF-8 and of the surrogates; three pieces put a character on both sides of one. Two variables
  and three blocks for every alias between variable, element and element of an element.
- tinycthread: three threads are the least for one that waits, one that signals and one that
  comes in between; a mutex up to three deep.

### Fairness

Weak fairness of every thread's own steps: threads that can run do run, a released mutex is
granted, tasks, callbacks and transfers return, peers of the blocking queue close in the end.
For idle callbacks it is strong: a user who clicks keeps the main loop busy for moments, not for
good. In `network`, the event loop, both programs of the keep-alive, time, and the select server
go on, and clients of the latter read what they are sent (else a full socket stops it rightly);
in `sync`, the threads inside `call_once`. No fairness for what the outside does: submitting,
destroying, connecting, sending, clicking, crashing, spurious returns, starting the program.

Deadlock is checked except in `network`, `http_pieces` and `sequential` (bounds on input are
reached; programs end) and `reactor_shadow`. ThreadPool, Reactor and `MCSync` have explicit
terminal steps (`Terminated`, `Quiet`, `AtRest`) that say where stopping is right.

## Proofs

For all values of the constants, from the named assumptions of each module only:

- `ThreadPoolProofs`: types, `FifoRing`, `LockReleased`, `WorkConserving`, `GracefulDrains`, (if
  `CallersFirst`) `NoUseAfterFree`, and the refinement of `TaskPool`. The invariant is layered.
  `DataInv` adds to the types which
  part of the code each thread stands in, that a busy thread has a task, and `RingInv`, which
  states FifoRing slot by slot with `tail = (head + count) % QueueSize`; without it an add could
  overwrite a slot in use. `OwnerInv /\ PhaseInv` ties the mutex to program counters and the
  shutdown mode to how far the main thread is. `WorkConserving` is inductive on top of these:
  an add is covered by the worker it signals, a worker that leaves the test either took a task
  or found none. `LifeInv` counts started and joined threads. `HandsInv` (what was taken has
  finished or is in the hands of a busy worker) and `LeaveInv` (a graceful shutdown finds workers,
  and the first to leave leaves an empty ring) give `GracefulDrains`; `OnceInv` (a task on its
  way into the ring is not in it) is what the refinement needs besides.
- `ReactorProofs`: all that the runs check of safety (`NoLostWakeup`, `TypeOK`, `RightConnection`,
  `AttendedUnlessShadowed`, `UnsetWindow`), for every number of loops, connections and
  descriptors and any capacity of the pair. `WakeInv`: only the loop itself and the main thread in
  "add" touch a pending list, the main loop's list is handled at once, and a wake-up event in a
  batch means there is a byte to read. `ConnInv` is what descriptors need that come back:
  an entry, a watched descriptor and an event to be handled name the connection that has the
  descriptor now (`FdInv`, `WatchInv`, `BatchInv`); a registration on its way is in one
  list and is that of an open connection nobody watches (`WayInv`); `data` is set but for the
  accepting thread (`DataInv`). A turn of a loop handles a whole list
  (`PendingWalk`, a recursive function), so the proof needs what a walk of any length keeps:
  each element keeps `Good`, and `SetInduction` carries that from the first to the last.
  It states induction with the property given as a set, and has it from finite sets being well
  founded, since the library's induction takes an operator.
- `NetworkProofs`, of the buffer: `TypeOK` (inductive by itself), `GrowsOnlyWhenFull`, and the refinement of
  `ByteQueue`, for all sizes and chunks. Each operator has a lemma on the content it leaves
  (`CompactKeeps`, `GrowKeeps`, `StoreAppends`, ...); `StepEffect` puts them together.
- `SyncProofs`: of the blocking queue types, the refinement of `BoundedQueue`, from `HandInv` (who
  holds a descriptor) and `RingInv` (`rear` is `count` slots behind `front`; between them there is
  no empty slot), and `NoLostWakeup`, by counting the servers on their way to the queue. Of
  tinycthread `OnceOnly` and `LocksAndWaits`. Whoever is past the exchange of `call_once` is the
  one that won it, and `status` says how far that one is (`PlaceInv`, `RanInv`, `OneWinner`). Until
  a mutex goes wild, the handle is taken as often as the calls say, by the thread that is about to
  claim it or has it (`HandleInv`, `CountInv`). For the condition variable, the counter counts who
  has entered a wait and not left it (`CountedInv`), a broadcast owes only threads on their way to
  the second event, which stays set as long as it does (`OwedInv`), and nobody is blocked on an
  event that is set (`CreditInv`).
- `NetworkProofs`, of the programs: `GivenUpRightly`, `StreamEchoed` and `AnswersFollowRequests`.
  The keep-alive: `PatienceInv` relates the silence to the probes counted and to what is left of
  the timeout, for every choice of the three times; `PromptInv` says where the answer is while
  client and prompt server run and the link holds: asked for in this second or slept off in time,
  and probes do not pile up. The echo server: what was sent, what the Buffer holds and
  what came in say the same stream (`StreamInv`); `SizeInv` says a Buffer that dropped bytes is
  full of them. The HTTP server: `Flow(c)` is what the parser has not taken yet, wherever it is
  (read, in the socket, or with the client); `Carried` says that it is exactly the rest of the
  requests asked, from where the parser stands in the first one of them. That is kept as a
  map from requests to places, so that neither cutting the text into messages nor answering
  changes anything but the offset. A header without a blank ends it: the connection is `Derailed`,
  spins and is never answered again. While no fatal request was asked, a connection is shut down
  when its last answer was to a request to close (`ShutRightly`), so that `Respond` meets a
  shut one only after such a request.
- `DownloadProofs`: types, `HandlerIsOwn`, `RowFollowsTask`, `OneTransfer`, `CounterBalanced` and
  `CleanExit` for any number of tasks and workers. For the handler and the row, the strengthening
  says that a process that is down has no memory (so what `Start` builds begins clean), that an
  object which is not live has no handler (so a late `ClearHandler` meets no other transfer), and
  that a row inserted for the dialog stays "Ready" and without object until its one callback
  runs. For the last three, `CountsInv` follows a request from queue to worker
  to callback (each step keeps the number of its places), ties it to the object it belongs to,
  and says who answers for a row that says DOWNLOADING; that the end of the program drops no
  request comes out of the counter being zero. And `FileFollowsProgress`, for files of any length
  and ints of any width. `FileInv` says it at every moment: the file holds its first units in order,
  as many as the response has brought behind where it started, and the progress of task and row is
  that number as an int keeps it (`Folds`), unless the process died while downloading.
  `ResponseInv` is what a range and a length mean for the transfer under way, `PlaceInv` that
  a transfer belongs to a task that is DOWNLOADING and a task to a row that says the same.
- `LeptProofs`: `StackOfCalls` and `OwnedOnce` for texts of any length and nesting. Each call notes
  where on the stack its pieces begin, and they end where those of the call inside it begin; a
  step changes the pieces of the innermost call only. The invariant adds what a call, its key
  and the string under way own at each place of the parser (`InnermostIs`, `NothingYet`), so that
  what an error path frees is exactly what is above its caller. `FitsStack` needs that the size
  doubles or the text is read on: `Fits` says that the bytes on the stack are within it. Lemmas
  about sequences whose elements have no common type come first.
  `BlocksSafe`, for any number of blocks and values nested to any depth, from `ValuesInv`: until
  a value goes into itself, the heap is a `Tree`. `Sound` relates each value to its block (an array
  that knows its capacity has that many slots; slots that hold no element point nowhere), `Unique`
  gives a block one owner at most, and `Rooted` one at least, by a path from a variable: no set of
  blocks is owned only from within itself. `BlocksSafe` leaves open how objects and strings relate
  to their blocks and what the slots behind the last element hold. What `lept_free` and
  `lept_copy` reach is a recursive function that goes down as often as there are blocks;
  `WalkEnds` shows by counting blocks that nothing is left below then (`ReachIs`), and `NoRing` that
  a value is never freed from inside. `TreeKept`, `TreeGrown`, `SwapIs` and `CopiedIs` carry the tree
  over what only loses blocks, gains one, exchanges two branches, and over a copy, whose new
  blocks are mapped back to those they were copied from.
- `ProgramProofs`: `ServedRight`, from one invariant for each program. The poll dispatcher:
  `PollInv` splits the slots at the place of the walk: behind it no event is left, ahead of it
  `ready_number` counts the marked slots (`AheadOf`), so that the early end comes when none is
  left, and what poll reported is either activated or ahead, never both. The message server:
  `StreamIs` cuts what is under way into the messages still to come, each one known place by place,
  the first one less what the call has consumed; that the length comes out as it went in
  (`NetworkOrder`) is induction over the bytes of a word, from the one assumption that
  the length fits in it. The line server: `LinesInv` says where in the stream the records and the
  line under way lie. The edge-triggered server: `EdgeInv` says of each descriptor whether it is in the
  list, in the batch (`OnItsWay`), being read, or missed; taking one out of the list keeps the others
  (`Among`, by induction). The calculator: `CalcInv` gives the forms that typed text can
  have, and with them what `FormatInput` makes of it; it says what the display tells after a
  result and after an operator, and where the typed number went. The numbers need no invariant but
  their type; what `lept_parse_number` walks over, part by part, is compared with a grammar that says
  how a text falls into parts, and each part ends in one place only (`StopsOnce`).

Types of ThreadPool, Buffer, BlockQueue and Download, `LockReleased` and `GrowsOnlyWhenFull` are
proved and therefore not run again.

The assumptions ask of the constants what the code gives: sets of threads are finite, sizes are
natural numbers, names of nothing are not names of something. Only `KeepAliveAssumption` says
more: the intervals of all probes together are no longer than the keep-alive time (9 and 10
seconds in `ping_client.c`), so that a prompt server has slept off what it was sent before the
next silence is probed.

Only model-checked: all liveness (the provers have no rule for fairness that these proofs could
use), and `TextsReadRight`: the grammar of JSON and the reading of strings are recursive over data.

## Not modelled

- The output path of a connection (`tcp_connection_send_data`, `handle_write`, `poll_update`): as
  soon as a write is partial it takes a `tcp_connection` for an `event_loop` (`channel.c:19`),
  and there is no state to follow that in.
- `MAXEVENTS` of the reactor (a batch of 128 events, `epoll_dispatcher.c:135`): `Dispatch` takes
  all that are ready.
- What `threadpool_create` does when it fails before its first thread (`threadpool.c:107-132`,
  146-150): `CreateErr` is one step, after which nothing of the pool is left.
- The copy of the HTTP server in `lib/event-loop`: it looks for the end of the version where it
  cannot be (`http_server.c:40`) and stops at an assertion with every request line.
- `leptjson.c`: the object functions whose bodies are empty (marked todo); failing `malloc`,
  which is an assertion; the conversions of `strtod` and `sprintf`.
- `tinycthread.c`: threads, thread-specific storage, clocks; its pthread branch.
- In the download manager: file names, SQL, text formatting; `threadpool_add`'s result is dropped
  (`threadpool_manager.c:14`), which a queue of 65536 makes rare. GTK layout.
- The calculator's three user interfaces, which pass keys and texts on, and the digits of results.
- `network/lib` apart from its HTTP server and `read.c`, `gtk/Chapter16`: near-copies of modelled code.
- `basic/`, most of `network/chap-*`, `gtk/Chapter14`: lessons of a page each. They and the copies
  are most of the repository's lines, which is why the models stand for an eighth of
  them.

## Plan

Done, in this order: `ThreadPool` and `TaskPool`; `Reactor` and the proof of its hand-over;
`Buffer` and `ByteQueue`; `BlockQueue` and `BoundedQueue`; `Download`; the four modules of leptjson;
tinycthread; `Http`, `Heartbeat`, `Echo`; `Transfer` and `PollDispatcher`; `Frames`, `Lines`,
`EdgeServer` and `Calculator`.

Left, as proofs: `TextsReadRight`, which needs induction over texts, and the liveness properties.

--------------------------- MODULE DownloadProofs ---------------------------
(***************************************************************************)
(* Proofs about Download, for any number of tasks and workers: a published *)
(* handler never dangles, every row says what its object says, a task has  *)
(* one request at most, and a program that ends has waited for all. Then   *)
(* about Transfer, for any lengths and width of an int: the file of a      *)
(* download holds its progress.                                            *)
(***************************************************************************)
EXTENDS MCDownloadFile, FiniteSetTheorems, TLAPS

CallResults == Stored \cup {"created", "failed"}
Calls       == [result : CallResults, task : Tasks \cup {NULL}]
Pcs         == {"wait", "info", "publish", "send", "transfer", "clear"}

\* TypeOK without the counter, whose bound takes counting tasks.
Types ==
  /\ db \in [Tasks -> Stored \cup {"unused", "deleted"}]
  /\ life \in [Tasks -> {"none", "live", "torn"}]
  /\ status \in [Tasks -> Stored \cup {REMOVING}]
  /\ handler \in [Tasks -> Workers \cup {NULL}]
  /\ idle \in Seq(Calls)
  /\ queue \in Seq(Tasks \cup {Info})
  /\ worker \in [Workers -> [pc : Pcs, task : Tasks \cup {Info, NULL},
                             running : BOOLEAN, asked : BOOLEAN]]

\* A worker with a download has its task, the main thread in a handler too.
WorkInv ==
  \A w \in Workers :
    worker[w].pc \in {"publish", "send", "transfer", "clear"} => worker[w].task \in Tasks
MainInv ==
  /\ main.at # "loop" => main.task \in Tasks
  /\ main.at = "resume" => life[main.task] = "live" /\ status[main.task] \in Resumable
  /\ main.at = "store" => main.ctx \in Workers

\* A process that is down has no memory.
DownInv ==
  app = "down" =>
    /\ main = AtLoop
    /\ handler = [t \in Tasks |-> NULL]
    /\ idle = << >> /\ queue = << >>
    /\ worker = [w \in Workers |-> Rest]

\* HandlerIsOwn; a freed task has no handler.
OwnInv ==
  \A t \in Tasks : handler[t] # NULL => life[t] = "live" /\ HasContext(handler[t], t)

\* A row that was inserted for the dialog waits, untouched, for its object.
RowInv ==
  /\ RowFollowsTask
  /\ \A t \in Tasks : db[t] = "unused" => life[t] = "none"
  /\ \A i \in 1..Len(idle) : idle[i].result = "created" =>
       /\ idle[i].task \in Tasks
       /\ db[idle[i].task] = "Ready" /\ life[idle[i].task] = "none"
       /\ \A j \in 1..Len(idle) : idle[j].result = "created" /\ idle[j].task = idle[i].task => j = i
  /\ \A i \in 1..Len(idle) : idle[i].result \in Stored => idle[i].task \in Tasks

IInv == Types /\ WorkInv /\ MainInv /\ DownInv /\ OwnInv /\ RowInv

LEMMA Names ==
  /\ Info \notin Tasks /\ NULL \notin Tasks /\ NULL \notin Workers /\ Info # NULL
  /\ "unused" \notin Stored /\ "deleted" \notin Stored /\ "Ready" \in Stored
  /\ "created" \notin Stored /\ "failed" \notin Stored
  /\ REMOVING \notin Stored /\ DOWNLOADING \in Stored /\ Resumable \subseteq Stored
  /\ DOWNLOADING \notin Resumable /\ COMPLETED \in Stored
BY DownloadAssumption DEF Stored, Resumable, DOWNLOADING, COMPLETED, REMOVING

LEMMA InitIInv == Init => IInv
<1> SUFFICES ASSUME Init PROVE IInv
  OBVIOUS
<1>1. Types
  BY Names DEF Init, Types, Rest, Pcs
<1>2. WorkInv /\ MainInv /\ DownInv /\ OwnInv
  BY DEF Init, WorkInv, MainInv, DownInv, OwnInv, Rest, AtLoop
<1>3. RowInv
  BY DEF Init, RowInv, RowFollowsTask
<1> QED
  BY <1>1, <1>2, <1>3 DEF IInv

\* The end of a process, however it comes about.
LEMMA GoneStep == ASSUME IInv, NoProcess, UNCHANGED db PROVE IInv'
<1>1. Types'
  BY Names DEF IInv, NoProcess, Types, Rest, Pcs
<1>2. WorkInv' /\ MainInv' /\ DownInv' /\ OwnInv'
  BY DEF NoProcess, WorkInv, MainInv, DownInv, OwnInv, Rest, AtLoop
<1>3. RowInv'
  BY DEF NoProcess, RowInv, RowFollowsTask
<1> QED
  BY <1>1, <1>2, <1>3 DEF IInv

\* The handlers that are published stay valid when no object goes and no worker
\* leaves its context.
LEMMA OwnKept ==
  ASSUME OwnInv, UNCHANGED <<life, handler>>,
         \A w \in Workers, t \in Tasks : HasContext(w, t) => HasContext(w, t)',
         Types
  PROVE  OwnInv'
BY DEF OwnInv, Types

LEMMA TailTyped ==
  ASSUME IInv, idle' = idle \/ (idle # << >> /\ idle' = Tail(idle))
  PROVE  idle' \in Seq(Calls)
<1>1. idle \in Seq(Calls)
  BY DEF IInv, Types
<1>2. \A S, q : q \in Seq(S) /\ q # << >> => Tail(q) \in Seq(S)
  OBVIOUS
<1> QED
  BY <1>1, <1>2

\* A step of a task's object alone: it is freed, or its row follows it.
LEMMA RowOfOne ==
  ASSUME IInv, NEW t \in Tasks, life[t] = "live",
         \A u \in Tasks \ {t} : /\ db'[u] = db[u] /\ life'[u] = life[u]
                                /\ status'[u] = status[u],
         db'[t] # "unused",
         life'[t] = "live" =>
           db'[t] \in (IF status'[t] = REMOVING THEN {"deleted", DOWNLOADING} ELSE {status'[t]}),
         \/ idle' = idle
         \/ idle # << >> /\ idle' = Tail(idle)
  PROVE  RowInv'
<1>1. RowFollowsTask'
  <2>1. RowFollowsTask
    BY DEF IInv, RowInv
  <2> QED
    BY <2>1, Zenon DEF RowFollowsTask
<1> USE DEF IInv, RowInv
<1>2. \A u \in Tasks : db'[u] = "unused" => life'[u] = "none"
  OBVIOUS
<1>3. \A i \in 1..Len(idle) : idle[i].result = "created" => idle[i].task # t
  OBVIOUS
<1>4. CASE idle' = idle
  BY <1>1, <1>2, <1>3, <1>4
<1>5. CASE idle # << >> /\ idle' = Tail(idle)
  <2>1. /\ Len(idle) \in Nat /\ Len(idle') = Len(idle) - 1
        /\ \A i \in 1..Len(idle') : idle'[i] = idle[i + 1] /\ i + 1 \in 1..Len(idle)
    BY <1>5 DEF Types
  <2>2. \A i \in 1..Len(idle') : idle'[i].result = "created" =>
          /\ idle'[i].task \in Tasks
          /\ db'[idle'[i].task] = "Ready" /\ life'[idle'[i].task] = "none"
          /\ \A j \in 1..Len(idle') :
               idle'[j].result = "created" /\ idle'[j].task = idle'[i].task => j = i
    <3> TAKE i \in 1..Len(idle')
    <3> HAVE idle'[i].result = "created"
    <3>1. idle[i + 1].task \in Tasks \ {t}
      BY <2>1, <1>3
    <3>2. db'[idle'[i].task] = "Ready" /\ life'[idle'[i].task] = "none"
      BY <2>1, <3>1
    <3>3. ASSUME NEW j \in 1..Len(idle'),
                 idle'[j].result = "created", idle'[j].task = idle'[i].task
          PROVE  j = i
      <4>1. j + 1 = i + 1
        BY SMTT(30), <2>1, <3>3
      <4> QED
        BY <4>1, <2>1
    <3> QED
      BY <2>1, <3>1, <3>2, <3>3
  <2>3. \A i \in 1..Len(idle') : idle'[i].result \in Stored => idle'[i].task \in Tasks
    BY <2>1
  <2> QED
    BY <1>1, <1>2, <2>2, <2>3
<1> QED
  BY <1>4, <1>5

\* A task whose object is freed (RemoveSelectedTask, DestroyTaskList, last callback).
LEMMA DestroyStep ==
  ASSUME IInv, NEW t \in Tasks, life[t] = "live", NEW as \in {"none", "torn"},
         DestroyDownloadTask(t, as),
         db' \in [Tasks -> Stored \cup {"unused", "deleted"}],
         \A u \in Tasks \ {t} : db'[u] = db[u],
         db'[t] # "unused",
         UNCHANGED <<app, queue, worker>>,
         main' = AtLoop \/ main' = main, main.at = "loop", app # "down",
         \/ idle' = idle
         \/ idle # << >> /\ idle' = Tail(idle)
  PROVE  IInv'
<1> USE DEF IInv
<1>1. Types'
  <2>1. idle' \in Seq(Calls)
    BY TailTyped
  <2> QED
    BY <2>1, Names DEF DestroyDownloadTask, Types
<1>2. WorkInv' /\ MainInv' /\ DownInv'
  BY DEF WorkInv, MainInv, DownInv, AtLoop
<1>3. OwnInv'
  <2>1. /\ handler'[t] = NULL
        /\ \A u \in Tasks \ {t} : handler'[u] = handler[u] /\ life'[u] = life[u]
    BY DEF DestroyDownloadTask, Types
  <2>2. \A w \in Workers, u \in Tasks : HasContext(w, u) => HasContext(w, u)'
    BY DEF HasContext
  <2> QED
    BY <2>1, <2>2 DEF OwnInv, Types
<1>4. RowInv'
  BY RowOfOne DEF DestroyDownloadTask, Types
<1> QED
  BY <1>1, <1>2, <1>3, <1>4

LEMMA CancelStep ==
  ASSUME IInv, NEW t \in Tasks, life[t] = "live",
         CancelDownloadingAndDestroyTask(t),
         \/ db' = db
         \/ db' = [db EXCEPT ![t] = "deleted"],
         UNCHANGED <<app, idle, queue, worker>>, main.at = "loop", app # "down"
  PROVE  IInv'
<1> USE DEF IInv
<1>1. CASE ~Cancellable(t)
  <2>1. PICK as \in {"none", "torn"} : DestroyDownloadTask(t, as) /\ UNCHANGED main
    BY <1>1 DEF CancelDownloadingAndDestroyTask
  <2>2. db[t] # "unused"
    BY DEF RowInv
  <2> QED
    BY <2>1, <2>2, DestroyStep DEF Types
<1>2. CASE Cancellable(t)
  <2>1. /\ status' = [status EXCEPT ![t] = REMOVING] /\ status[t] = DOWNLOADING
        /\ main' = At("cancel", t)
        /\ UNCHANGED <<life, handler>>
    BY <1>2 DEF CancelDownloadingAndDestroyTask, Cancellable
  <2>2. Types'
    BY <2>1 DEF Types
  <2>3. WorkInv' /\ MainInv' /\ DownInv'
    BY <2>1 DEF WorkInv, MainInv, DownInv, At
  <2>4. OwnInv'
    BY <2>1, OwnKept DEF HasContext
  <2>5. db[t] = DOWNLOADING /\ db'[t] \in {"deleted", DOWNLOADING}
    BY <2>1 DEF RowInv, RowFollowsTask, Types, DOWNLOADING, REMOVING
  <2>6. RowInv'
    BY <2>1, <2>5, RowOfOne DEF Types, DOWNLOADING
  <2> QED
    BY <2>2, <2>3, <2>4, <2>6
<1> QED
  BY <1>1, <1>2

\* UpdateDownloadTaskWithStatus, called by a handler or by a callback.
LEMMA UpdateStep ==
  ASSUME IInv, NEW t \in Tasks, life[t] = "live", NEW s \in Stored,
         UpdateDownloadTaskWithStatus(t, s),
         UNCHANGED <<app, queue, worker>>, app # "down",
         main' = AtLoop \/ (main.at = "loop" /\ main' = main),
         main.at = "loop" \/ status[t] # REMOVING,
         \/ idle' = idle
         \/ idle # << >> /\ idle' = Tail(idle)
  PROVE  IInv'
<1> USE Names DEF IInv
<1>1. CASE Finished(t, s)
  <2>1. main.at = "loop" /\ db[t] # "unused"
    BY <1>1 DEF Finished, RowInv
  <2>2. /\ db' \in [Tasks -> Stored \cup {"unused", "deleted"}]
        /\ \A u \in Tasks \ {t} : db'[u] = db[u]
        /\ db'[t] # "unused"
    BY <1>1, <2>1 DEF Finished, Types
  <2> QED
    BY <1>1, <2>1, <2>2, DestroyStep DEF Finished
<1>2. CASE Changed(t, s) \/ (status[t] = s /\ UNCHANGED <<db, objects>>)
  <2>1. /\ status' = [status EXCEPT ![t] = s]
        /\ db' = [db EXCEPT ![t] = s]
        /\ UNCHANGED <<life, handler>>
    <3>1. CASE Changed(t, s)
      BY <3>1 DEF Changed
    <3>2. CASE status[t] = s /\ UNCHANGED <<db, objects>>
      BY <3>2 DEF objects, Types, RowInv, RowFollowsTask
    <3> QED
      BY <1>2, <3>1, <3>2
  <2>2. Types'
    <3>1. idle' \in Seq(Calls)
      BY TailTyped
    <3> QED
      BY <2>1, <3>1 DEF Types
  <2>3. WorkInv' /\ MainInv' /\ DownInv'
    BY DEF WorkInv, MainInv, DownInv, AtLoop
  <2>4. OwnInv'
    BY <2>1, OwnKept DEF HasContext
  <2>5. RowInv'
    BY <2>1, RowOfOne DEF Types
  <2> QED
    BY <2>2, <2>3, <2>4, <2>5
<1> QED
  BY <1>1, <1>2 DEF UpdateDownloadTaskWithStatus

\* A worker that leaves the objects and the database alone.
LEMMA WorkerQuiet ==
  ASSUME IInv, app # "down", UNCHANGED <<db, app, main, objects>>,
         Types', WorkInv',
         \A w \in Workers, t \in Tasks : HasContext(w, t) => HasContext(w, t)',
         \/ idle' = idle
         \/ \E call \in Calls : /\ idle' = Append(idle, call)
                                /\ call.result # "created"
                                /\ call.result \in Stored => call.task \in Tasks
  PROVE  IInv'
<1> USE DEF IInv, objects
<1>1. MainInv' /\ DownInv' /\ OwnInv'
  BY OwnKept DEF MainInv, DownInv
<1>2. RowInv'
  <2>1. CASE idle' = idle
    BY <2>1 DEF RowInv, RowFollowsTask
  <2>2. ASSUME NEW call \in Calls, idle' = Append(idle, call), call.result # "created",
               call.result \in Stored => call.task \in Tasks
        PROVE  RowInv'
    <3>1. /\ Len(idle') = Len(idle) + 1 /\ Len(idle) \in Nat
          /\ \A i \in 1..Len(idle) : idle'[i] = idle[i]
          /\ idle'[Len(idle) + 1] = call
      BY <2>2 DEF Types
    <3>2. \A i \in 1..Len(idle') : i \in 1..Len(idle) \/ i = Len(idle) + 1
      BY <3>1
    <3>3. \A i \in 1..Len(idle') : idle'[i].result = "created" => i \in 1..Len(idle)
      BY <3>1, <3>2, <2>2
    <3>4. UNCHANGED <<db, life, status>>
      OBVIOUS
    <3>5. /\ RowFollowsTask'
          /\ \A t \in Tasks : db'[t] = "unused" => life'[t] = "none"
      BY <3>4 DEF RowInv, RowFollowsTask
    <3>6. \A i \in 1..Len(idle') : idle'[i].result \in Stored => idle'[i].task \in Tasks
      BY <3>1, <3>2, <2>2 DEF RowInv
    <3>7. \A i \in 1..Len(idle') : idle'[i].result = "created" =>
            /\ idle'[i].task \in Tasks
            /\ db'[idle'[i].task] = "Ready" /\ life'[idle'[i].task] = "none"
            /\ \A j \in 1..Len(idle') :
                 idle'[j].result = "created" /\ idle'[j].task = idle'[i].task => j = i
      BY <3>1, <3>3, <3>4 DEF RowInv
    <3> QED
      BY <3>5, <3>6, <3>7 DEF RowInv
  <2> QED
    BY <2>1, <2>2
<1> QED
  BY <1>1, <1>2

\* The worker that posts, stops or rests.
LEMMA ContextKept ==
  ASSUME NEW v \in Workers,
         \A w \in Workers \ {v} : worker'[w] = worker[w],
         worker'[v].task = worker[v].task \/ worker[v].pc \notin {"send", "transfer", "clear"},
         worker[v].pc \in {"send", "transfer", "clear"} =>
           worker'[v].pc \in {"send", "transfer", "clear"}
  PROVE  \A w \in Workers, t \in Tasks : HasContext(w, t) => HasContext(w, t)'
BY DEF HasContext

LEMMA Unseen ==
  ASSUME IInv, UNCHANGED <<db, main, objects, idle, queue, worker>>,
         app' = "down" => app = "down"
  PROVE  IInv'
<1>1. UNCHANGED <<db, main, life, status, handler, idle, queue, worker>>
  BY DEF objects
<1>2. Types' /\ WorkInv' /\ MainInv' /\ DownInv'
  BY <1>1 DEF IInv, Types, WorkInv, MainInv, DownInv
<1>3. OwnInv'
  BY <1>1, OwnKept DEF IInv, HasContext
<1>4. RowFollowsTask'
  BY <1>1 DEF IInv, RowInv, RowFollowsTask
<1>5. RowInv'
  BY <1>1, <1>4 DEF IInv, RowInv
<1> QED
  BY <1>2, <1>3, <1>5 DEF IInv

LEMMA UserSteps == ASSUME IInv, UserStep PROVE IInv'
<1> USE DEF IInv, AtEase
<1>1. ASSUME NEW t \in Tasks, ResumeSelectedTask(t) PROVE IInv'
  <2>1. UNCHANGED <<db, app, life, status, handler, idle, worker>>
    BY <1>1 DEF ResumeSelectedTask, objects
  <2>2. queue' \in Seq(Tasks \cup {Info})
    BY <1>1 DEF ResumeSelectedTask, ThreadPoolExecute, Types
  <2>3. Types' /\ WorkInv'
    BY <2>1, <2>2 DEF Types, WorkInv
  <2>4. MainInv' /\ DownInv'
    BY <1>1, <2>1 DEF ResumeSelectedTask, Listed, MainInv, At, DownInv
  <2>5. OwnInv'
    BY <2>1 DEF OwnInv, HasContext
  <2>6. RowInv'
    BY <2>1 DEF RowInv, RowFollowsTask
  <2> QED
    BY <2>3, <2>4, <2>5, <2>6
<1>2. ASSUME NEW t \in Tasks, PauseSelectedTask(t) PROVE IInv'
  <2>1. UNCHANGED <<db, app, life, status, handler, idle, queue, worker>>
    BY <1>2 DEF PauseSelectedTask, objects
  <2>2. Types' /\ WorkInv' /\ OwnInv' /\ RowInv'
    BY <2>1 DEF Types, WorkInv, OwnInv, HasContext, RowInv, RowFollowsTask
  <2>3. MainInv' /\ DownInv'
    BY <1>2, <2>1 DEF PauseSelectedTask, MainInv, At, DownInv
  <2> QED
    BY <2>2, <2>3
<1>3. ASSUME NEW t \in Tasks, RemoveSelectedTask(t) PROVE IInv'
  <2>1. life[t] = "live" /\ main.at = "loop" /\ app # "down"
    BY <1>3 DEF RemoveSelectedTask, Listed
  <2> QED
    BY <1>3, <2>1, CancelStep DEF RemoveSelectedTask
<1>4. CASE OpenNewTaskDialog \/ OnDialogDestroyed \/ CloseWindow
  BY <1>4, Unseen DEF OpenNewTaskDialog, OnDialogDestroyed, CloseWindow
<1>5. CASE OnConfirmCreateTask
  <2>1. UNCHANGED <<db, app, main, life, status, handler, idle, worker>>
    BY <1>5 DEF OnConfirmCreateTask, objects
  <2>2. queue' \in Seq(Tasks \cup {Info})
    BY <1>5 DEF OnConfirmCreateTask, ThreadPoolExecute, Types
  <2>3. Types' /\ WorkInv' /\ MainInv'
    BY <2>1, <2>2 DEF Types, WorkInv, MainInv
  <2>4. DownInv' /\ OwnInv' /\ RowInv'
    BY <1>5, <2>1 DEF OnConfirmCreateTask, DownInv, OwnInv, HasContext, RowInv, RowFollowsTask
  <2> QED
    BY <2>3, <2>4
<1> QED
  BY <1>1, <1>2, <1>3, <1>4, <1>5 DEF UserStep

LEMMA MainSteps == ASSUME IInv, MainStep PROVE IInv'
<1> USE DEF IInv
<1>1. CASE MarkDownloading
  <2>1. /\ main.task \in Tasks /\ life[main.task] = "live"
        /\ status[main.task] # REMOVING /\ app # "down"
    BY <1>1, Names DEF MarkDownloading, MainInv, DownInv, AtLoop
  <2> QED
    BY <1>1, <2>1, Names, UpdateStep DEF MarkDownloading
<1>2. CASE ReadHandler
  <2>1. UNCHANGED <<db, app, life, status, handler, idle, queue, worker>>
    BY <1>2 DEF ReadHandler, objects
  <2>2. Types' /\ WorkInv' /\ OwnInv' /\ RowInv'
    BY <2>1 DEF Types, WorkInv, OwnInv, HasContext, RowInv, RowFollowsTask
  <2>3. MainInv' /\ DownInv'
    BY <1>2, <2>1 DEF ReadHandler, MainInv, AtLoop, DownInv, Types
  <2> QED
    BY <2>2, <2>3
<1>3. CASE CancelRequest
  <2>1. UNCHANGED <<db, app, life, status, handler, idle, queue>> /\ main' = AtLoop
    BY <1>3 DEF CancelRequest, objects
  <2>2. \/ worker' = worker
        \/ \E w \in Workers, b \in BOOLEAN : Stop(w, b)
    BY <1>3 DEF CancelRequest, MainInv, Types
  <2>3. /\ worker' \in [Workers -> [pc : Pcs, task : Tasks \cup {Info, NULL},
                                    running : BOOLEAN, asked : BOOLEAN]]
        /\ \A w \in Workers : /\ worker'[w].pc = worker[w].pc
                              /\ worker'[w].task = worker[w].task
    <3>1. ASSUME NEW w \in Workers, NEW b \in BOOLEAN, Stop(w, b)
          PROVE  /\ worker' \in [Workers -> [pc : Pcs, task : Tasks \cup {Info, NULL},
                                                running : BOOLEAN, asked : BOOLEAN]]
                 /\ \A v \in Workers : /\ worker'[v].pc = worker[v].pc
                                       /\ worker'[v].task = worker[v].task
      <4>1. worker \in [Workers -> [pc : Pcs, task : Tasks \cup {Info, NULL},
                                    running : BOOLEAN, asked : BOOLEAN]]
        BY DEF Types
      <4>2. worker' = [worker EXCEPT ![w].running = FALSE, ![w].asked = b]
        BY <3>1, Zenon DEF Stop
      <4> QED
        BY <4>1, <4>2
    <3>2. CASE worker' = worker
      BY <3>2 DEF Types
    <3> QED
      BY <2>2, <3>1, <3>2
  <2>4. Types' /\ WorkInv'
    BY <2>1, <2>3 DEF Types, WorkInv
  <2>5. MainInv' /\ DownInv'
    BY <1>3, <2>1 DEF CancelRequest, MainInv, DownInv, AtLoop
  <2>6. OwnInv'
    BY <2>1, <2>3, OwnKept DEF HasContext
  <2>7. RowInv'
    BY <2>1 DEF RowInv, RowFollowsTask
  <2> QED
    BY <2>4, <2>5, <2>6, <2>7
<1>4. CASE AllClosed
  BY <1>4, Unseen DEF AllClosed
<1>5. CASE GtkMainQuit
  <2>1. UNCHANGED <<db, main, life, status, handler, idle, worker>> /\ queue' = << >>
    BY <1>5 DEF GtkMainQuit, objects
  <2>2. Types' /\ WorkInv' /\ MainInv' /\ DownInv'
    BY <1>5, <2>1 DEF GtkMainQuit, Types, WorkInv, MainInv, DownInv
  <2>3. OwnInv' /\ RowInv'
    BY <2>1 DEF OwnInv, HasContext, RowInv, RowFollowsTask
  <2> QED
    BY <2>2, <2>3
<1>6. CASE Exit
  BY <1>6, GoneStep DEF Exit
<1>7. ASSUME NEW t \in Tasks, CloseTask(t) PROVE IInv'
  <2>1. life[t] = "live" /\ app # "down"
    BY <1>7 DEF CloseTask, Listed
  <2>2. main.at = "loop" /\ UNCHANGED <<db, app, idle, queue, worker>>
    BY <1>7 DEF CloseTask
  <2> QED
    BY <1>7, <2>1, <2>2, CancelStep DEF CloseTask
<1> QED
  BY <1>1, <1>2, <1>3, <1>4, <1>5, <1>6, <1>7 DEF MainStep

LEMMA StartStep == ASSUME IInv, Start PROVE IInv'
<1> USE DEF IInv, Start
<1>1. Types'
  BY Names DEF Types
<1>2. WorkInv' /\ MainInv' /\ DownInv'
  BY DEF WorkInv, MainInv, DownInv, AtLoop
<1>3. OwnInv'
  BY DEF OwnInv, DownInv
<1>4. RowInv'
  <2>1. idle' = << >>
    BY DEF DownInv
  <2>2. RowFollowsTask'
    BY Names DEF RowFollowsTask, Types
  <2>3. \A t \in Tasks : db'[t] = "unused" => life'[t] = "none"
    BY Names DEF Types
  <2> QED
    BY <2>1, <2>2, <2>3 DEF RowInv
<1> QED
  BY <1>1, <1>2, <1>3, <1>4

\* A callback that changes no object leaves the row invariant with one call less.
LEMMA TailRow ==
  ASSUME IInv, idle # << >>, idle' = Tail(idle), UNCHANGED <<db, life, status>>
  PROVE  RowInv'
<1> USE DEF IInv, RowInv
<1>1. /\ Len(idle) \in Nat /\ Len(idle') = Len(idle) - 1
      /\ \A i \in 1..Len(idle') : idle'[i] = idle[i + 1] /\ i + 1 \in 1..Len(idle)
  BY DEF Types
<1>2. RowFollowsTask'
  BY DEF RowFollowsTask
<1>3. \A i \in 1..Len(idle') : idle'[i].result = "created" =>
        /\ idle'[i].task \in Tasks
        /\ db'[idle'[i].task] = "Ready" /\ life'[idle'[i].task] = "none"
        /\ \A j \in 1..Len(idle') :
             idle'[j].result = "created" /\ idle'[j].task = idle'[i].task => j = i
  <2> TAKE i \in 1..Len(idle')
  <2> HAVE idle'[i].result = "created"
  <2>1. ASSUME NEW j \in 1..Len(idle'),
               idle'[j].result = "created", idle'[j].task = idle'[i].task
        PROVE  j = i
    <3>1. j + 1 = i + 1
      BY <1>1, <2>1
    <3> QED
      BY <3>1, <1>1
  <2> QED
    BY <1>1, <2>1
<1>4. \A i \in 1..Len(idle') : idle'[i].result \in Stored => idle'[i].task \in Tasks
  BY <1>1
<1> QED
  BY <1>2, <1>3, <1>4

\* The object of a row the dialog asked for.
LEMMA CreatedStep ==
  ASSUME IInv, idle # << >>, idle' = Tail(idle),
         Head(idle).result = "created", OnTaskCreatedSuccessfully(Head(idle).task), dialog # "closed",
         UNCHANGED <<app, main, queue, worker>>, main.at = "loop", app # "down"
  PROVE  IInv'
<1> USE DEF IInv, OnTaskCreatedSuccessfully
<1> DEFINE t == Head(idle).task
<1>1. /\ Len(idle) \in Nat \ {0} /\ Head(idle) = idle[1] /\ Len(idle') = Len(idle) - 1
      /\ \A i \in 1..Len(idle') : idle'[i] = idle[i + 1] /\ i + 1 \in 1..Len(idle)
  BY DEF Types
<1>2. t \in Tasks /\ db[t] = "Ready" /\ life[t] = "none"
  BY <1>1 DEF RowInv
<1>3. \A i \in 1..Len(idle') : idle'[i].result = "created" => idle'[i].task # t
  <2> SUFFICES ASSUME NEW i \in 1..Len(idle'), idle'[i].result = "created",
                      idle'[i].task = t
               PROVE  FALSE
    OBVIOUS
  <2>1. i + 1 = 1
    BY <1>1 DEF RowInv
  <2> QED
    BY <2>1, <1>1
<1>4. /\ life' = [life EXCEPT ![t] = "live"] /\ status' = [status EXCEPT ![t] = "Ready"]
      /\ handler' = [handler EXCEPT ![t] = NULL] /\ UNCHANGED db
  OBVIOUS
<1> HIDE DEF t, OnTaskCreatedSuccessfully
<1>5. Types'
  <2>1. idle' \in Seq(Calls)
    BY TailTyped
  <2> QED
    BY <1>2, <1>4, <2>1, Names DEF Types
<1>6. WorkInv' /\ MainInv' /\ DownInv'
  BY DEF WorkInv, MainInv, DownInv
<1>7. OwnInv'
  BY <1>2, <1>4 DEF OwnInv, Types, HasContext
<1>8. RowInv'
  <2>1. RowFollowsTask'
    BY <1>2, <1>4, Names DEF RowInv, RowFollowsTask, Types
  <2>2. \A u \in Tasks : db'[u] = "unused" => life'[u] = "none"
    BY <1>2, <1>4 DEF RowInv, Types
  <2>3. \A i \in 1..Len(idle') : idle'[i].result = "created" =>
          /\ idle'[i].task \in Tasks
          /\ db'[idle'[i].task] = "Ready" /\ life'[idle'[i].task] = "none"
          /\ \A j \in 1..Len(idle') :
               idle'[j].result = "created" /\ idle'[j].task = idle'[i].task => j = i
    <3> TAKE i \in 1..Len(idle')
    <3> HAVE idle'[i].result = "created"
    <3>1. idle'[i].task \in Tasks /\ db[idle'[i].task] = "Ready" /\ life[idle'[i].task] = "none"
      BY <1>1 DEF RowInv
    <3>2. life'[idle'[i].task] = "none"
      BY <3>1, <1>2, <1>3, <1>4 DEF Types
    <3>3. ASSUME NEW j \in 1..Len(idle'),
                 idle'[j].result = "created", idle'[j].task = idle'[i].task
          PROVE  j = i
      <4>1. j + 1 = i + 1
        BY <1>1, <3>3 DEF RowInv
      <4> QED
        BY <4>1, <1>1
    <3> QED
      BY <3>1, <3>2, <3>3, <1>4
  <2>4. \A i \in 1..Len(idle') : idle'[i].result \in Stored => idle'[i].task \in Tasks
    BY <1>1 DEF RowInv
  <2> QED
    BY <2>1, <2>2, <2>3, <2>4 DEF RowInv
<1> QED
  BY <1>5, <1>6, <1>7, <1>8

LEMMA CallbackSteps == ASSUME IInv, IdleCallback PROVE IInv'
<1> USE DEF IInv
<1> DEFINE call == Head(idle)
<1>1. /\ main.at = "loop" /\ app # "down" /\ idle # << >> /\ idle' = Tail(idle)
      /\ UNCHANGED <<app, main, queue, worker>>
  BY DEF IdleCallback
<1>2. call = idle[1] /\ 1 \in 1..Len(idle)
  BY <1>1 DEF Types
<1>3. CASE call.result = "created" /\ OnTaskCreatedSuccessfully(call.task) /\ dialog # "closed"
  BY <1>1, <1>3, CreatedStep
<1>4. CASE /\ call.result \in Stored
           /\ OnDownloadDone(call.task, call.result) /\ life[call.task] = "live"
  <2>1. call.task \in Tasks
    BY <1>2, <1>4 DEF RowInv
  <2> HIDE DEF call
  <2> QED
    BY <1>1, <1>4, <2>1, UpdateStep DEF OnDownloadDone
<1>5. CASE UNCHANGED <<db, objects>>
  <2>1. UNCHANGED <<db, life, status, handler>>
    BY <1>5 DEF objects
  <2>2. idle' \in Seq(Calls)
    BY <1>1, TailTyped
  <2>3. Types' /\ WorkInv' /\ MainInv' /\ DownInv'
    BY <1>1, <2>1, <2>2 DEF Types, WorkInv, MainInv, DownInv
  <2>4. OwnInv'
    BY <1>1, <2>1, OwnKept DEF HasContext
  <2>5. RowInv'
    BY <1>1, <2>1, TailRow
  <2> QED
    BY <2>3, <2>4, <2>5
<1> QED
  BY <1>3, <1>4, <1>5 DEF IdleCallback, OnDownloadDone, OnTaskCreatedSuccessfully

LEMMA WorkerSteps == ASSUME IInv, NEW w \in Workers, WorkerStep(w) PROVE IInv'
<1> USE DEF IInv
<1> DEFINE Record == [pc : Pcs, task : Tasks \cup {Info, NULL},
                      running : BOOLEAN, asked : BOOLEAN]
<1>1. app # "down"
  <2>1. app = "down" => worker[w].pc = "wait" /\ queue = << >>
    BY DEF DownInv, Rest
  <2> QED
    BY <2>1 DEF WorkerStep, Take, Publish, Die, SendRequest, Finish, ClearHandler,
                GetFileInfoFails, InsertTaskInfo
<1>2. CASE Take(w)
  <2>1. /\ Head(queue) \in Tasks \cup {Info} /\ queue' \in Seq(Tasks \cup {Info})
        /\ worker' = [worker EXCEPT ![w].pc = IF Head(queue) = Info THEN "info" ELSE "publish",
                                    ![w].task = Head(queue)]
        /\ worker[w].pc = "wait"
        /\ UNCHANGED <<db, app, main, objects, idle>>
    <3>1. \A S, q : q \in Seq(S) /\ q # << >> => Head(q) \in S /\ Tail(q) \in Seq(S)
      OBVIOUS
    <3>2. queue \in Seq(Tasks \cup {Info})
      BY DEF Types
    <3> QED
      BY <1>2, <3>1, <3>2 DEF Take
  <2>2. worker' \in [Workers -> Record]
    <3>1. PICK p \in Pcs : p = IF Head(queue) = Info THEN "info" ELSE "publish"
      BY DEF Pcs
    <3>2. worker' = [worker EXCEPT ![w].pc = p, ![w].task = Head(queue)]
      BY <2>1, <3>1
    <3>3. worker \in [Workers -> Record] /\ Head(queue) \in Tasks \cup {Info, NULL}
      BY <2>1 DEF Types
    <3>4. [worker[w] EXCEPT !.pc = p, !.task = Head(queue)] \in Record
      BY <3>3
    <3> QED
      BY <3>2, <3>3, <3>4
  <2>3. /\ worker'[w].pc \in {"info", "publish"} /\ worker'[w].task = Head(queue)
        /\ worker'[w].pc = "publish" => Head(queue) \in Tasks
        /\ \A v \in Workers \ {w} : worker'[v] = worker[v]
    BY <2>1 DEF Types
  <2>4. Types'
    BY <2>1, <2>2 DEF Types, objects
  <2>5. WorkInv'
    BY <2>3 DEF WorkInv
  <2>6. \A v \in Workers, t \in Tasks : HasContext(v, t) => HasContext(v, t)'
    BY <2>1, <2>3, ContextKept
  <2> QED
    BY <1>1, <2>1, <2>4, <2>5, <2>6, WorkerQuiet
<1>3. CASE Publish(w)
  <2>0. PICK t \in Tasks : t = worker[w].task
    BY <1>3 DEF Publish, WorkInv
  <2>1. /\ life[t] = "live" /\ worker[w].pc = "publish"
        /\ handler' = [handler EXCEPT ![t] = w]
        /\ worker' = [worker EXCEPT ![w].pc = "send"]
        /\ UNCHANGED <<db, app, main, life, status, idle, queue>>
    BY <1>3, <2>0 DEF Publish
  <2>2. /\ worker' \in [Workers -> Record]
        /\ worker'[w].pc = "send" /\ worker'[w].task = t
        /\ \A v \in Workers \ {w} : worker'[v] = worker[v]
    BY <2>0, <2>1 DEF Types, Pcs
  <2>3. Types' /\ MainInv' /\ DownInv'
    BY <1>1, <2>1, <2>2 DEF Types, MainInv, DownInv
  <2>4. WorkInv'
    BY <2>1, <2>2 DEF WorkInv
  <2>5. \A v \in Workers, u \in Tasks : HasContext(v, u) => HasContext(v, u)'
    BY <2>0, <2>1, <2>2, ContextKept
  <2>6. HasContext(w, t)'
    BY <2>2 DEF HasContext
  <2>7. OwnInv'
    BY <2>1, <2>5, <2>6 DEF OwnInv, Types
  <2>8. RowFollowsTask'
    BY <2>1 DEF RowInv, RowFollowsTask
  <2>9. RowInv'
    BY <2>1, <2>8 DEF RowInv
  <2> QED
    BY <2>3, <2>4, <2>7, <2>9
<1>4. CASE Die(w)
  BY <1>4, GoneStep DEF Die
<1>5. CASE SendRequest(w)
  <2>1. /\ worker[w].pc = "send"
        /\ worker' = [worker EXCEPT ![w].pc = "transfer", ![w].running = TRUE]
        /\ UNCHANGED <<db, app, main, objects, idle, queue>>
    BY <1>5 DEF SendRequest
  <2>2. /\ worker' \in [Workers -> Record]
        /\ worker'[w].pc = "transfer" /\ worker'[w].task = worker[w].task
        /\ \A v \in Workers \ {w} : worker'[v] = worker[v]
    BY <2>1 DEF Types, Pcs
  <2>3. Types' /\ WorkInv'
    BY <2>1, <2>2 DEF Types, WorkInv, objects
  <2>4. \A v \in Workers, t \in Tasks : HasContext(v, t) => HasContext(v, t)'
    BY <2>2, ContextKept
  <2> QED
    BY <1>1, <2>1, <2>3, <2>4, WorkerQuiet
<1>6. CASE Finish(w)
  <2>1. PICK result \in Stored : Post(result, worker[w].task)
    BY <1>6 DEF Finish, Results, Stored, Resumable, COMPLETED
  <2>2. /\ worker[w].pc \in {"send", "transfer"}
        /\ worker' = [worker EXCEPT ![w].pc = "clear", ![w].running = FALSE]
        /\ UNCHANGED <<db, app, main, objects, queue>>
    BY <1>6 DEF Finish
  <2>3. /\ worker' \in [Workers -> Record]
        /\ worker'[w].pc = "clear" /\ worker'[w].task = worker[w].task
        /\ \A v \in Workers \ {w} : worker'[v] = worker[v]
    BY <2>2 DEF Types, Pcs
  <2>4. worker[w].task \in Tasks
    BY <2>2 DEF WorkInv
  <2> DEFINE call == [result |-> result, task |-> worker[w].task]
  <2>5. /\ idle' = Append(idle, call) /\ call \in Calls /\ call.result # "created"
        /\ call.task \in Tasks
    BY <2>1, <2>4, Names DEF Post, Calls, CallResults
  <2> HIDE DEF call
  <2>6. idle' \in Seq(Calls)
    BY <2>5 DEF Types
  <2>7. Types' /\ WorkInv'
    BY <2>2, <2>3, <2>6 DEF Types, WorkInv, objects
  <2>8. \A v \in Workers, t \in Tasks : HasContext(v, t) => HasContext(v, t)'
    BY <2>3, ContextKept
  <2> QED
    BY <1>1, <2>2, <2>5, <2>7, <2>8, WorkerQuiet
<1>7. CASE ClearHandler(w)
  <2>0. PICK t \in Tasks : t = worker[w].task
    BY <1>7 DEF ClearHandler, WorkInv
  <2>1. /\ worker[w].pc = "clear"
        /\ handler' = IF life[t] = "live" THEN [handler EXCEPT ![t] = NULL] ELSE handler
        /\ worker' = [worker EXCEPT ![w] = Rest]
        /\ UNCHANGED <<db, app, main, life, status, idle, queue>>
    BY <1>7, <2>0 DEF ClearHandler
  <2>2. handler'[t] = NULL /\ \A u \in Tasks \ {t} : handler'[u] = handler[u]
    BY <2>1 DEF OwnInv, Types
  <2>3. /\ worker' \in [Workers -> Record] /\ worker'[w] = Rest
        /\ \A v \in Workers \ {w} : worker'[v] = worker[v]
    BY <2>1 DEF Types, Pcs, Rest
  <2>4. \A u \in Tasks \ {t} : handler[u] # w
    BY <2>0, Names DEF OwnInv, HasContext, Types
  <2>5. Types' /\ MainInv' /\ DownInv'
    BY <1>1, <2>1, <2>3 DEF Types, MainInv, DownInv
  <2>6. WorkInv'
    BY <2>3 DEF WorkInv, Rest
  <2>7. OwnInv'
    BY <2>1, <2>2, <2>3, <2>4 DEF OwnInv, Types, HasContext
  <2>8. RowFollowsTask'
    BY <2>1 DEF RowInv, RowFollowsTask
  <2>9. RowInv'
    BY <2>1, <2>8 DEF RowInv
  <2> QED
    BY <2>5, <2>6, <2>7, <2>9
<1>8. CASE GetFileInfoFails(w)
  <2>1. /\ worker[w].pc = "info" /\ worker' = [worker EXCEPT ![w] = Rest]
        /\ Post("failed", NULL)
        /\ UNCHANGED <<db, app, main, objects, queue>>
    BY <1>8 DEF GetFileInfoFails
  <2>2. /\ worker' \in [Workers -> Record] /\ worker'[w] = Rest
        /\ \A v \in Workers \ {w} : worker'[v] = worker[v]
    BY <2>1 DEF Types, Pcs, Rest
  <2> DEFINE call == [result |-> "failed", task |-> NULL]
  <2>3. /\ idle' = Append(idle, call) /\ call \in Calls /\ call.result # "created"
        /\ call.result \notin Stored
    BY <2>1, Names DEF Post, Calls, CallResults
  <2> HIDE DEF call
  <2>4. Types'
    BY <2>1, <2>2, <2>3 DEF Types, objects
  <2>5. WorkInv'
    BY <2>2 DEF WorkInv, Rest
  <2>6. \A v \in Workers, t \in Tasks : HasContext(v, t) => HasContext(v, t)'
    BY <2>1, <2>2, ContextKept
  <2> QED
    BY <1>1, <2>1, <2>3, <2>4, <2>5, <2>6, WorkerQuiet
<1>9. ASSUME NEW t \in Tasks, InsertTaskInfo(w, t) PROVE IInv'
  <2>1. /\ worker[w].pc = "info" /\ worker' = [worker EXCEPT ![w] = Rest]
        /\ db[t] = "unused" /\ db' = [db EXCEPT ![t] = "Ready"]
        /\ UNCHANGED <<app, main, life, status, handler, queue>>
    BY <1>9 DEF InsertTaskInfo, objects
  <2>2. /\ worker' \in [Workers -> Record] /\ worker'[w] = Rest
        /\ \A v \in Workers \ {w} : worker'[v] = worker[v]
    BY <2>1 DEF Types, Pcs, Rest
  <2> DEFINE call == [result |-> "created", task |-> t]
  <2>3. /\ idle' = Append(idle, call) /\ call \in Calls
        /\ call.result = "created" /\ call.task = t
    BY <1>9, Names DEF InsertTaskInfo, Post, Calls, CallResults
  <2> HIDE DEF call
  <2>4. /\ Len(idle) \in Nat /\ Len(idle') = Len(idle) + 1
        /\ \A i \in 1..Len(idle) : idle'[i] = idle[i]
        /\ idle'[Len(idle) + 1] = call
        /\ idle' \in Seq(Calls)
    BY <2>3 DEF Types
  <2>5. Types'
    BY <2>1, <2>2, <2>4, Names DEF Types
  <2>6. WorkInv' /\ MainInv' /\ DownInv'
    BY <1>1, <2>1, <2>2 DEF WorkInv, MainInv, DownInv, Rest
  <2>7. \A v \in Workers, u \in Tasks : HasContext(v, u) => HasContext(v, u)'
    BY <2>1, <2>2, ContextKept
  <2>8. OwnInv'
    BY <2>1, <2>7, OwnKept
  <2>9. /\ life[t] = "none" /\ db'[t] = "Ready"
        /\ \A u \in Tasks \ {t} : db'[u] = db[u]
        /\ \A i \in 1..Len(idle) : idle[i].result = "created" => idle[i].task # t
    BY <2>1 DEF RowInv, Types
  <2>10. RowInv'
    <3>1. RowFollowsTask' /\ \A u \in Tasks : db'[u] = "unused" => life'[u] = "none"
      BY <2>1, <2>9 DEF RowInv, RowFollowsTask
    <3>2. \A i \in 1..Len(idle') : i \in 1..Len(idle) \/ i = Len(idle) + 1
      BY <2>4
    <3>3. \A i \in 1..Len(idle') : idle'[i].result = "created" =>
            /\ idle'[i].task \in Tasks
            /\ db'[idle'[i].task] = "Ready" /\ life'[idle'[i].task] = "none"
            /\ \A j \in 1..Len(idle') :
                 idle'[j].result = "created" /\ idle'[j].task = idle'[i].task => j = i
      <4> TAKE i \in 1..Len(idle')
      <4> HAVE idle'[i].result = "created"
      <4>1. CASE i \in 1..Len(idle)
        BY <4>1, <2>1, <2>3, <2>4, <2>9, <3>2 DEF RowInv
      <4>2. CASE i = Len(idle) + 1
        BY <4>2, <2>1, <2>3, <2>4, <2>9, <3>2
      <4> QED
        BY <4>1, <4>2, <3>2
    <3>4. \A i \in 1..Len(idle') : idle'[i].result \in Stored => idle'[i].task \in Tasks
      BY <2>3, <2>4, <3>2 DEF RowInv
    <3> QED
      BY <3>1, <3>3, <3>4 DEF RowInv
  <2> QED
    BY <2>5, <2>6, <2>8, <2>10
<1> QED
  BY <1>2, <1>3, <1>4, <1>5, <1>6, <1>7, <1>8, <1>9 DEF WorkerStep

LEMMA StepIInv == ASSUME IInv, [Next]_vars PROVE IInv'
<1>1. CASE Start
  BY <1>1, StartStep
<1>2. CASE Crash
  BY <1>2, GoneStep DEF Crash
<1>3. CASE UserStep
  BY <1>3, UserSteps
<1>4. CASE MainStep
  BY <1>4, MainSteps
<1>5. CASE IdleCallback
  BY <1>5, CallbackSteps
<1>6. CASE \E w \in Workers : WorkerStep(w)
  BY <1>6, WorkerSteps
<1>7. CASE UNCHANGED vars
  BY <1>7, Unseen DEF vars
<1> QED
  BY <1>1, <1>2, <1>3, <1>4, <1>5, <1>6, <1>7 DEF Next

LEMMA DownloadInvariant == Spec => []IInv
BY InitIInv, StepIInv, PTL DEF Spec

(* CancelRequest never finds a handler that is not the context of that     *)
(* task's own transfer: http_manager resets the field before it frees the  *)
(* context, and an object that is freed takes its field along.             *)
THEOREM HandlerNeverDangles == Spec => []HandlerIsOwn
<1>1. IInv => HandlerIsOwn
  BY DEF IInv, OwnInv, HandlerIsOwn
<1> QED
  BY <1>1, DownloadInvariant, PTL

(* Whatever the order of resumes, removals, callbacks and restarts, the    *)
(* row in the database is the one of its object.                           *)
THEOREM RowsFollowTasks == Spec => []RowFollowsTask
<1>1. IInv => RowFollowsTask
  BY DEF IInv, RowInv
<1> QED
  BY <1>1, DownloadInvariant, PTL

(* What IInv does not need: the process, the dialog, the main thread and   *)
(* the counter.                                                            *)
MainThreads == [at : {"loop", "resume", "cancel", "store"},
                task : Tasks \cup {NULL}, ctx : Workers \cup {NULL}]
SideTypes ==
  /\ app \in {"down", "up", "closing", "waiting", "exiting"}
  /\ dialog \in {"closed", "open", "busy"}
  /\ main \in MainThreads
  /\ size \in Int
  /\ stuck \subseteq Tasks

LEMMA NoProcessTyped == ASSUME NoProcess PROVE SideTypes'
BY DEF NoProcess, SideTypes, MainThreads, AtLoop

LEMMA MainTyped ==
  /\ AtLoop \in MainThreads
  /\ \A p \in {"loop", "resume", "cancel", "store"}, t \in Tasks : At(p, t) \in MainThreads
BY DEF AtLoop, At, MainThreads

\* What becomes of a task's object may move the main thread and the counter.
LEMMA UpdateTyped ==
  ASSUME SideTypes, NEW t, NEW s, UpdateDownloadTaskWithStatus(t, s)
  PROVE  size' \in Int
<1>1. CASE Finished(t, s)
  BY <1>1 DEF Finished, SideTypes
<1>2. CASE Changed(t, s)
  BY <1>2 DEF Changed, SideTypes
<1>3. CASE UNCHANGED <<db, objects>>
  BY <1>3 DEF SideTypes, objects
<1> QED
  BY <1>1, <1>2, <1>3 DEF UpdateDownloadTaskWithStatus

LEMMA CancelTyped ==
  ASSUME SideTypes, NEW t \in Tasks, CancelDownloadingAndDestroyTask(t)
  PROVE  size' \in Int /\ main' \in MainThreads
BY MainTyped DEF CancelDownloadingAndDestroyTask, SideTypes

LEMMA UserTyped == ASSUME SideTypes, UserStep PROVE SideTypes'
<1>1. CASE \E t \in Tasks : ResumeSelectedTask(t) \/ PauseSelectedTask(t)
  BY <1>1, MainTyped DEF SideTypes, ResumeSelectedTask, PauseSelectedTask, objects
<1>2. ASSUME NEW t \in Tasks, RemoveSelectedTask(t) PROVE SideTypes'
  BY <1>2, CancelTyped DEF SideTypes, RemoveSelectedTask
<1>3. CASE OpenNewTaskDialog \/ OnConfirmCreateTask \/ OnDialogDestroyed \/ CloseWindow
  BY <1>3 DEF SideTypes, OpenNewTaskDialog, OnConfirmCreateTask, OnDialogDestroyed,
              CloseWindow, AtEase, objects
<1> QED
  BY <1>1, <1>2, <1>3 DEF UserStep

LEMMA MainStepTyped == ASSUME IInv, SideTypes, MainStep PROVE SideTypes'
<1>1. CASE MarkDownloading
  BY <1>1, UpdateTyped, MainTyped DEF MarkDownloading, SideTypes
<1>2. CASE ReadHandler
  <2>1. main.task \in Tasks
    BY <1>2 DEF ReadHandler, IInv, MainInv
  <2>2. CASE handler[main.task] = NULL
    BY <1>2, <2>2, MainTyped DEF ReadHandler, SideTypes, objects
  <2>3. CASE handler[main.task] # NULL
    <3>1. handler[main.task] \in Workers
      BY <2>1, <2>3 DEF IInv, Types
    <3>2. main' = [at |-> "store", task |-> main.task, ctx |-> handler[main.task]]
      BY <1>2, <2>3 DEF ReadHandler
    <3>3. main' \in MainThreads
      BY <2>1, <3>1, <3>2 DEF MainThreads
    <3> QED
      BY <1>2, <3>3 DEF ReadHandler, SideTypes, objects
  <2> QED
    BY <2>2, <2>3
<1>3. CASE CancelRequest
  BY <1>3, MainTyped DEF CancelRequest, SideTypes, objects
<1>4. CASE AllClosed \/ GtkMainQuit
  BY <1>4 DEF AllClosed, GtkMainQuit, SideTypes, objects
<1>5. CASE Exit
  BY <1>5, NoProcessTyped DEF Exit
<1>6. ASSUME NEW t \in Tasks, CloseTask(t) PROVE SideTypes'
  BY <1>6, CancelTyped DEF CloseTask, SideTypes
<1> QED
  BY <1>1, <1>2, <1>3, <1>4, <1>5, <1>6 DEF MainStep

LEMMA CallbackTyped == ASSUME SideTypes, IdleCallback PROVE SideTypes'
<1>1. dialog' \in {"closed", "open", "busy"}
  BY DEF IdleCallback, OnTaskCreatedSuccessfully, SideTypes
<1>2. size' \in Int
  <2>1. CASE OnTaskCreatedSuccessfully(Head(idle).task)
    BY <2>1 DEF OnTaskCreatedSuccessfully, SideTypes, objects
  <2>2. CASE UNCHANGED <<db, objects>>
    BY <2>2 DEF SideTypes, objects
  <2>3. CASE UpdateDownloadTaskWithStatus(Head(idle).task, Head(idle).result)
    BY <2>3, UpdateTyped
  <2> QED
    BY <2>1, <2>2, <2>3 DEF IdleCallback, OnDownloadDone
<1> QED
  BY <1>1, <1>2 DEF IdleCallback, SideTypes

LEMMA WorkerTyped == ASSUME SideTypes, NEW w \in Workers, WorkerStep(w) PROVE SideTypes'
<1>1. CASE Die(w)
  BY <1>1, NoProcessTyped DEF Die
<1>2. CASE ~Die(w)
  BY <1>2 DEF WorkerStep, Take, Publish, SendRequest, Finish, ClearHandler, GetFileInfoFails,
              InsertTaskInfo, SideTypes, objects
<1> QED
  BY <1>1, <1>2

LEMMA SideStep == ASSUME IInv, SideTypes, [Next]_vars PROVE SideTypes'
<1>1. CASE Start
  BY <1>1 DEF Start, SideTypes
<1>2. CASE Crash
  BY <1>2, NoProcessTyped DEF Crash
<1>3. CASE UNCHANGED vars
  BY <1>3 DEF vars, objects, SideTypes
<1> QED
  BY <1>1, <1>2, <1>3, UserTyped, MainStepTyped, CallbackTyped, WorkerTyped DEF Next

(* Every object, request, callback and row keeps its range, whatever is    *)
(* done through pointers to objects that are gone.                         *)
THEOREM TasksTyped == Spec => []TypeOK
<1>1. Init => SideTypes
  BY DEF Init, SideTypes, MainThreads, AtLoop
<1>2. IInv /\ SideTypes => TypeOK
  BY DEF IInv, Types, SideTypes, MainThreads, TypeOK, Calls, CallResults, Pcs
<1> QED
  BY <1>1, <1>2, SideStep, DownloadInvariant, PTL DEF Spec
-----------------------------------------------------------------------------
(* One request per task, the counter and a clean exit.                     *)

\* Where a request for t can be, place by place.
Queued(t)   == \E i \in 1..Len(queue) : queue[i] = t
Works(w, t) == worker[w].task = t /\ worker[w].pc \in {"publish", "send", "transfer"}
Worked(t)   == \E w \in Workers : Works(w, t)
Answers(i, t) == idle[i].task = t /\ idle[i].result \in Stored
Answered(t) == \E i \in 1..Len(idle) : Answers(i, t)
UnderWay(t) == Queued(t) \/ Worked(t) \/ Answered(t)

\* At most one of them.
Lone(t) ==
  /\ \A i, j \in 1..Len(queue) : queue[i] = t /\ queue[j] = t => i = j
  /\ \A w, v \in Workers : Works(w, t) /\ Works(v, t) => w = v
  /\ \A i, j \in 1..Len(idle) : Answers(i, t) /\ Answers(j, t) => i = j
  /\ Queued(t) => ~Worked(t) /\ ~Answered(t)
  /\ ~(Worked(t) /\ Answered(t))

\* The tasks downloading_task_size counts; the one about to be counted.
Active(t)   == life[t] = "live" /\ t \notin stuck /\ status[t] \in {DOWNLOADING, REMOVING}
Resuming(t) == main.at = "resume" /\ main.task = t
Actives     == {t \in Tasks : Active(t)}

RequestInv ==
  \A t \in Tasks :
    Lone(t) /\ (life[t] # "torn" => (UnderWay(t) <=> Active(t) \/ Resuming(t)))

\* A row that said DOWNLOADING at the start keeps saying so until it is deleted, while the
\* program is in use an object that waits for its last callback has no row any more, and
\* no callback says DOWNLOADING.
ObjectInv ==
  /\ \A t \in stuck : db[t] \in {DOWNLOADING, "deleted"}
  /\ app = "up" => \A t \in Tasks : life[t] = "live" /\ status[t] = REMOVING => db[t] = "deleted"
  /\ \A i \in 1..Len(idle) : idle[i].result # DOWNLOADING
  /\ main.at = "resume" => main.ctx = NULL

CountInv == size = Cardinality(Actives) + Cardinality(Torn)

\* Who answers for a row that says DOWNLOADING, and what an ending program has left.
EndInv ==
  /\ app # "down" => \A t \in Tasks : db[t] = DOWNLOADING => t \in stuck \cup Torn \cup Actives
  /\ app = "down" => size = 0
  /\ app = "exiting" => size = 0 /\ main.at = "loop"

CountsInv == RequestInv /\ ObjectInv /\ CountInv /\ EndInv
-----------------------------------------------------------------------------
\* What the steps do to the places of requests: as many as before for t.
Kept(t) == (Lone(t) => Lone(t)') /\ (UnderWay(t)' <=> UnderWay(t))

LEMMA RequestsSame ==
  ASSUME UNCHANGED <<queue, idle>>, NEW t, \A w \in Workers : Works(w, t)' <=> Works(w, t)
  PROVE  Kept(t)
BY DEF Kept, Lone, UnderWay, Queued, Worked, Answered, Answers

\* ThreadPoolExecute.
LEMMA RequestQueued ==
  ASSUME Types, NEW r, ThreadPoolExecute(r), r \in Tasks \cup {Info}, UNCHANGED <<idle, worker>>, NEW t
  PROVE  /\ t # r => Kept(t)
         /\ t = r /\ Lone(t) /\ ~UnderWay(t) => Lone(t)' /\ UnderWay(t)'
<1>1. /\ Len(queue) \in Nat /\ Len(queue') = Len(queue) + 1
      /\ \A i \in 1..Len(queue) : queue'[i] = queue[i]
      /\ queue'[Len(queue) + 1] = r
  BY DEF Types, ThreadPoolExecute
<1>2. \A i \in 1..Len(queue') : i \in 1..Len(queue) \/ i = Len(queue) + 1
  BY <1>1
<1>3. \A i \in 1..Len(queue) : i \in 1..Len(queue')
  BY <1>1
<1>4. Len(queue) + 1 \in 1..Len(queue')
  BY <1>1
<1>5. (\A w \in Workers : Works(w, t)' <=> Works(w, t)) /\ (\A i : Answers(i, t)' <=> Answers(i, t))
  BY DEF Works, Answers
<1>6. (Worked(t)' <=> Worked(t)) /\ (Answered(t)' <=> Answered(t))
  BY <1>5 DEF Worked, Answered
<1>7. ASSUME t # r PROVE Kept(t)
  <2>1. Queued(t)' <=> Queued(t)
    BY <1>1, <1>2, <1>3, <1>7 DEF Queued
  <2>2. Lone(t) => \A i, j \in 1..Len(queue') : queue'[i] = t /\ queue'[j] = t => i = j
    BY <1>1, <1>2, <1>7 DEF Lone
  <2> QED
    BY <1>5, <1>6, <2>1, <2>2 DEF Kept, Lone, UnderWay
<1>8. ASSUME t = r, Lone(t), ~UnderWay(t) PROVE Lone(t)' /\ UnderWay(t)'
  <2>1. \A i \in 1..Len(queue') : queue'[i] = t => i = Len(queue) + 1
    BY <1>1, <1>2, <1>8 DEF UnderWay, Queued
  <2>2. Queued(t)'
    BY <1>1, <1>4, <1>8 DEF Queued
  <2> QED
    BY <1>5, <1>6, <1>8, <2>1, <2>2 DEF Lone, UnderWay
<1> QED
  BY <1>7, <1>8

\* A worker takes the request at the head.
LEMMA RequestTaken ==
  ASSUME IInv, NEW w \in Workers, Take(w), NEW t \in Tasks, Lone(t)
  PROVE  Kept(t)
<1>1. /\ queue # << >> /\ queue' = Tail(queue) /\ idle' = idle /\ worker[w].pc = "wait"
      /\ worker' = [worker EXCEPT ![w].pc = IF Head(queue) = Info THEN "info" ELSE "publish",
                                  ![w].task = Head(queue)]
  BY DEF Take
<1>2. /\ Len(queue) \in Nat \ {0} /\ Head(queue) = queue[1] /\ Len(queue') = Len(queue) - 1
      /\ \A i \in 1..Len(queue') : queue'[i] = queue[i + 1] /\ i + 1 \in 1..Len(queue)
      /\ \A i \in 2..Len(queue) : i - 1 \in 1..Len(queue') /\ queue'[i - 1] = queue[i]
  BY <1>1 DEF IInv, Types
<1>3. /\ worker'[w].pc = IF Head(queue) = Info THEN "info" ELSE "publish"
      /\ worker'[w].task = Head(queue)
      /\ \A v \in Workers \ {w} : worker'[v] = worker[v]
  BY <1>1 DEF IInv, Types
<1>4. /\ ~Works(w, t) /\ (Works(w, t)' <=> queue[1] = t)
      /\ \A v \in Workers \ {w} : Works(v, t)' <=> Works(v, t)
  <2>1. ~Works(w, t) /\ \A v \in Workers \ {w} : Works(v, t)' <=> Works(v, t)
    BY <1>1, <1>3 DEF Works
  <2>2. worker'[w].task = queue[1]
    BY <1>2, <1>3, Zenon
  <2>3. queue[1] = t => worker'[w].pc = "publish"
    <3>1. t # Info
      BY Names
    <3>2. Head(queue) = queue[1]
      BY <1>2
    <3> QED
      BY <3>1, <3>2, <1>3
  <2> QED
    BY <2>1, <2>2, <2>3 DEF Works
<1>5. /\ Answered(t)' <=> Answered(t)
      /\ Lone(t)' <=> /\ \A i, j \in 1..Len(queue') : queue'[i] = t /\ queue'[j] = t => i = j
                      /\ \A v, u \in Workers : Works(v, t)' /\ Works(u, t)' => v = u
                      /\ Queued(t)' => ~Worked(t)' /\ ~Answered(t)'
                      /\ ~(Worked(t)' /\ Answered(t)')
  BY <1>1 DEF Answered, Answers, Lone
<1>6. \A i, j \in 1..Len(queue') : queue'[i] = t /\ queue'[j] = t => i = j
  <2> SUFFICES ASSUME NEW i \in 1..Len(queue'), NEW j \in 1..Len(queue'),
                      queue'[i] = t, queue'[j] = t
               PROVE  i = j
    OBVIOUS
  <2>1. i + 1 = j + 1
    BY <1>2 DEF Lone
  <2> QED
    BY <2>1, <1>2
<1>7. CASE queue[1] = t
  <2>1. Queued(t)
    BY <1>2, <1>7 DEF Queued
  <2>2. ~Queued(t)'
    <3> SUFFICES ASSUME NEW i \in 1..Len(queue'), queue'[i] = t PROVE FALSE
      BY DEF Queued
    <3>1. i + 1 = 1
      BY <1>2, <1>7 DEF Lone
    <3> QED
      BY <3>1, <1>2
  <2>3. ~Worked(t) /\ ~Answered(t)
    BY <2>1 DEF Lone
  <2>4. \A v \in Workers : Works(v, t)' => v = w
    BY <1>4, <2>3 DEF Worked
  <2>5. Worked(t)'
    BY <1>4, <1>7 DEF Worked
  <2>6. Lone(t)'
    BY <1>5, <1>6, <2>2, <2>3, <2>4
  <2>7. UnderWay(t) /\ UnderWay(t)'
    BY <2>1, <2>5 DEF UnderWay
  <2> QED
    BY <2>6, <2>7 DEF Kept
<1>8. CASE queue[1] # t
  <2>1. Queued(t)' <=> Queued(t)
    <3>1. ASSUME NEW i \in 1..Len(queue), queue[i] = t PROVE Queued(t)'
      <4>1. i \in 2..Len(queue)
        BY <1>2, <1>8, <3>1
      <4> QED
        BY <1>2, <3>1, <4>1 DEF Queued
    <3>2. Queued(t)' => Queued(t)
      BY <1>2 DEF Queued
    <3> QED
      BY <3>1, <3>2 DEF Queued
  <2>2. \A v \in Workers : Works(v, t)' <=> Works(v, t)
    BY <1>4, <1>8
  <2>3. Worked(t)' <=> Worked(t)
    BY <2>2 DEF Worked
  <2>4. Lone(t)'
    BY <1>5, <1>6, <2>1, <2>2, <2>3 DEF Lone
  <2>5. UnderWay(t)' <=> UnderWay(t)
    BY <1>5, <2>1, <2>3 DEF UnderWay
  <2> QED
    BY <2>4, <2>5 DEF Kept
<1> QED
  BY <1>7, <1>8

\* A worker posts what became of its request; other calls are none of it.
LEMMA RequestPosted ==
  ASSUME IInv, NEW w \in Workers, NEW call, idle' = Append(idle, call), queue' = queue,
         \A v \in Workers \ {w} : worker'[v] = worker[v],
         \A t \in Tasks : ~Works(w, t)',
         \A t \in Tasks : Works(w, t) <=> call.task = t /\ call.result \in Stored,
         NEW t \in Tasks, Lone(t)
  PROVE  Kept(t)
<1>0. PICK n \in Nat : n = Len(idle) + 1
  BY DEF IInv, Types
<1>1. /\ Len(idle) \in Nat /\ Len(idle') = n
      /\ \A i \in 1..Len(idle) : idle'[i] = idle[i]
      /\ idle'[n] = call
  BY <1>0 DEF IInv, Types
<1>2. /\ \A i \in 1..Len(idle') : i \in 1..Len(idle) \/ i = n
      /\ \A i \in 1..Len(idle) : i \in 1..Len(idle')
      /\ n \in 1..Len(idle')
  BY <1>0, <1>1
<1>3. /\ \A i \in 1..Len(idle) : Answers(i, t)' <=> Answers(i, t)
      /\ Answers(n, t)' <=> Works(w, t)
  <2>1. \A i \in 1..Len(idle) : Answers(i, t)' <=> Answers(i, t)
    BY <1>1 DEF Answers
  <2>2. Answers(n, t)' <=> call.task = t /\ call.result \in Stored
    BY <1>1 DEF Answers
  <2> QED
    BY <2>1, <2>2
<1>4. Queued(t)' <=> Queued(t)
  BY DEF Queued
<1>5. \A v \in Workers \ {w} : Works(v, t)' <=> Works(v, t)
  BY DEF Works
<1>6. CASE Works(w, t)
  <2>1. Worked(t) /\ ~Queued(t) /\ ~Answered(t)
    BY <1>6 DEF Worked, Lone
  <2>2. ~Worked(t)'
    BY <1>5, <1>6 DEF Worked, Lone
  <2>3. Answered(t)' /\ \A i \in 1..Len(idle') : Answers(i, t)' => i = n
    BY <1>2, <1>3, <1>6, <2>1 DEF Answered
  <2> QED
    BY <1>4, <2>1, <2>2, <2>3 DEF Kept, Lone, UnderWay, Queued, Worked
<1>7. CASE ~Works(w, t)
  <2>1. \A v \in Workers : Works(v, t)' <=> Works(v, t)
    BY <1>5, <1>7
  <2>2. Answered(t)' <=> Answered(t)
    BY <1>2, <1>3, <1>7 DEF Answered
  <2>3. \A i, j \in 1..Len(idle') : Answers(i, t)' /\ Answers(j, t)' => i = j
    BY <1>2, <1>3, <1>7 DEF Lone
  <2>4. Worked(t)' <=> Worked(t)
    BY <2>1 DEF Worked
  <2> QED
    BY <1>4, <2>1, <2>2, <2>3, <2>4 DEF Kept, Lone, UnderWay
<1> QED
  BY <1>6, <1>7

\* The main loop runs the callback at the head.
LEMMA RequestAnswered ==
  ASSUME IInv, idle # << >>, idle' = Tail(idle), UNCHANGED <<queue, worker>>,
         NEW t \in Tasks, Lone(t)
  PROVE  /\ Lone(t)'
         /\ Answers(1, t) => UnderWay(t) /\ ~UnderWay(t)'
         /\ ~Answers(1, t) => (UnderWay(t)' <=> UnderWay(t))
<1>1. /\ Len(idle) \in Nat \ {0} /\ Len(idle') = Len(idle) - 1
      /\ \A i \in 1..Len(idle') : idle'[i] = idle[i + 1] /\ i + 1 \in 1..Len(idle)
      /\ \A i \in 2..Len(idle) : i - 1 \in 1..Len(idle') /\ idle'[i - 1] = idle[i]
  BY DEF IInv, Types
<1>2. /\ \A i : Answers(i, t)' <=> idle'[i].task = t /\ idle'[i].result \in Stored
      /\ \A i : Answers(i, t) <=> idle[i].task = t /\ idle[i].result \in Stored
  BY DEF Answers
<1>3. /\ \A i \in 1..Len(idle') : Answers(i, t)' <=> Answers(i + 1, t)
      /\ \A i \in 2..Len(idle) : Answers(i, t) <=> Answers(i - 1, t)'
  BY <1>1, <1>2
<1>4. \A i, j \in 1..Len(idle') : Answers(i, t)' /\ Answers(j, t)' => i = j
  <2> SUFFICES ASSUME NEW i \in 1..Len(idle'), NEW j \in 1..Len(idle'),
                      Answers(i, t)', Answers(j, t)'
               PROVE  i = j
    OBVIOUS
  <2>1. i + 1 = j + 1
    BY <1>1, <1>3 DEF Lone
  <2> QED
    BY <2>1, <1>1
<1>5. (\A w \in Workers : Works(w, t)' <=> Works(w, t)) /\ (Queued(t)' <=> Queued(t))
  BY DEF Works, Queued
<1>6. Worked(t)' <=> Worked(t)
  BY <1>5 DEF Worked
<1>7. CASE Answers(1, t)
  <2>1. Answered(t) /\ ~Queued(t) /\ ~Worked(t)
    BY <1>1, <1>7 DEF Answered, Lone
  <2>2. ~Answered(t)'
    <3> SUFFICES ASSUME NEW i \in 1..Len(idle'), Answers(i, t)' PROVE FALSE
      BY DEF Answered
    <3>1. i + 1 = 1
      BY <1>1, <1>3, <1>7 DEF Lone
    <3> QED
      BY <3>1, <1>1
  <2> QED
    BY <1>4, <1>5, <1>6, <1>7, <2>1, <2>2 DEF Lone, UnderWay, Queued
<1>8. CASE ~Answers(1, t)
  <2>1. Answered(t)' => Answered(t)
    BY <1>1, <1>3 DEF Answered
  <2>2. ASSUME NEW i \in 1..Len(idle), Answers(i, t) PROVE Answered(t)'
    <3>1. i \in 2..Len(idle)
      BY <1>1, <1>8, <2>2
    <3> QED
      BY <1>1, <1>3, <2>2, <3>1 DEF Answered
  <2>3. Answered(t)' <=> Answered(t)
    BY <2>1, <2>2 DEF Answered
  <2> QED
    BY <1>4, <1>5, <1>6, <1>8, <2>3 DEF Lone, UnderWay, Queued
<1> QED
  BY <1>7, <1>8
-----------------------------------------------------------------------------
\* What one task more or less does to the counter.
Count(b) == IF b THEN 1 ELSE 0

LEMMA CardinalityOfOne ==
  ASSUME NEW S \in SUBSET Tasks, NEW T \in SUBSET Tasks, NEW t \in Tasks,
         \A u \in Tasks \ {t} : u \in T <=> u \in S
  PROVE  /\ Cardinality(S) \in Nat /\ Cardinality(T) \in Nat
         /\ Cardinality(T) = Cardinality(S) + Count(t \in T) - Count(t \in S)
<1>1. IsFiniteSet(S) /\ IsFiniteSet(T)
  BY DownloadAssumption, FS_Subset
<1>2. Cardinality(S) \in Nat /\ Cardinality(T) \in Nat
  BY <1>1, FS_CardinalityType
<1>3. CASE t \in S <=> t \in T
  <2>1. S = T
    BY <1>3
  <2> QED
    BY <1>2, <1>3, <2>1 DEF Count
<1>4. CASE t \in T /\ t \notin S
  <2>1. T = S \cup {t}
    BY <1>4
  <2> QED
    BY <1>1, <1>2, <1>4, <2>1, FS_AddElement DEF Count
<1>5. CASE t \in S /\ t \notin T
  <2>1. T = S \ {t}
    BY <1>5
  <2> QED
    BY <1>1, <1>2, <1>5, <2>1, FS_RemoveElement DEF Count
<1> QED
  BY <1>3, <1>4, <1>5

LEMMA CountKept ==
  ASSUME CountInv, NEW t \in Tasks,
         \A u \in Tasks \ {t} : /\ Active(u)' <=> Active(u)
                                /\ life'[u] = "torn" <=> life[u] = "torn",
         size' = size + Count(Active(t)') - Count(Active(t))
                      + Count(life'[t] = "torn") - Count(life[t] = "torn")
  PROVE  CountInv'
<1> PICK A0 \in SUBSET Tasks : A0 = Actives
  BY DEF Actives
<1> PICK A1 \in SUBSET Tasks : A1 = Actives'
  BY DEF Actives
<1> PICK T0 \in SUBSET Tasks : T0 = Torn
  BY DEF Torn
<1> PICK T1 \in SUBSET Tasks : T1 = Torn'
  BY DEF Torn
<1>1. \A u \in Tasks : /\ u \in A0 <=> Active(u)
                       /\ u \in A1 <=> Active(u)'
                       /\ u \in T0 <=> life[u] = "torn"
                       /\ u \in T1 <=> life'[u] = "torn"
  BY DEF Actives, Torn
<1>2. /\ Cardinality(A0) \in Nat /\ Cardinality(A1) \in Nat
      /\ Cardinality(A1) = Cardinality(A0) + Count(t \in A1) - Count(t \in A0)
  BY <1>1, CardinalityOfOne
<1>3. /\ Cardinality(T0) \in Nat /\ Cardinality(T1) \in Nat
      /\ Cardinality(T1) = Cardinality(T0) + Count(t \in T1) - Count(t \in T0)
  BY <1>1, CardinalityOfOne
<1>4. size' = size + Count(t \in A1) - Count(t \in A0) + Count(t \in T1) - Count(t \in T0)
  BY <1>1 DEF Count
<1>5. /\ Count(t \in A1) \in Int /\ Count(t \in A0) \in Int
      /\ Count(t \in T1) \in Int /\ Count(t \in T0) \in Int
  BY DEF Count
<1>6. size = Cardinality(A0) + Cardinality(T0)
  BY DEF CountInv
<1>7. size' = Cardinality(A1) + Cardinality(T1)
  BY <1>2, <1>3, <1>4, <1>5, <1>6
<1> QED
  BY <1>7 DEF CountInv

\* The counter is zero only when no task is counted.
LEMMA CountZero ==
  ASSUME CountInv, size = 0
  PROVE  Actives = {} /\ Torn = {}
<1>1. IsFiniteSet(Actives) /\ IsFiniteSet(Torn)
  BY DownloadAssumption, FS_Subset DEF Actives, Torn
<1>2. Cardinality(Actives) \in Nat /\ Cardinality(Torn) \in Nat
  BY <1>1, FS_CardinalityType
<1>3. Cardinality(Actives) = 0 /\ Cardinality(Torn) = 0
  BY <1>2 DEF CountInv
<1> QED
  BY <1>1, <1>3, FS_EmptySet

\* A step that changes the life, status and row of no task but t.
LEMMA OneTask ==
  ASSUME IInv, SideTypes, CountsInv, NEW t \in Tasks, UNCHANGED <<app, stuck>>, app # "down", app # "exiting",
         \A u \in Tasks \ {t} :
           /\ Kept(u) /\ (Resuming(u)' <=> Resuming(u))
           /\ life'[u] = life[u] /\ status'[u] = status[u] /\ db'[u] = db[u],
         Lone(t)',
         life'[t] # "torn" => (UnderWay(t)' <=> Active(t)' \/ Resuming(t)'),
         t \in stuck => db'[t] \in {DOWNLOADING, "deleted"},
         app = "up" /\ life'[t] = "live" /\ status'[t] = REMOVING => db'[t] = "deleted",
         db'[t] = DOWNLOADING => t \in stuck \/ life'[t] = "torn" \/ Active(t)',
         idle' = idle \/ (idle # << >> /\ idle' = Tail(idle)),
         main'.at = "resume" => main'.ctx = NULL,
         size' = size + Count(Active(t)') - Count(Active(t))
                      + Count(life'[t] = "torn") - Count(life[t] = "torn")
  PROVE  CountsInv'
<1>1. \A u \in Tasks \ {t} : Active(u)' <=> Active(u)
  BY DEF Active
<1>2. RequestInv'
  BY <1>1 DEF CountsInv, RequestInv, Kept
<1>3. ObjectInv'
  <2>1. \A i \in 1..Len(idle') : idle'[i].result # DOWNLOADING
    <3>1. CASE idle' = idle
      BY <3>1 DEF CountsInv, ObjectInv
    <3>2. CASE idle # << >> /\ idle' = Tail(idle)
      <4>1. \A i \in 1..Len(idle') : idle'[i] = idle[i + 1] /\ i + 1 \in 1..Len(idle)
        BY <3>2 DEF IInv, Types
      <4> QED
        BY <4>1 DEF CountsInv, ObjectInv
    <3> QED
      BY <3>1, <3>2
  <2>2. \A u \in stuck' : db'[u] \in {DOWNLOADING, "deleted"}
    <3> SUFFICES ASSUME NEW u \in stuck PROVE db'[u] \in {DOWNLOADING, "deleted"}
      OBVIOUS
    <3>1. db[u] \in {DOWNLOADING, "deleted"}
      BY DEF CountsInv, ObjectInv
    <3>2. u = t \/ u \in Tasks \ {t}
      BY DEF SideTypes
    <3> QED
      BY <3>1, <3>2
  <2>3. app' = "up" => \A u \in Tasks : life'[u] = "live" /\ status'[u] = REMOVING => db'[u] = "deleted"
    <3> SUFFICES ASSUME app = "up", NEW u \in Tasks, life'[u] = "live", status'[u] = REMOVING
                 PROVE  db'[u] = "deleted"
      OBVIOUS
    <3>1. life[u] = "live" /\ status[u] = REMOVING => db[u] = "deleted"
      BY DEF CountsInv, ObjectInv
    <3> QED
      BY <3>1
  <2> QED
    BY <2>1, <2>2, <2>3 DEF ObjectInv
<1>4. CountInv'
  BY <1>1, CountKept DEF CountsInv
<1>5. EndInv'
  <2>1. \A u \in Tasks : u \in Actives' <=> Active(u)'
    BY DEF Actives
  <2>2. \A u \in Tasks : u \in Torn' <=> life'[u] = "torn"
    BY DEF Torn
  <2>3. \A u \in Tasks \ {t} : db[u] = DOWNLOADING => u \in stuck \/ life[u] = "torn" \/ Active(u)
    BY DEF CountsInv, EndInv, Actives, Torn
  <2> QED
    BY <1>1, <2>1, <2>2, <2>3 DEF EndInv
<1> QED
  BY <1>2, <1>3, <1>4, <1>5 DEF CountsInv

\* A step that changes no life and no status.
LEMMA NoTask ==
  ASSUME IInv, SideTypes, CountsInv, UNCHANGED <<life, status, stuck, size>>,
         \A t \in Tasks : Kept(t) /\ (Resuming(t)' <=> Resuming(t)),
         \A t \in Tasks : db'[t] = db[t] \/ (db[t] = "unused" /\ db'[t] = "Ready"),
         \A i \in 1..Len(idle') : idle'[i].result # DOWNLOADING,
         main'.at = "resume" => main'.ctx = NULL,
         app = "exiting" => main'.at = "loop",
         \/ app' = app
         \/ app \in {"up", "closing"} /\ app' \in {"closing", "waiting"}
  PROVE  CountsInv'
<1>1. \A t \in Tasks : Active(t)' <=> Active(t)
  BY DEF Active
<1>2. Actives' = Actives /\ Torn' = Torn
  BY <1>1 DEF Actives, Torn
<1>3. RequestInv'
  BY <1>1 DEF CountsInv, RequestInv, Kept
<1>4. ObjectInv'
  <2>1. \A u \in stuck' : db'[u] \in {DOWNLOADING, "deleted"}
    BY DEF CountsInv, ObjectInv, SideTypes, DOWNLOADING
  <2>2. app' = "up" => \A u \in Tasks : life'[u] = "live" /\ status'[u] = REMOVING => db'[u] = "deleted"
    BY DEF CountsInv, ObjectInv
  <2> QED
    BY <2>1, <2>2 DEF ObjectInv
<1>5. CountInv'
  BY <1>2 DEF CountsInv, CountInv
<1>6. EndInv'
  BY <1>2, Names DEF CountsInv, EndInv, DOWNLOADING
<1> QED
  BY <1>3, <1>4, <1>5, <1>6 DEF CountsInv

\* No request, no object and no counter: a process that is down, or just comes up.
Empty ==
  /\ queue = << >> /\ idle = << >> /\ worker = [w \in Workers |-> Rest] /\ main = AtLoop
  /\ size = 0 /\ \A t \in Tasks : ~Active(t) /\ life[t] # "torn"
Quits == RequestInv /\ CountInv /\ main.at = "loop"

LEMMA Nothing == Empty => Quits
<1> SUFFICES ASSUME Empty PROVE Quits
  OBVIOUS
<1> USE DEF Empty
<1>1. \A t \in Tasks : ~Resuming(t)
  BY DEF Resuming, AtLoop
<1>2. \A t \in Tasks : ~Queued(t) /\ ~Worked(t) /\ ~Answered(t) /\ Lone(t)
  <2>1. Len(queue) = 0 /\ Len(idle) = 0 /\ 1..0 = {}
    OBVIOUS
  <2>2. \A w \in Workers, t \in Tasks : ~Works(w, t)
    BY DEF Works, Rest
  <2> QED
    BY <2>1, <2>2 DEF Queued, Worked, Answered, Lone
<1>3. Actives = {} /\ Torn = {}
  BY DEF Actives, Torn
<1>4. RequestInv
  BY <1>1, <1>2 DEF RequestInv, UnderWay
<1>5. CountInv
  BY <1>3, FS_EmptySet DEF CountInv
<1> QED
  BY <1>4, <1>5 DEF AtLoop, Quits

LEMMA NothingNext == Empty' => Quits'
BY Nothing, PTL

LEMMA CountsGone == ASSUME NoProcess PROVE CountsInv'
<1>1. (\A t \in Tasks : ~Active(t) /\ life[t] # "torn")'
  BY DEF NoProcess, Active
<1>2. Quits'
  BY <1>1, NothingNext DEF NoProcess, Empty
<1>3. ObjectInv' /\ EndInv'
  BY <1>2 DEF NoProcess, ObjectInv, EndInv, Quits, AtLoop
<1> QED
  BY <1>2, <1>3 DEF CountsInv, Quits

LEMMA CountsInit == Init => CountsInv
<1> SUFFICES ASSUME Init PROVE CountsInv
  OBVIOUS
<1>1. \A t \in Tasks : ~Active(t) /\ life[t] # "torn"
  BY DEF Init, Active
<1>2. Quits
  BY <1>1, Nothing DEF Init, Empty
<1>3. ObjectInv /\ EndInv
  BY <1>2 DEF Init, ObjectInv, EndInv, AtLoop
<1> QED
  BY <1>2, <1>3 DEF CountsInv, Quits

LEMMA CountsStart == ASSUME IInv, CountsInv, Start PROVE CountsInv'
<1>1. /\ queue' = << >> /\ idle' = << >> /\ worker' = [w \in Workers |-> Rest]
      /\ main' = AtLoop /\ size' = 0 /\ app' = "up" /\ db' = db
      /\ stuck' = {t \in Tasks : db[t] = DOWNLOADING}
  BY DEF Start, IInv, DownInv, CountsInv, EndInv
<1>2. \A t \in Tasks : life'[t] = "live" => status'[t] = db[t] /\ db[t] \in Stored
  BY DEF Start
<1>3. \A t \in Tasks : life'[t] # "torn" /\ (life'[t] = "live" => status'[t] # REMOVING)
  BY <1>2, Names DEF Start
<1>4. (\A t \in Tasks : ~Active(t) /\ life[t] # "torn")'
  BY <1>1, <1>2, <1>3 DEF Active
<1>5. Quits'
  BY <1>1, <1>4, NothingNext DEF Empty
<1>6. ObjectInv' /\ EndInv'
  BY <1>1, <1>3, <1>5 DEF ObjectInv, EndInv, AtLoop
<1> QED
  BY <1>5, <1>6 DEF CountsInv, Quits

\* An object without a request, as the main thread finds it between two handlers.
LEMMA AtRest ==
  ASSUME IInv, CountsInv, NEW t \in Tasks, life[t] = "live", main.at = "loop"
  PROVE  /\ UnderWay(t) <=> Active(t)
         /\ t \in stuck => status[t] \in {DOWNLOADING, REMOVING}
         /\ \A u \in Tasks : ~Resuming(u)
         /\ Lone(t)
<1>1. \A u \in Tasks : ~Resuming(u)
  BY DEF Resuming
<1>2. Lone(t) /\ (UnderWay(t) <=> Active(t))
  BY <1>1 DEF CountsInv, RequestInv
<1>3. t \in stuck => status[t] \in {DOWNLOADING, REMOVING}
  BY Names DEF CountsInv, ObjectInv, IInv, RowInv, RowFollowsTask, Types
<1> QED
  BY <1>1, <1>2, <1>3

\* Removing a task, or closing it at the end of the program.
LEMMA CountsCancel ==
  ASSUME IInv, SideTypes, CountsInv, NEW t \in Tasks, life[t] = "live", main.at = "loop",
         CancelDownloadingAndDestroyTask(t),
         UNCHANGED <<app, idle, queue, worker, stuck>>,
         \/ app = "up" /\ db[t] # "deleted" /\ db' = [db EXCEPT ![t] = "deleted"]
         \/ app = "closing" /\ status[t] # REMOVING /\ db' = db
  PROVE  CountsInv'
<1>1. status[t] # REMOVING
  BY DEF CountsInv, ObjectInv
<1>2. /\ UnderWay(t) <=> Active(t)
      /\ t \in stuck => status[t] = DOWNLOADING
      /\ \A u \in Tasks : ~Resuming(u)
      /\ Lone(t)
  BY <1>1, AtRest
<1>3. \A u \in Tasks : Kept(u)
  BY RequestsSame DEF Works
<1>4. Lone(t)' /\ (UnderWay(t)' <=> Active(t))
  BY <1>2, <1>3 DEF Kept
<1>5. /\ \A u \in Tasks \ {t} : db'[u] = db[u]
      /\ t \in stuck => db'[t] \in {DOWNLOADING, "deleted"}
      /\ app = "up" => db'[t] = "deleted"
      /\ db'[t] = DOWNLOADING => status[t] = DOWNLOADING
  <2>1. db[t] = status[t]
    BY <1>1 DEF IInv, RowInv, RowFollowsTask
  <2>2. t \in stuck => db[t] \in {DOWNLOADING, "deleted"}
    BY DEF CountsInv, ObjectInv
  <2>3. CASE db' = [db EXCEPT ![t] = "deleted"]
    BY <2>1, <2>2, <2>3 DEF IInv, Types, DOWNLOADING
  <2>4. CASE app = "closing" /\ db' = db
    BY <2>1, <2>2, <2>4
  <2> QED
    BY <2>3, <2>4
<1>6. CASE Cancellable(t)
  <2>1. /\ status[t] = DOWNLOADING /\ status' = [status EXCEPT ![t] = REMOVING]
        /\ main' = At("cancel", t) /\ UNCHANGED <<life, size>>
    BY <1>6 DEF CancelDownloadingAndDestroyTask, Cancellable
  <2>2. /\ status'[t] = REMOVING /\ \A u \in Tasks \ {t} : status'[u] = status[u]
        /\ \A u \in Tasks : ~Resuming(u)'
        /\ main'.at # "resume"
    BY <2>1 DEF IInv, Types, Resuming, At
  <2>3. Active(t)' <=> Active(t)
    BY <2>1, <2>2 DEF Active
  <2>4. t \in stuck \/ Active(t)'
    BY <2>1, <2>2 DEF Active
  <2>5. size' = size + Count(Active(t)') - Count(Active(t))
                     + Count(life'[t] = "torn") - Count(life[t] = "torn")
    BY <2>1, <2>3 DEF Count, SideTypes
  <2> QED
    BY <1>2, <1>3, <1>4, <1>5, <2>1, <2>2, <2>3, <2>4, <2>5, OneTask
<1>7. CASE ~Cancellable(t)
  <2>1. PICK as \in {"none", "torn"} :
          /\ as = IF status[t] = DOWNLOADING /\ t \notin stuck THEN "torn" ELSE "none"
          /\ DestroyDownloadTask(t, as) /\ UNCHANGED <<main, size>>
    BY <1>7 DEF CancelDownloadingAndDestroyTask
  <2>2. as = "torn" <=> Active(t)
    BY <1>1, <2>1 DEF Active
  <2>3. /\ life'[t] = as
        /\ \A u \in Tasks \ {t} : life'[u] = life[u] /\ status'[u] = status[u]
        /\ ~Active(t)'
    BY <2>1 DEF DestroyDownloadTask, IInv, Types, Active
  <2>4. \A u \in Tasks : ~Resuming(u)'
    BY <2>1 DEF Resuming
  <2>5. size' = size + Count(Active(t)') - Count(Active(t))
                     + Count(life'[t] = "torn") - Count(life[t] = "torn")
    BY <2>1, <2>2, <2>3 DEF Count, SideTypes
  <2>6. db'[t] = DOWNLOADING => t \in stuck \/ life'[t] = "torn"
    BY <1>5, <2>1, <2>3
  <2>7. life'[t] # "torn" => ~UnderWay(t)'
    BY <1>4, <2>2, <2>3
  <2> QED
    BY <1>2, <1>3, <1>4, <1>5, <2>1, <2>3, <2>4, <2>5, <2>6, <2>7, OneTask
<1> QED
  BY <1>6, <1>7

LEMMA CountsUser == ASSUME IInv, SideTypes, CountsInv, UserStep PROVE CountsInv'
<1>1. ASSUME NEW t \in Tasks, ResumeSelectedTask(t) PROVE CountsInv'
  <2>1. /\ app = "up" /\ main.at = "loop" /\ life[t] = "live" /\ status[t] \in Resumable
        /\ main' = At("resume", t) /\ ThreadPoolExecute(t)
        /\ UNCHANGED <<db, app, life, status, size, idle, worker, stuck>>
    BY <1>1 DEF ResumeSelectedTask, AtEase, Listed, objects
  <2>2. ~Active(t) /\ ~Active(t)' /\ t \notin stuck
    BY <2>1, Names, AtRest DEF Active, DOWNLOADING, REMOVING, Stored
  <2>3. Lone(t) /\ ~UnderWay(t) /\ \A u \in Tasks : ~Resuming(u)
    BY <2>1, <2>2, AtRest
  <2>4. /\ Lone(t)' /\ UnderWay(t)'
        /\ \A u \in Tasks \ {t} : Kept(u)
    BY <2>1, <2>3, RequestQueued DEF IInv
  <2>5. Resuming(t)' /\ \A u \in Tasks \ {t} : ~Resuming(u)'
    BY <2>1 DEF Resuming, At
  <2>6. main'.ctx = NULL
    BY <2>1 DEF At
  <2>7. size' = size + Count(Active(t)') - Count(Active(t))
                     + Count(life'[t] = "torn") - Count(life[t] = "torn")
    BY <2>1, <2>2 DEF Count, SideTypes
  <2>8. db'[t] # DOWNLOADING /\ status'[t] # REMOVING
    BY <2>1, Names DEF IInv, RowInv, RowFollowsTask
  <2> QED
    BY <2>1, <2>2, <2>3, <2>4, <2>5, <2>6, <2>7, <2>8, OneTask
<1>2. CASE \E t \in Tasks : PauseSelectedTask(t)
  <2>1. /\ app = "up" /\ main.at = "loop" /\ main'.at = "cancel"
        /\ UNCHANGED <<db, app, life, status, size, idle, queue, worker, stuck>>
    BY <1>2 DEF PauseSelectedTask, AtEase, At, objects
  <2>2. \A t \in Tasks : Kept(t) /\ ~Resuming(t) /\ ~Resuming(t)'
    BY <2>1, RequestsSame DEF Works, Resuming
  <2> QED
    BY <2>1, <2>2, NoTask DEF CountsInv, ObjectInv
<1>3. ASSUME NEW t \in Tasks, RemoveSelectedTask(t) PROVE CountsInv'
  BY <1>3, CountsCancel DEF RemoveSelectedTask, AtEase, Listed
<1>4. CASE OpenNewTaskDialog \/ OnDialogDestroyed \/ CloseWindow
  <2>1. /\ UNCHANGED <<db, main, life, status, size, idle, queue, worker, stuck>>
        /\ app = "up" /\ app' \in {"up", "closing"}
    BY <1>4 DEF OpenNewTaskDialog, OnDialogDestroyed, CloseWindow, AtEase, objects
  <2>2. \A t \in Tasks : Kept(t) /\ (Resuming(t)' <=> Resuming(t))
    BY <2>1, RequestsSame DEF Works, Resuming
  <2> QED
    BY <2>1, <2>2, NoTask DEF CountsInv, ObjectInv
<1>5. CASE OnConfirmCreateTask
  <2>1. /\ UNCHANGED <<db, app, main, life, status, size, idle, worker, stuck>>
        /\ ThreadPoolExecute(Info) /\ app = "up"
    BY <1>5 DEF OnConfirmCreateTask, objects
  <2>2. \A t \in Tasks : Kept(t)
    BY <2>1, Names, RequestQueued DEF IInv
  <2>3. \A t \in Tasks : Resuming(t)' <=> Resuming(t)
    BY <2>1 DEF Resuming
  <2> QED
    BY <2>1, <2>2, <2>3, NoTask DEF CountsInv, ObjectInv
<1> QED
  BY <1>1, <1>2, <1>3, <1>4, <1>5 DEF UserStep

LEMMA CountsMain == ASSUME IInv, SideTypes, CountsInv, MainStep PROVE CountsInv'
<1>1. CASE MarkDownloading
  <2>1. PICK t \in Tasks : t = main.task
    BY <1>1 DEF MarkDownloading, IInv, MainInv
  <2>2. /\ main.at = "resume" /\ main' = AtLoop /\ life[t] = "live" /\ status[t] \in Resumable
        /\ UNCHANGED <<app, idle, queue, worker, stuck>>
        /\ UpdateDownloadTaskWithStatus(t, DOWNLOADING)
    BY <1>1, <2>1 DEF MarkDownloading, IInv, MainInv
  <2>3. Changed(t, DOWNLOADING)
    BY <2>2, Names DEF UpdateDownloadTaskWithStatus, Finished
  <2>4. /\ size' = size + 1 /\ life' = life
        /\ status' = [status EXCEPT ![t] = DOWNLOADING]
        /\ db' = [db EXCEPT ![t] = DOWNLOADING]
    BY <2>2, <2>3, Names DEF Changed, SideTypes
  <2>5. /\ status'[t] = DOWNLOADING /\ db'[t] = DOWNLOADING
        /\ \A u \in Tasks \ {t} : status'[u] = status[u] /\ db'[u] = db[u]
    BY <2>4 DEF IInv, Types
  <2>6. app # "down" /\ app # "exiting"
    BY <2>2 DEF IInv, DownInv, AtLoop, CountsInv, EndInv
  <2>7. t \notin stuck
    <3>1. db[t] \in Resumable
      BY <2>2, Names DEF IInv, RowInv, RowFollowsTask
    <3> QED
      BY <3>1, Names DEF CountsInv, ObjectInv
  <2>8. Active(t)' /\ ~Active(t)
    BY <2>2, <2>4, <2>5, <2>7, Names DEF Active
  <2>9. \A u \in Tasks : Kept(u) /\ ~Resuming(u)'
    BY <2>2, RequestsSame DEF Works, Resuming, AtLoop
  <2>10. Resuming(t) /\ \A u \in Tasks \ {t} : ~Resuming(u)
    BY <2>1, <2>2 DEF Resuming
  <2>11. Lone(t)' /\ UnderWay(t)'
    BY <2>2, <2>9, <2>10 DEF CountsInv, RequestInv, Kept
  <2>12. size' = size + Count(Active(t)') - Count(Active(t))
                      + Count(life'[t] = "torn") - Count(life[t] = "torn")
    BY <2>4, <2>8 DEF Count, SideTypes
  <2>13. main'.at # "resume" /\ status'[t] # REMOVING
    BY <2>2, <2>5, Names DEF AtLoop
  <2> QED
    BY <2>2, <2>4, <2>5, <2>6, <2>7, <2>8, <2>9, <2>10, <2>11, <2>12, <2>13, OneTask
<1>2. CASE ReadHandler \/ CancelRequest \/ AllClosed
  <2>1. /\ UNCHANGED <<db, life, status, size, idle, queue, stuck>>
        /\ main.at # "resume" /\ main'.at # "resume"
        /\ \/ app' = app
           \/ app = "closing" /\ app' = "waiting"
    <3>1. CASE ReadHandler
      BY <3>1 DEF ReadHandler, objects, AtLoop
    <3>2. CASE CancelRequest
      BY <3>2 DEF CancelRequest, objects, AtLoop
    <3>3. CASE AllClosed
      BY <3>3 DEF AllClosed, objects
    <3> QED
      BY <1>2, <3>1, <3>2, <3>3
  <2>2. app # "exiting"
    BY <1>2 DEF ReadHandler, CancelRequest, AllClosed, CountsInv, EndInv
  <2>3. \A w \in Workers : worker'[w].pc = worker[w].pc /\ worker'[w].task = worker[w].task
    <3>1. \/ worker' = worker
          \/ \E w \in Workers, b \in BOOLEAN : Stop(w, b)
      BY <1>2 DEF ReadHandler, CancelRequest, AllClosed, IInv, MainInv, Types
    <3>2. ASSUME NEW w \in Workers, NEW b \in BOOLEAN, Stop(w, b)
          PROVE  \A v \in Workers : worker'[v].pc = worker[v].pc /\ worker'[v].task = worker[v].task
      BY <3>2 DEF Stop, IInv, Types
    <3> QED
      BY <3>1, <3>2
  <2>4. \A t \in Tasks : Kept(t) /\ ~Resuming(t) /\ ~Resuming(t)'
    BY <2>1, <2>3, RequestsSame DEF Works, Resuming
  <2> QED
    BY <2>1, <2>2, <2>4, NoTask DEF CountsInv, ObjectInv
<1>3. CASE GtkMainQuit
  <2>1. /\ main.at = "loop" /\ size = 0 /\ app' = "exiting" /\ queue' = << >>
        /\ UNCHANGED <<db, main, life, status, size, idle, worker, stuck>>
        /\ app = "waiting"
    BY <1>3 DEF GtkMainQuit, NothingDownloads, objects
  <2>2. Actives = {} /\ Torn = {}
    BY <2>1, CountZero DEF CountsInv
  <2>3. \A t \in Tasks : ~Active(t) /\ life[t] # "torn" /\ ~Resuming(t)
    BY <2>1, <2>2 DEF Actives, Torn, Resuming
  <2>4. \A t \in Tasks : Lone(t) /\ ~UnderWay(t)
    BY <2>3 DEF CountsInv, RequestInv
  <2>5. \A t \in Tasks : Kept(t)
    <3> TAKE t \in Tasks
    <3>1. ~Queued(t)'
      BY <2>1 DEF Queued
    <3>2. /\ \A w \in Workers : Works(w, t)' <=> Works(w, t)
          /\ \A i \in 1..Len(idle') : Answers(i, t)' <=> Answers(i, t)
          /\ ~Worked(t) /\ ~Answered(t)
      BY <2>1, <2>4 DEF Works, Answers, UnderWay
    <3>3. ~Worked(t)' /\ ~Answered(t)'
      BY <2>1, <3>2 DEF Worked, Answered
    <3>4. Lone(t)'
      BY <2>1, <2>4, <3>1, <3>2, <3>3 DEF Lone, Queued
    <3> QED
      BY <2>4, <3>1, <3>3, <3>4 DEF Kept, UnderWay
  <2>6. \A t \in Tasks : Active(t)' <=> Active(t)
    BY <2>1 DEF Active
  <2>7. Actives' = Actives /\ Torn' = Torn
    BY <2>1, <2>6 DEF Actives, Torn
  <2>8. \A t \in Tasks : Resuming(t)' <=> Resuming(t)
    BY <2>1 DEF Resuming
  <2>9. RequestInv'
    BY <2>1, <2>5, <2>6, <2>8 DEF CountsInv, RequestInv, Kept
  <2>10. ObjectInv'
    BY <2>1 DEF CountsInv, ObjectInv
  <2>11. CountInv' /\ EndInv'
    BY <2>1, <2>7 DEF CountsInv, CountInv, EndInv
  <2> QED
    BY <2>9, <2>10, <2>11 DEF CountsInv
<1>4. CASE Exit
  BY <1>4, CountsGone DEF Exit
<1>5. ASSUME NEW t \in Tasks, CloseTask(t) PROVE CountsInv'
  BY <1>5, CountsCancel DEF CloseTask, Listed
<1> QED
  BY <1>1, <1>2, <1>3, <1>4, <1>5 DEF MainStep

LEMMA CountsCallback == ASSUME IInv, SideTypes, CountsInv, IdleCallback PROVE CountsInv'
<1>1. PICK call : call = Head(idle)
  OBVIOUS
<1>2. /\ app \in {"up", "waiting"} /\ main.at = "loop" /\ idle # << >> /\ idle' = Tail(idle)
      /\ UNCHANGED <<app, main, queue, worker, stuck>>
      /\ \/ call.result = "created" /\ OnTaskCreatedSuccessfully(call.task) /\ dialog # "closed"
         \/ UNCHANGED <<db, objects>> /\ (call.result = "failed" \/ (call.result = "created" /\ dialog = "closed"))
         \/ call.result \in Stored /\ OnDownloadDone(call.task, call.result)
  BY <1>1 DEF IdleCallback, OnTaskCreatedSuccessfully
<1>3. /\ call = idle[1] /\ 1 \in 1..Len(idle) /\ call.result # DOWNLOADING
      /\ \A i \in 1..Len(idle') : idle'[i] = idle[i + 1] /\ i + 1 \in 1..Len(idle)
  BY <1>1, <1>2 DEF IInv, Types, CountsInv, ObjectInv
<1>4. \A t \in Tasks : ~Resuming(t) /\ ~Resuming(t)'
  BY <1>2 DEF Resuming
<1>5. \A t \in Tasks :
        /\ Lone(t) /\ Lone(t)'
        /\ Answers(1, t) <=> call.task = t /\ call.result \in Stored
        /\ Answers(1, t) => UnderWay(t) /\ ~UnderWay(t)'
        /\ ~Answers(1, t) => (UnderWay(t)' <=> UnderWay(t))
  <2> TAKE t \in Tasks
  <2>1. Lone(t)
    BY DEF CountsInv, RequestInv
  <2>2. Answers(1, t) <=> call.task = t /\ call.result \in Stored
    BY <1>3 DEF Answers
  <2> QED
    BY <1>2, <2>1, <2>2, RequestAnswered
<1>6. main.at = "resume" => main.ctx = NULL
  BY <1>2
<1>7. CASE call.result = "created" /\ OnTaskCreatedSuccessfully(call.task) /\ dialog # "closed"
  <2>1. PICK t \in Tasks : t = call.task
    BY <1>3, <1>7 DEF IInv, RowInv
  <2>2. db[t] = "Ready" /\ life[t] = "none"
    BY <1>3, <1>7, <2>1 DEF IInv, RowInv
  <2>3. /\ UNCHANGED <<db, size>> /\ life'[t] = "live" /\ status'[t] = "Ready"
        /\ \A u \in Tasks \ {t} : life'[u] = life[u] /\ status'[u] = status[u]
    BY <1>7, <2>1 DEF OnTaskCreatedSuccessfully, IInv, Types
  <2>4. \A u \in Tasks : ~Answers(1, u)
    BY <1>5, <1>7, Names
  <2>5. \A u \in Tasks : Kept(u)
    BY <1>5, <2>4 DEF Kept
  <2>6. ~Active(t) /\ ~Active(t)'
    BY <2>2, <2>3 DEF Active, DOWNLOADING, REMOVING
  <2>7. ~UnderWay(t) /\ ~UnderWay(t)'
    BY <1>4, <2>2, <2>5, <2>6 DEF CountsInv, RequestInv, Kept
  <2>8. t \notin stuck /\ db'[t] # DOWNLOADING /\ status'[t] # REMOVING
    BY <2>2, <2>3 DEF CountsInv, ObjectInv, DOWNLOADING, REMOVING
  <2>9. size' = size + Count(Active(t)') - Count(Active(t))
                     + Count(life'[t] = "torn") - Count(life[t] = "torn")
    BY <2>2, <2>3, <2>6 DEF Count, SideTypes
  <2> QED
    BY <1>2, <1>4, <1>5, <2>3, <2>5, <2>6, <2>7, <2>8, <2>9, OneTask
<1>8. CASE UNCHANGED <<db, objects>> /\ call.result \in {"failed", "created"}
  <2>1. \A u \in Tasks : Kept(u)
    BY <1>5, <1>8, Names DEF Kept
  <2>2. \A i \in 1..Len(idle') : idle'[i].result # DOWNLOADING
    BY <1>3 DEF CountsInv, ObjectInv
  <2>3. UNCHANGED <<life, status, size>>
    BY <1>8 DEF objects
  <2> QED
    BY <1>2, <1>4, <1>8, <2>1, <2>2, <2>3, NoTask
<1>9. CASE call.result \in Stored /\ OnDownloadDone(call.task, call.result)
  <2>1. PICK t \in Tasks : t = call.task
    BY <1>3, <1>9 DEF IInv, RowInv
  <2>2. PICK s \in Stored \ {DOWNLOADING} : s = call.result
    BY <1>3, <1>9
  <2>3. /\ UnderWay(t) /\ ~UnderWay(t)' /\ Lone(t)'
        /\ \A u \in Tasks \ {t} : Kept(u)
    BY <1>5, <1>9, <2>1 DEF Kept
  <2>4. life[t] # "torn" => Active(t)
    BY <1>4, <2>3 DEF CountsInv, RequestInv
  <2>5. CASE life[t] # "live"
    <3>1. UNCHANGED <<db, life, status, size>>
      BY <1>9, <2>1, <2>5 DEF OnDownloadDone, objects
    <3>2. life[t] = "torn"
      BY <2>4, <2>5 DEF Active
    <3>3. ~Active(t) /\ ~Active(t)'
      BY <3>1, <3>2 DEF Active
    <3>4. size' = size + Count(Active(t)') - Count(Active(t))
                       + Count(life'[t] = "torn") - Count(life[t] = "torn")
      BY <3>1, <3>2, <3>3 DEF Count, SideTypes
    <3>5. t \in stuck => db[t] \in {DOWNLOADING, "deleted"}
      BY DEF CountsInv, ObjectInv
    <3> QED
      BY <1>2, <1>4, <2>3, <3>1, <3>2, <3>4, <3>5, OneTask
  <2>6. CASE life[t] = "live"
    <3>1. Active(t) /\ UpdateDownloadTaskWithStatus(t, s)
      BY <1>9, <2>1, <2>2, <2>4, <2>6 DEF OnDownloadDone
    <3>2. t \notin stuck /\ status[t] \in {DOWNLOADING, REMOVING} /\ s \notin {DOWNLOADING, REMOVING}
      BY <2>2, <3>1, Names DEF Active
    <3>3. Finished(t, s) \/ Changed(t, s)
      BY <3>1, <3>2 DEF UpdateDownloadTaskWithStatus
    <3>4. CASE Finished(t, s)
      <4>1. /\ life'[t] = "none" /\ size' = size - 1
            /\ \A u \in Tasks \ {t} :
                 life'[u] = life[u] /\ status'[u] = status[u] /\ db'[u] = db[u]
            /\ db'[t] # DOWNLOADING
        BY <3>2, <3>4, Names DEF Finished, DestroyDownloadTask, IInv, Types, DOWNLOADING
      <4>2. ~Active(t)'
        BY <4>1 DEF Active
      <4>3. size' = size + Count(Active(t)') - Count(Active(t))
                         + Count(life'[t] = "torn") - Count(life[t] = "torn")
        BY <2>6, <3>1, <4>1, <4>2 DEF Count, SideTypes
      <4> QED
        BY <1>2, <1>4, <2>3, <3>2, <4>1, <4>2, <4>3, OneTask
    <3>5. CASE Changed(t, s)
      <4>1. /\ life' = life /\ status'[t] = s /\ db'[t] = s
            /\ \A u \in Tasks \ {t} : status'[u] = status[u] /\ db'[u] = db[u]
            /\ size' = size - 1
        BY <3>2, <3>5 DEF Changed, IInv, Types, SideTypes
      <4>2. ~Active(t)'
        BY <3>2, <4>1 DEF Active
      <4>3. size' = size + Count(Active(t)') - Count(Active(t))
                         + Count(life'[t] = "torn") - Count(life[t] = "torn")
        BY <2>6, <3>1, <4>1, <4>2 DEF Count, SideTypes
      <4> QED
        BY <1>2, <1>4, <2>3, <2>6, <3>2, <4>1, <4>2, <4>3, OneTask
    <3> QED
      BY <3>3, <3>4, <3>5
  <2> QED
    BY <2>5, <2>6
<1> QED
  BY <1>2, <1>7, <1>8, <1>9

\* A worker that only moves on with what it has.
LEMMA CountsWorkerMoves ==
  ASSUME IInv, SideTypes, CountsInv, NEW w \in Workers,
         UNCHANGED <<db, app, main, life, status, size, idle, queue, stuck>>,
         \A v \in Workers \ {w} : worker'[v] = worker[v],
         \A t \in Tasks : Works(w, t)' <=> Works(w, t)
  PROVE  CountsInv'
<1>1. \A t \in Tasks : Kept(t) /\ (Resuming(t)' <=> Resuming(t))
  BY RequestsSame DEF Works, Resuming
<1> QED
  BY <1>1, NoTask DEF CountsInv, ObjectInv, EndInv

\* A worker that posts a call.
LEMMA CountsWorkerPosts ==
  ASSUME IInv, SideTypes, CountsInv, NEW w \in Workers, NEW call,
         idle' = Append(idle, call), call.result # DOWNLOADING,
         UNCHANGED <<app, main, life, status, size, queue, stuck>>,
         \A t \in Tasks : db'[t] = db[t] \/ (db[t] = "unused" /\ db'[t] = "Ready"),
         \A v \in Workers \ {w} : worker'[v] = worker[v],
         \A t \in Tasks : ~Works(w, t)',
         \A t \in Tasks : Works(w, t) <=> call.task = t /\ call.result \in Stored
  PROVE  CountsInv'
<1>1. \A t \in Tasks : Lone(t)
  BY DEF CountsInv, RequestInv
<1>2. \A t \in Tasks : Kept(t) /\ (Resuming(t)' <=> Resuming(t))
  BY <1>1, RequestPosted DEF Resuming
<1>3. \A i \in 1..Len(idle') : idle'[i].result # DOWNLOADING
  <2>1. /\ Len(idle) \in Nat /\ Len(idle') = Len(idle) + 1
        /\ \A i \in 1..Len(idle) : idle'[i] = idle[i]
        /\ idle'[Len(idle) + 1] = call
    BY DEF IInv, Types
  <2>2. \A i \in 1..Len(idle') : i \in 1..Len(idle) \/ i = Len(idle) + 1
    BY <2>1
  <2> QED
    BY <2>1, <2>2 DEF CountsInv, ObjectInv
<1> QED
  BY <1>2, <1>3, NoTask DEF CountsInv, ObjectInv, EndInv

LEMMA CountsWorker ==
  ASSUME IInv, SideTypes, CountsInv, NEW w \in Workers, WorkerStep(w)
  PROVE  CountsInv'
<1> USE DEF objects
<1>1. CASE Take(w)
  <2>1. \A t \in Tasks : Lone(t)
    BY DEF CountsInv, RequestInv
  <2>2. \A t \in Tasks : Kept(t)
    BY <1>1, <2>1, RequestTaken
  <2>3. \A t \in Tasks : Resuming(t)' <=> Resuming(t)
    BY <1>1 DEF Take, Resuming
  <2>4. UNCHANGED <<db, app, main, life, status, size, idle, stuck>>
    BY <1>1 DEF Take
  <2> QED
    BY <2>2, <2>3, <2>4, NoTask DEF CountsInv, ObjectInv, EndInv
<1>2. CASE Publish(w) \/ SendRequest(w) \/ ClearHandler(w)
  <2>1. UNCHANGED <<db, app, main, life, status, size, idle, queue, stuck>>
    BY <1>2 DEF Publish, SendRequest, ClearHandler
  <2>2. /\ \A v \in Workers \ {w} : worker'[v] = worker[v]
        /\ \/ /\ worker[w].pc \in {"publish", "send"} /\ worker'[w].pc \in {"send", "transfer"}
              /\ worker'[w].task = worker[w].task
           \/ worker[w].pc = "clear" /\ worker'[w].pc = "wait"
    BY <1>2 DEF Publish, SendRequest, ClearHandler, Rest, IInv, Types
  <2>3. \A t \in Tasks : Works(w, t)' <=> Works(w, t)
    BY <2>2 DEF Works
  <2> QED
    BY <2>1, <2>2, <2>3, CountsWorkerMoves
<1>3. CASE Die(w)
  BY <1>3, CountsGone DEF Die
<1>4. CASE Finish(w)
  <2>1. PICK result \in Stored \ {DOWNLOADING} : Post(result, worker[w].task)
    BY <1>4, Names DEF Finish, Results, Stored, Resumable, COMPLETED, DOWNLOADING
  <2>2. PICK call : call = [result |-> result, task |-> worker[w].task]
    OBVIOUS
  <2>3. /\ idle' = Append(idle, call) /\ call.result # DOWNLOADING /\ call.result \in Stored
        /\ call.task = worker[w].task
    BY <2>1, <2>2 DEF Post
  <2>4. /\ worker[w].pc \in {"send", "transfer"} /\ worker'[w].pc = "clear"
        /\ \A v \in Workers \ {w} : worker'[v] = worker[v]
        /\ UNCHANGED <<db, app, main, life, status, size, queue, stuck>>
    BY <1>4 DEF Finish, IInv, Types
  <2>5. \A t \in Tasks : ~Works(w, t)' /\ (Works(w, t) <=> call.task = t /\ call.result \in Stored)
    BY <2>3, <2>4 DEF Works
  <2> QED
    BY <2>3, <2>4, <2>5, CountsWorkerPosts
<1>5. CASE GetFileInfoFails(w) \/ \E t \in Tasks : InsertTaskInfo(w, t)
  <2>1. PICK result \in {"created", "failed"}, t \in Tasks \cup {NULL} : Post(result, t)
    BY <1>5 DEF GetFileInfoFails, InsertTaskInfo
  <2>2. PICK call : call = [result |-> result, task |-> t]
    OBVIOUS
  <2>3. idle' = Append(idle, call) /\ call.result # DOWNLOADING /\ call.result \notin Stored
    BY <2>1, <2>2, Names DEF Post, DOWNLOADING
  <2>4. /\ worker[w].pc = "info" /\ worker'[w].pc = "wait"
        /\ \A v \in Workers \ {w} : worker'[v] = worker[v]
        /\ UNCHANGED <<app, main, life, status, size, queue, stuck>>
    BY <1>5 DEF GetFileInfoFails, InsertTaskInfo, Rest, IInv, Types
  <2>5. \A u \in Tasks : db'[u] = db[u] \/ (db[u] = "unused" /\ db'[u] = "Ready")
    BY <1>5 DEF GetFileInfoFails, InsertTaskInfo, IInv, Types
  <2>6. \A u \in Tasks : ~Works(w, u)' /\ ~Works(w, u)
    BY <2>4 DEF Works
  <2> QED
    BY <2>3, <2>4, <2>5, <2>6, CountsWorkerPosts
<1> QED
  BY <1>1, <1>2, <1>3, <1>4, <1>5 DEF WorkerStep

LEMMA CountsStep == ASSUME IInv, SideTypes, CountsInv, [Next]_vars PROVE CountsInv'
<1>1. CASE Crash
  BY <1>1, CountsGone DEF Crash
<1>2. CASE UNCHANGED vars
  <2>1. UNCHANGED <<db, app, main, life, status, size, idle, queue, worker, stuck>>
    BY <1>2 DEF vars, objects
  <2>2. \A t \in Tasks : Kept(t) /\ (Resuming(t)' <=> Resuming(t))
    BY <2>1, RequestsSame DEF Works, Resuming
  <2> QED
    BY <2>1, <2>2, NoTask DEF CountsInv, ObjectInv, EndInv
<1> QED
  BY <1>1, <1>2, CountsStart, CountsUser, CountsMain, CountsCallback, CountsWorker DEF Next

LEMMA CountsInvariant == Spec => [](IInv /\ SideTypes /\ CountsInv)
<1>1. Init => SideTypes
  BY DEF Init, SideTypes, MainThreads, AtLoop
<1> QED
  BY <1>1, CountsInit, SideStep, CountsStep, DownloadInvariant, PTL DEF Spec

\* The tasks as the properties name them.
LEMMA DownloadingIs ==
  ASSUME IInv, SideTypes, CountsInv, NEW t \in Tasks
  PROVE  /\ Downloading(t) <=> Active(t) \/ Resuming(t)
         /\ Downloading(t) /\ main # At("resume", t) <=> Active(t)
<1>1. ASSUME Resuming(t)
      PROVE  life[t] = "live" /\ status[t] \in Resumable /\ main = At("resume", t)
    BY <1>1 DEF Resuming, IInv, MainInv, CountsInv, ObjectInv, SideTypes, MainThreads, At
<1>2. Resuming(t) => t \notin stuck /\ status[t] \notin {DOWNLOADING, REMOVING}
  <2> SUFFICES ASSUME Resuming(t) PROVE t \notin stuck /\ status[t] \notin {DOWNLOADING, REMOVING}
    OBVIOUS
  <2>1. status[t] \in Stored /\ status[t] \notin {DOWNLOADING, REMOVING}
    BY <1>1, Names
  <2>2. db[t] = status[t]
    BY <1>1, <2>1 DEF IInv, RowInv, RowFollowsTask
  <2>3. db[t] \notin {DOWNLOADING, "deleted"}
    BY <2>1, <2>2, Names
  <2> QED
    BY <2>1, <2>3 DEF CountsInv, ObjectInv
<1>3. main = At("resume", t) => Resuming(t)
  BY DEF Resuming, At
<1> QED
  BY <1>1, <1>2, <1>3 DEF Downloading, Active, Resuming

\* The places of Requests are those of UnderWay.
LEMMA RequestsAre ==
  ASSUME NEW t \in Tasks, Lone(t)
  PROVE  /\ Cardinality(Requests(t)) <= 1
         /\ Requests(t) # {} <=> UnderWay(t)
<1>1. /\ \A r \in Requests(t) :
           \/ \E i \in 1..Len(queue) : queue[i] = t /\ r = <<"queue", i>>
           \/ \E w \in Workers : Works(w, t) /\ r = <<"worker", w>>
           \/ \E i \in 1..Len(idle) : Answers(i, t) /\ r = <<"idle", i>>
      /\ \A i \in 1..Len(queue) : queue[i] = t => <<"queue", i>> \in Requests(t)
      /\ \A w \in Workers : Works(w, t) => <<"worker", w>> \in Requests(t)
      /\ \A i \in 1..Len(idle) : Answers(i, t) => <<"idle", i>> \in Requests(t)
  BY DEF Requests, Works, Answers
<1>2. Requests(t) # {} <=> UnderWay(t)
  BY <1>1 DEF UnderWay, Queued, Worked, Answered
<1>3. \A a, b \in Requests(t) : a = b
  BY <1>1 DEF Lone, Queued, Worked, Answered
<1>4. CASE Requests(t) = {}
  BY <1>2, <1>4, FS_EmptySet
<1>5. ASSUME NEW r \in Requests(t) PROVE Cardinality(Requests(t)) <= 1
  <2>1. Requests(t) = {r}
    BY <1>3, <1>5
  <2>2. Cardinality(Requests(t)) = 1
    BY <2>1, FS_Singleton
  <2> QED
    BY <2>2
<1> QED
  BY <1>2, <1>4, <1>5

(* A task has one request under way while it downloads or is removed, and  *)
(* none otherwise, over all orders of resumes, removals, callbacks and     *)
(* restarts: no file is written by two transfers.                          *)
THEOREM OneTransferEach == Spec => []OneTransfer
<1>1. IInv /\ SideTypes /\ CountsInv => OneTransfer
  <2> SUFFICES ASSUME IInv, SideTypes, CountsInv, NEW t \in Tasks
               PROVE  /\ Cardinality(Requests(t)) <= 1
                      /\ life[t] # "torn" => (Requests(t) # {} <=> Downloading(t))
    BY DEF OneTransfer
  <2>1. Lone(t) /\ (life[t] # "torn" => (UnderWay(t) <=> Active(t) \/ Resuming(t)))
    BY DEF CountsInv, RequestInv
  <2> QED
    BY <2>1, RequestsAre, DownloadingIs
<1> QED
  BY <1>1, CountsInvariant, PTL

(* downloading_task_size is the number of tasks under way, on which the    *)
(* end of the program waits.                                               *)
THEOREM CounterCounts == Spec => []CounterBalanced
<1>1. IInv /\ SideTypes /\ CountsInv => CounterBalanced
  <2> SUFFICES ASSUME IInv, SideTypes, CountsInv PROVE CounterBalanced
    OBVIOUS
  <2>1. {t \in Tasks : Downloading(t) /\ main # At("resume", t)} = Actives
    BY DownloadingIs DEF Actives
  <2> QED
    BY <2>1 DEF CountsInv, CountInv, CounterBalanced
<1> QED
  BY <1>1, CountsInvariant, PTL

(* A program that ends by itself has waited for every download, so that no *)
(* row it leaves says DOWNLOADING if it did not at the start.              *)
THEOREM EndsClean == Spec => []CleanExit
<1>1. CountsInv => CleanExit
  <2> SUFFICES ASSUME CountsInv, app = "exiting", NEW t \in Tasks, db[t] = DOWNLOADING
               PROVE  t \in stuck
    BY DEF CleanExit
  <2>1. Actives = {} /\ Torn = {}
    BY CountZero DEF CountsInv, EndInv
  <2> QED
    BY <2>1 DEF CountsInv, EndInv
<1> QED
  BY <1>1, CountsInvariant, PTL

(***************************************************************************)
(* The file of one download.                                               *)
(***************************************************************************)
Bits     == 2^IntBits
Statuses == Resumable \cup {"none", DOWNLOADING, "Completed"}
Infos    == [status : Statuses, size : Int, progress : Int]
Endings  == {"none", "Paused", "Error", "Completed"}

Shape(A, B, C, D, E, F, G, H) ==
  [pc : A, start : B, code : C, total : D, now : E, opened : F, running : G, result : H]
Transfers ==
  Shape({"none", "send", "body", "done"}, Int, {0, 200, 206, 404}, Nat, Nat, BOOLEAN, BOOLEAN, Endings)

\* Apart from NoTask, a status is set.
DiskTypes ==
  /\ resource \in [length : Nat, ranges : BOOLEAN, known : BOOLEAN]
  /\ row \in Infos /\ (row.status = "none" => row = Disk!NoTask)
  /\ task \in Infos /\ (task.status = "none" => task = Disk!NoTask)
  /\ transfer \in Transfers

\* A transfer belongs to a task that is DOWNLOADING, and a task to a row that says the same.
PlaceInv ==
  /\ task.status # "none" => row.status = task.status
  /\ IF transfer.pc = "none" THEN transfer = Disk!Nothing ELSE task.status = DOWNLOADING
  /\ IF transfer.pc = "done" THEN transfer.result \in {"Paused", "Error", "Completed"}
                             ELSE transfer.result = "none"

\* What curl knows of the response.
Told(n) == IF resource.known THEN n ELSE 0
ResponseInv ==
  /\ transfer.opened <=> transfer.now > 0
  /\ transfer.pc = "send" => /\ transfer.code = 0
                             /\ transfer.start = IF resource.ranges THEN task.progress ELSE -1
  /\ transfer.code = 0 => transfer.now = 0 /\ transfer.pc # "body"
  /\ transfer.code = 200 => transfer.now <= resource.length /\ transfer.total = Told(resource.length)
  /\ transfer.code = 206 =>
       /\ resource.ranges /\ transfer.start \in 0..resource.length - 1
       /\ transfer.now <= resource.length - transfer.start
       /\ transfer.total = Told(resource.length - transfer.start)

\* What $d leaves of n, which fits into the bits of an int.
Folds(n) == {n, n - Bits}
Telling == (resource.known \/ ~resource.ranges) /\ resource.length < Bits
SizesInv ==
  Telling /\ resource.known =>
    /\ task.status # "none" => task.size \in Folds(resource.length)
    /\ row.status # "none" => row.size \in Folds(resource.length)

\* The file holds the units up to where the transfer is, and so does the progress; unless
\* the task was DOWNLOADING when its process died.
FileInv ==
  Telling /\ spoiled \subseteq {"short"} =>
    /\ Len(file) \in 0..resource.length /\ file = [n \in 1..Len(file) |-> n]
    /\ transfer.code = 206 => Len(file) = transfer.start + transfer.now
    /\ transfer.code = 200 /\ transfer.opened => Len(file) = transfer.now
    /\ transfer.code = 404 => transfer.now = 0
    /\ resource.ranges =>
         /\ task.status # DOWNLOADING \/ transfer.pc # "none" => task.status = "none" \/ task.progress \in Folds(Len(file))
         /\ row.status \notin {"none", DOWNLOADING} => row.progress \in Folds(Len(file))
    /\ row.status = "Completed" \/ transfer.result = "Completed" => Len(file) = resource.length \/ "short" \in spoiled

DiskInv == DiskTypes /\ PlaceInv /\ ResponseInv /\ SizesInv /\ FileInv

(* What the binding of $d leaves of a number that stands for n.            *)
LEMMA AsIntFolds ==
  ASSUME NEW n \in Nat, n < Bits, NEW x \in Folds(n)
  PROVE  Disk!AsInt(x) \in Folds(n)
<1>1. Bits \in Nat /\ Bits > 0
  BY DiskAssumption DEF Bits
<1>2. x % Bits = n
  <2>1. CASE x = n
    BY <1>1, <2>1
  <2>2. CASE x = n - Bits
    BY <1>1, <2>2
  <2> QED
    BY <2>1, <2>2 DEF Folds
<1>3. Disk!AsInt(x) = n \/ Disk!AsInt(x) = n - Bits
  BY <1>2 DEF Disk!AsInt, Bits
<1> QED
  BY <1>3 DEF Folds

LEMMA AsIntInt ==
  ASSUME NEW x \in Int
  PROVE  Disk!AsInt(x) \in Int
<1>1. Bits \in Nat /\ Bits > 0
  BY DiskAssumption DEF Bits
<1>2. x % Bits \in Int /\ (x % Bits) - Bits \in Int
  BY <1>1
<1> QED
  BY <1>2 DEF Disk!AsInt, Bits

LEMMA FoldsInt == \A n \in Int : Folds(n) \subseteq Int
BY DiskAssumption DEF Folds, Bits

LEMMA TransferFields ==
  \A x \in Transfers :
    /\ x.pc \in {"none", "send", "body", "done"} /\ x.start \in Int /\ x.code \in {0, 200, 206, 404}
    /\ x.total \in Nat /\ x.now \in Nat /\ x.opened \in BOOLEAN
BY DEF Transfers, Shape

LEMMA NothingFields ==
  /\ Disk!Nothing \in Transfers /\ Disk!Nothing.pc = "none" /\ Disk!Nothing.code = 0
  /\ Disk!Nothing.now = 0 /\ Disk!Nothing.opened = FALSE /\ Disk!Nothing.result = "none"
BY DEF Disk!Nothing, Transfers, Shape, Endings

LEMMA DiskStarts == Disk!Init => DiskInv
<1> SUFFICES ASSUME Disk!Init PROVE DiskInv
  OBVIOUS
<1>1. /\ resource \in [length : Nat, ranges : BOOLEAN, known : BOOLEAN]
      /\ row = Disk!NoTask /\ task = Disk!NoTask /\ transfer = Disk!Nothing /\ file = <<>>
  BY DiskAssumption DEF Disk!Init
<1>2. DiskTypes /\ PlaceInv /\ ResponseInv
  BY <1>1, NothingFields DEF DiskTypes, PlaceInv, ResponseInv, Disk!NoTask, Infos, Statuses, Resumable
<1>3. SizesInv
  BY <1>1 DEF SizesInv, Disk!NoTask
<1>4. FileInv
  BY <1>1, NothingFields DEF FileInv, Disk!NoTask
<1> QED
  BY <1>2, <1>3, <1>4 DEF DiskInv

LEMMA DiskUnchanged == DiskInv /\ UNCHANGED diskVars => DiskInv'
BY DEF diskVars, DiskInv, DiskTypes, PlaceInv, ResponseInv, SizesInv, FileInv, Telling, Told

\* What becomes of the context: told to stop, answered, with one more unit, at its end.
ToldToStop(x)       == [x EXCEPT !.running = FALSE]
Respond(x, c, t)    == [[x EXCEPT !.pc = "body", !.code = c, !.running = TRUE] EXCEPT !.total = t]
OneUnitMore(x)      == [x EXCEPT !.now = @ + 1, !.opened = TRUE]
Ended(x, e)         == [x EXCEPT !.pc = "done", !.result = e]

LEMMA StopFields ==
  ASSUME NEW x \in Transfers, NEW y, y = ToldToStop(x)
  PROVE  /\ y \in Transfers /\ y.pc = x.pc /\ y.start = x.start /\ y.code = x.code /\ y.total = x.total
         /\ y.now = x.now /\ y.opened = x.opened /\ y.result = x.result
<1> DEFINE A == {"none", "send", "body", "done"}
           C == {0, 200, 206, 404}
           I == Int
           N == Nat
           B == BOOLEAN
<1>1. x \in Shape(A, I, C, N, N, B, B, Endings) /\ FALSE \in B /\ y = [x EXCEPT !.running = FALSE]
  BY DEF Transfers, ToldToStop
<1> HIDE DEF A, C, I, N, B
<1>2. /\ y \in Shape(A, I, C, N, N, B, B, Endings) /\ y.pc = x.pc /\ y.start = x.start
      /\ y.code = x.code /\ y.total = x.total
      /\ y.now = x.now /\ y.opened = x.opened /\ y.result = x.result
  BY <1>1 DEF Shape
<1> QED
  BY <1>2 DEF A, C, I, N, B, Transfers

IsCode(c)  == c \in {200, 206, 404}
IsCount(t) == t \in Nat

LEMMA AnswerFields ==
  ASSUME NEW x \in Transfers, NEW c, IsCode(c), NEW t, IsCount(t), NEW w, w = Respond(x, c, t)
  PROVE  /\ w \in Transfers /\ w.pc = "body" /\ w.start = x.start /\ w.code = c /\ w.total = t
         /\ w.now = x.now /\ w.opened = x.opened /\ w.result = x.result
<1> DEFINE A == {"none", "send", "body", "done"}
           C == {0, 200, 206, 404}
           I == Int
           N == Nat
           B == BOOLEAN
           p == "body"
           d == c
           u == t
           y == w
           z == [x EXCEPT !.pc = p, !.code = d, !.running = TRUE]
<1>1. /\ x \in Shape(A, I, C, N, N, B, B, Endings) /\ TRUE \in B /\ p \in A /\ d \in C /\ u \in N
      /\ y = [z EXCEPT !.total = u]
  BY DEF Transfers, Respond, IsCode, IsCount
<1> HIDE DEF A, C, I, N, B, p, d, u, y
<1>3. /\ z \in Shape(A, I, C, N, N, B, B, Endings) /\ z.pc = p /\ z.start = x.start /\ z.code = d
      /\ z.now = x.now /\ z.opened = x.opened /\ z.result = x.result
  BY <1>1 DEF Shape
<1> HIDE DEF z
<1>2. /\ y \in Shape(A, I, C, N, N, B, B, Endings) /\ y.pc = p /\ y.start = x.start
      /\ y.code = d /\ y.total = u
      /\ y.now = x.now /\ y.opened = x.opened /\ y.result = x.result
  BY <1>1, <1>3 DEF Shape
<1> QED
  BY <1>2 DEF A, C, I, N, B, p, d, u, y, Transfers

LEMMA UnitFields ==
  ASSUME NEW x \in Transfers, NEW y, y = OneUnitMore(x)
  PROVE  /\ y \in Transfers /\ y.pc = x.pc /\ y.start = x.start /\ y.code = x.code /\ y.total = x.total
         /\ y.now = x.now + 1 /\ y.opened = TRUE /\ y.result = x.result
<1> DEFINE A == {"none", "send", "body", "done"}
           C == {0, 200, 206, 404}
           I == Int
           N == Nat
           B == BOOLEAN
           n == x.now + 1
<1>1. n \in N
  BY TransferFields
<1>2. /\ x \in Shape(A, I, C, N, N, B, B, Endings) /\ TRUE \in B
      /\ y = [x EXCEPT !.now = n, !.opened = TRUE]
  BY DEF Transfers, OneUnitMore
<1> HIDE DEF A, C, I, N, B, n
<1>3. /\ y \in Shape(A, I, C, N, N, B, B, Endings) /\ y.pc = x.pc /\ y.start = x.start
      /\ y.code = x.code /\ y.total = x.total
      /\ y.now = n /\ y.opened = TRUE /\ y.result = x.result
  BY <1>1, <1>2 DEF Shape
<1> QED
  BY <1>3 DEF A, C, I, N, B, n, Transfers

LEMMA EndFields ==
  ASSUME NEW x \in Transfers, NEW e \in Endings, NEW y, y = Ended(x, e)
  PROVE  /\ y \in Transfers /\ y.pc = "done" /\ y.start = x.start /\ y.code = x.code /\ y.total = x.total
         /\ y.now = x.now /\ y.opened = x.opened /\ y.result = e
<1> DEFINE A == {"none", "send", "body", "done"}
           C == {0, 200, 206, 404}
           I == Int
           N == Nat
           B == BOOLEAN
           p == "done"
<1>1. /\ x \in Shape(A, I, C, N, N, B, B, Endings) /\ p \in A
      /\ y = [x EXCEPT !.pc = p, !.result = e]
  BY DEF Transfers, Ended
<1> HIDE DEF A, C, I, N, B, p
<1>2. /\ y \in Shape(A, I, C, N, N, B, B, Endings) /\ y.pc = p /\ y.start = x.start
      /\ y.code = x.code /\ y.total = x.total
      /\ y.now = x.now /\ y.opened = x.opened /\ y.result = e
  BY <1>1 DEF Shape
<1> QED
  BY <1>2 DEF A, C, I, N, B, p, Transfers

LEMMA BitsNat == Bits \in Nat /\ Bits > 0
BY DiskAssumption DEF Bits

\* A step that only moves the row and the task, while nothing is transferred.
LEMMA AddTaskKeeps ==
  ASSUME DiskInv, Disk!AddTask
  PROVE  DiskInv'
<1> DEFINE n == resource.length
           k == IF resource.known THEN n ELSE -1
           a == Disk!AsInt(k)
<1>1. DiskTypes /\ PlaceInv
  BY DEF DiskInv
<1>2. /\ row = Disk!NoTask /\ UNCHANGED <<resource, transfer, file>>
      /\ task' = [status |-> "Ready", size |-> k, progress |-> 0]
      /\ row' = [task' EXCEPT !.size = a]
      /\ spoiled' = IF file = <<>> THEN {} ELSE {"old"}
  BY DEF Disk!AddTask
<1>a. spoiled' \subseteq {"short"} => file = <<>>
  BY <1>2
<1>3. n \in Nat /\ k \in Int /\ (resource.known => k = n)
  BY <1>1 DEF DiskTypes
<1>4. a \in Int /\ (resource.known /\ n < Bits => a \in Folds(n) /\ k \in Folds(n))
  BY <1>3, AsIntInt, AsIntFolds DEF Folds
<1>5. task.status = "none" /\ transfer = Disk!Nothing
  <2>1. task.status = "none"
    BY <1>1, <1>2 DEF PlaceInv, Disk!NoTask
  <2> QED
    BY <1>1, <2>1 DEF PlaceInv, DOWNLOADING
<1> HIDE DEF k, a
<1>6. row' = [status |-> "Ready", size |-> a, progress |-> 0]
  BY <1>2
<1>7. DiskTypes'
  BY <1>1, <1>2, <1>3, <1>4, <1>6 DEF DiskTypes, Infos, Statuses, Resumable
<1>8. PlaceInv' /\ ResponseInv'
  BY <1>2, <1>5, <1>6, NothingFields DEF PlaceInv, ResponseInv
<1>9. SizesInv'
  BY <1>2, <1>4, <1>6 DEF SizesInv, Telling, n
<1>10. FileInv'
  <2> SUFFICES ASSUME spoiled' \subseteq {"short"} PROVE FileInv'
    BY DEF FileInv
  <2>1. Len(file') = 0 /\ file' = [u \in 1..0 |-> u]
    BY <1>2, <1>a
  <2>2. /\ row'.status = "Ready" /\ row'.progress = 0 /\ task'.progress = 0
        /\ transfer'.code = 0 /\ transfer'.result = "none"
    BY <1>2, <1>5, <1>6, NothingFields
  <2>3. 0 \in Folds(0)
    BY DEF Folds
  <2> QED
    BY <1>2, <1>3, <2>1, <2>2, <2>3 DEF FileInv
<1> QED
  BY <1>7, <1>8, <1>9, <1>10 DEF DiskInv

LEMMA ResumeKeeps ==
  ASSUME DiskInv, Disk!Resume
  PROVE  DiskInv'
<1> DEFINE s == IF resource.ranges THEN task.progress ELSE -1
           a == Disk!AsInt(task.progress)
<1>1. DiskTypes /\ PlaceInv /\ SizesInv /\ FileInv
  BY DEF DiskInv
<1>2. /\ task.status \in Resumable /\ UNCHANGED <<resource, file, spoiled>>
      /\ task' = [task EXCEPT !.status = DOWNLOADING]
      /\ row' = [row EXCEPT !.status = task'.status, !.progress = Disk!AsInt(task'.progress)]
      /\ transfer' = [Disk!Nothing EXCEPT !.pc = "send", !.start = s]
  BY DEF Disk!Resume, Disk!Saved, Disk!Resumable, Resumable, Disk!DOWNLOADING, DOWNLOADING
<1>3. /\ task \in Infos /\ row \in Infos /\ resource \in [length : Nat, ranges : BOOLEAN, known : BOOLEAN]
  BY <1>1 DEF DiskTypes
<1>4. /\ task.status # "none" /\ row.status = task.status /\ task.status # DOWNLOADING
      /\ transfer = Disk!Nothing
  BY <1>1, <1>2 DEF PlaceInv, Resumable, DOWNLOADING
<1>5. /\ task' \in Infos /\ task'.status = DOWNLOADING
      /\ task'.size = task.size /\ task'.progress = task.progress
  BY <1>2, <1>3 DEF Infos, Statuses, DOWNLOADING
<1>6. a \in Int /\ s \in Int
  BY <1>3, AsIntInt DEF Infos
<1> HIDE DEF a, s
<1>7. /\ row' \in Infos /\ row'.status = DOWNLOADING /\ row'.size = row.size
  <2>1. row' = [row EXCEPT !.status = DOWNLOADING, !.progress = a]
    BY <1>2, <1>5 DEF a
  <2> QED
    BY <2>1, <1>3, <1>6 DEF Infos, Statuses, DOWNLOADING
<1>8. /\ transfer' \in Transfers /\ transfer'.pc = "send" /\ transfer'.start = s
      /\ transfer'.code = 0 /\ transfer'.now = 0 /\ transfer'.opened = FALSE /\ transfer'.result = "none"
  BY <1>2, <1>6 DEF Disk!Nothing, Transfers, Shape, Endings
<1>9. DiskTypes'
  BY <1>2, <1>3, <1>5, <1>7, <1>8 DEF DiskTypes, DOWNLOADING
<1>10. PlaceInv' /\ ResponseInv'
  <2>1. PlaceInv'
    BY <1>5, <1>7, <1>8 DEF PlaceInv
  <2>2. s = IF resource'.ranges THEN task'.progress ELSE -1
    BY <1>2, <1>5 DEF s
  <2> QED
    BY <1>8, <2>1, <2>2 DEF ResponseInv
<1>11. SizesInv'
  BY <1>1, <1>2, <1>4, <1>5, <1>7 DEF SizesInv, Telling, DOWNLOADING
<1>12. FileInv'
  <2> SUFFICES ASSUME Telling, spoiled \subseteq {"short"} PROVE FileInv'
    BY <1>2 DEF FileInv, Telling
  <2>1. /\ Len(file) \in 0..resource.length /\ file = [n \in 1..Len(file) |-> n]
        /\ resource.ranges => task.progress \in Folds(Len(file))
    BY <1>1, <1>4 DEF FileInv
  <2> QED
    BY <1>2, <1>5, <1>7, <1>8, <2>1 DEF FileInv, DOWNLOADING
<1> QED
  BY <1>9, <1>10, <1>11, <1>12 DEF DiskInv

LEMMA PauseKeeps ==
  ASSUME DiskInv, Disk!Pause
  PROVE  DiskInv'
<1>1. DiskTypes /\ PlaceInv /\ ResponseInv /\ SizesInv /\ FileInv
  BY DEF DiskInv
<1>2. /\ transfer.pc = "body" /\ UNCHANGED <<resource, row, task, file, spoiled>>
      /\ transfer' = ToldToStop(transfer)
  BY DEF Disk!Pause, ToldToStop
<1>a. transfer \in Transfers
  BY <1>1 DEF DiskTypes
<1>3. /\ transfer' \in Transfers /\ transfer'.pc = "body" /\ transfer'.start = transfer.start /\ transfer'.code = transfer.code
      /\ transfer'.total = transfer.total /\ transfer'.now = transfer.now
      /\ transfer'.opened = transfer.opened /\ transfer'.result = transfer.result
  BY <1>a, <1>2, StopFields
<1>4. DiskTypes'
  BY <1>1, <1>2, <1>3 DEF DiskTypes
<1>5. PlaceInv'
  BY <1>1, <1>2, <1>3 DEF PlaceInv
<1>6. ResponseInv'
  BY <1>1, <1>2, <1>3 DEF ResponseInv, Told
<1>7. SizesInv'
  BY <1>1, <1>2 DEF SizesInv, Telling
<1>8. FileInv'
  BY <1>1, <1>2, <1>3 DEF FileInv, Telling
<1> QED
  BY <1>4, <1>5, <1>6, <1>7, <1>8 DEF DiskInv

LEMMA CallbackKeeps ==
  ASSUME DiskInv, Disk!Callback
  PROVE  DiskInv'
<1> DEFINE e == transfer.result
           a == Disk!AsInt(task.progress)
<1>1. DiskTypes /\ PlaceInv /\ SizesInv /\ FileInv
  BY DEF DiskInv
<1>2. /\ transfer.pc = "done" /\ transfer' = Disk!Nothing /\ UNCHANGED <<resource, file, spoiled>>
      /\ task' = [task EXCEPT !.status = e]
      /\ row' = [row EXCEPT !.status = task'.status, !.progress = Disk!AsInt(task'.progress)]
  BY DEF Disk!Callback, Disk!Saved
<1>3. /\ task \in Infos /\ row \in Infos /\ resource \in [length : Nat, ranges : BOOLEAN, known : BOOLEAN]
  BY <1>1 DEF DiskTypes
<1>4. e \in {"Paused", "Error", "Completed"} /\ task.status = DOWNLOADING /\ row.status = DOWNLOADING
  BY <1>1, <1>2 DEF PlaceInv, DOWNLOADING
<1> HIDE DEF e
<1>5. /\ task' \in Infos /\ task'.status = e
      /\ task'.size = task.size /\ task'.progress = task.progress
  BY <1>2, <1>3, <1>4 DEF Infos, Statuses, Resumable
<1>6. a \in Int
  BY <1>3, AsIntInt DEF Infos
<1> HIDE DEF a
<1>7. row' \in Infos /\ row'.status = e /\ row'.size = row.size /\ row'.progress = a
  <2>1. row' = [row EXCEPT !.status = e, !.progress = a]
    BY <1>2, <1>5 DEF a
  <2> QED
    BY <2>1, <1>3, <1>4, <1>6 DEF Infos, Statuses, Resumable
<1>8. DiskTypes'
  BY <1>1, <1>2, <1>4, <1>5, <1>7, NothingFields DEF DiskTypes
<1>9. PlaceInv' /\ ResponseInv'
  BY <1>2, <1>5, <1>7, NothingFields DEF PlaceInv, ResponseInv
<1>10. SizesInv'
  BY <1>1, <1>2, <1>4, <1>5, <1>7 DEF SizesInv, Telling, DOWNLOADING
<1>11. FileInv'
  <2> SUFFICES ASSUME Telling, spoiled \subseteq {"short"} PROVE FileInv'
    BY <1>2 DEF FileInv, Telling
  <2>1. /\ Len(file) \in 0..resource.length /\ file = [n \in 1..Len(file) |-> n]
        /\ resource.ranges => task.progress \in Folds(Len(file))
        /\ e = "Completed" => Len(file) = resource.length \/ "short" \in spoiled
    BY <1>1, <1>2, <1>4 DEF FileInv, DOWNLOADING, e
  <2>2. Len(file) \in Nat /\ Len(file) < Bits
    BY <2>1, <1>3, BitsNat DEF Telling
  <2>3. resource.ranges => a \in Folds(Len(file))
    BY <2>1, <2>2, AsIntFolds DEF a
  <2> QED
    BY <1>2, <1>5, <1>7, <2>1, <2>3, NothingFields DEF FileInv
<1> QED
  BY <1>8, <1>9, <1>10, <1>11 DEF DiskInv

LEMMA RemoveKeeps ==
  ASSUME DiskInv, Disk!RemoveSelectedTask
  PROVE  DiskInv'
<1>1. DiskTypes /\ PlaceInv /\ ResponseInv /\ SizesInv /\ FileInv
  BY DEF DiskInv
<1>2. /\ transfer = Disk!Nothing /\ row' = Disk!NoTask /\ task' = Disk!NoTask
      /\ UNCHANGED <<resource, transfer, file, spoiled>>
  BY <1>1 DEF Disk!RemoveSelectedTask, PlaceInv
<1>3. DiskTypes'
  BY <1>1, <1>2 DEF DiskTypes, Infos, Statuses, Disk!NoTask
<1>4. PlaceInv' /\ ResponseInv' /\ SizesInv'
  BY <1>2, NothingFields DEF PlaceInv, ResponseInv, SizesInv, Disk!NoTask
<1>5. FileInv'
  BY <1>1, <1>2, NothingFields DEF FileInv, Telling, Disk!NoTask
<1> QED
  BY <1>3, <1>4, <1>5 DEF DiskInv

\* What is lost of a file that holds its units in order leaves one that does.
LEMMA FewerUnits ==
  ASSUME NEW f, NEW k \in Nat, Len(f) = k, f = [n \in 1..k |-> n], NEW lost \in 0..k
  PROVE  /\ Len(SubSeq(f, 1, k - lost)) = k - lost
         /\ SubSeq(f, 1, k - lost) = [n \in 1..(k - lost) |-> n]
<1> DEFINE g == [n \in 1..k |-> n]
           h == SubSeq(g, 1, k - lost)
<1>1. g \in Seq(Nat) /\ Len(g) = k
  OBVIOUS
<1>2. \A n \in 1..k : g[n] = n
  OBVIOUS
<1> HIDE DEF g
<1>3. /\ h \in Seq(Nat) /\ Len(h) = k - lost
      /\ \A n \in 1..(k - lost) : h[n] = g[n]
  BY <1>1
<1> HIDE DEF h
<1>4. h = [n \in 1..(k - lost) |-> n]
  BY <1>2, <1>3
<1>5. f = g
  BY DEF g
<1> QED
  BY <1>3, <1>4, <1>5 DEF h

LEMMA CrashKeeps ==
  ASSUME DiskInv, Disk!Crash
  PROVE  DiskInv'
<1>1. DiskTypes /\ PlaceInv /\ ResponseInv /\ SizesInv /\ FileInv
  BY DEF DiskInv
<1>2. /\ task # Disk!NoTask /\ task' = Disk!NoTask /\ transfer' = Disk!Nothing
      /\ UNCHANGED <<resource, row, spoiled>>
  BY DEF Disk!Crash
<1>3. PICK lost \in 0..transfer.now : file' = SubSeq(file, 1, Len(file) - lost)
  BY DEF Disk!Crash
<1>4. DiskTypes'
  BY <1>1, <1>2, NothingFields DEF DiskTypes, Infos, Statuses, Disk!NoTask
<1>5. PlaceInv' /\ ResponseInv'
  BY <1>2, NothingFields DEF PlaceInv, ResponseInv, Disk!NoTask
<1>6. SizesInv'
  BY <1>1, <1>2 DEF SizesInv, Telling, Disk!NoTask
<1>7. FileInv'
  <2> SUFFICES ASSUME Telling, spoiled \subseteq {"short"} PROVE FileInv'
    BY <1>2 DEF FileInv, Telling
  <2> DEFINE k == Len(file)
             now == transfer.now
  <2>1. /\ k \in 0..resource.length /\ file = [n \in 1..k |-> n]
        /\ transfer.code = 206 => k = transfer.start + now
        /\ transfer.code = 200 /\ transfer.opened => k = now
        /\ transfer.code = 404 => now = 0
    BY <1>1 DEF FileInv
  <2>2. transfer \in Transfers /\ resource.length \in Nat
    BY <1>1 DEF DiskTypes
  <2>3. now \in Nat /\ transfer.start \in Int /\ transfer.code \in {0, 200, 206, 404}
    BY <2>2, TransferFields
  <2>4. now <= k
    <3>1. CASE transfer.code = 206
      <4>1. transfer.start >= 0
        BY <1>1, <3>1 DEF ResponseInv
      <4> QED
        BY <2>1, <2>3, <3>1, <4>1
    <3>2. CASE transfer.code = 200
      <4>1. transfer.opened \/ now = 0
        BY <1>1, <2>3 DEF ResponseInv
      <4> QED
        BY <2>1, <2>3, <3>2, <4>1
    <3>3. CASE transfer.code \in {0, 404}
      BY <1>1, <2>1, <3>3 DEF ResponseInv
    <3> QED
      BY <2>3, <3>1, <3>2, <3>3
  <2>5. k \in Nat /\ lost \in 0..k
    BY <1>3, <2>1, <2>2, <2>3, <2>4
  <2> HIDE DEF now
  <2>6. Len(file') = k - lost /\ file' = [n \in 1..(k - lost) |-> n] /\ k - lost \in 0..resource.length
    <3>1. file' = SubSeq(file, 1, k - lost)
      BY <1>3
    <3>2. k - lost \in 0..resource.length
      BY <2>1, <2>2, <2>5
    <3>3. Len(file) = k
      OBVIOUS
    <3>4. file = [n \in 1..k |-> n]
      BY <2>1
    <3> HIDE DEF k
    <3> QED
      BY <2>5, <3>1, <3>2, <3>3, <3>4, FewerUnits
  <2>7. CASE transfer.pc = "none"
    <3>1. transfer = Disk!Nothing
      BY <1>1, <2>7 DEF PlaceInv
    <3>2. lost = 0
      BY <1>3, <3>1, NothingFields
    <3>3. Len(file') = k /\ k \in Nat
      BY <2>5, <2>6, <3>2
    <3>4. /\ resource.ranges /\ row.status \notin {"none", DOWNLOADING} => row.progress \in Folds(k)
          /\ row.status = "Completed" => k = resource.length \/ "short" \in spoiled
      BY <1>1 DEF FileInv
    <3> HIDE DEF k
    <3> QED
      BY <1>2, <2>6, <3>3, <3>4, NothingFields DEF FileInv, Disk!NoTask
  <2>8. CASE transfer.pc # "none"
    <3>1. row.status = DOWNLOADING
      BY <1>1, <2>8 DEF PlaceInv, DOWNLOADING
    <3> HIDE DEF k
    <3> QED
      BY <1>2, <2>6, <3>1, NothingFields DEF FileInv, Disk!NoTask, DOWNLOADING
  <2> QED
    BY <2>7, <2>8
<1> QED
  BY <1>4, <1>5, <1>6, <1>7 DEF DiskInv

LEMMA StartKeeps ==
  ASSUME DiskInv, Disk!Start
  PROVE  DiskInv'
<1>1. DiskTypes /\ PlaceInv /\ ResponseInv /\ SizesInv /\ FileInv
  BY DEF DiskInv
<1>2. row # Disk!NoTask /\ task = Disk!NoTask /\ task' = row /\ UNCHANGED <<resource, row, transfer, file, spoiled>>
  BY DEF Disk!Start
<1>3. transfer = Disk!Nothing
  BY <1>1, <1>2 DEF PlaceInv, Disk!NoTask, DOWNLOADING
<1>4. DiskTypes'
  BY <1>1, <1>2 DEF DiskTypes
<1>5. PlaceInv' /\ ResponseInv'
  BY <1>2, <1>3, NothingFields DEF PlaceInv, ResponseInv
<1>6. SizesInv'
  BY <1>1, <1>2 DEF SizesInv, Telling
<1>7. FileInv'
  BY <1>1, <1>2, <1>3, NothingFields DEF FileInv, Telling
<1> QED
  BY <1>4, <1>5, <1>6, <1>7 DEF DiskInv

LEMMA DoneKeeps ==
  ASSUME DiskInv, NEW e \in {"Paused", "Error", "Completed"}, NEW W \in SUBSET {"short"}, Disk!Done(e, W),
         transfer.pc \in {"send", "body"},
         e = "Completed" => \/ W = {"short"}
                            \/ transfer.code = 200 /\ transfer.now = resource.length
                            \/ transfer.code = 206 /\ transfer.now = resource.length - transfer.start
  PROVE  DiskInv'
<1>1. DiskTypes /\ PlaceInv /\ ResponseInv /\ SizesInv /\ FileInv
  BY DEF DiskInv
<1>2. /\ UNCHANGED <<resource, row, task, file>> /\ spoiled' = spoiled \cup W
      /\ transfer' = Ended(transfer, e)
  BY DEF Disk!Done, Ended
<1>3. transfer \in Transfers /\ resource.length \in Nat /\ e \in Endings
  BY <1>1 DEF DiskTypes, Endings
<1>4. /\ transfer' \in Transfers /\ transfer'.pc = "done" /\ transfer'.start = transfer.start
      /\ transfer'.code = transfer.code /\ transfer'.total = transfer.total
      /\ transfer'.now = transfer.now /\ transfer'.opened = transfer.opened /\ transfer'.result = e
  BY <1>2, <1>3, EndFields
<1>5. DiskTypes'
  BY <1>1, <1>2, <1>4 DEF DiskTypes
<1>6. PlaceInv'
  BY <1>1, <1>2, <1>4 DEF PlaceInv
<1>7. ResponseInv'
  BY <1>1, <1>2, <1>4 DEF ResponseInv, Told
<1>8. SizesInv'
  BY <1>1, <1>2 DEF SizesInv, Telling
<1>9. FileInv'
  <2> SUFFICES ASSUME Telling, spoiled \subseteq {"short"} PROVE FileInv'
    BY <1>2 DEF FileInv, Telling
  <2> DEFINE k == Len(file)
  <2>1. /\ k \in 0..resource.length /\ file = [n \in 1..k |-> n]
        /\ transfer.code = 206 => k = transfer.start + transfer.now
        /\ transfer.code = 200 /\ transfer.opened => k = transfer.now
        /\ transfer.code = 404 => transfer.now = 0
        /\ resource.ranges =>
             /\ task.status = "none" \/ task.progress \in Folds(k)
             /\ row.status \notin {"none", DOWNLOADING} => row.progress \in Folds(k)
        /\ row.status = "Completed" => k = resource.length \/ "short" \in spoiled
    BY <1>1 DEF FileInv
  <2>2. transfer.start \in Int /\ transfer.now \in Nat /\ transfer.opened \in BOOLEAN
    BY <1>3, TransferFields
  <2>3. transfer.code = 200 /\ ~transfer.opened => transfer.now = 0
    BY <1>1, <2>2 DEF ResponseInv
  <2> HIDE DEF k
  <2>4. e = "Completed" => k = resource.length \/ "short" \in spoiled'
    <3>1. CASE transfer.code = 200 /\ transfer.now = resource.length
      BY <1>3, <2>1, <2>2, <2>3, <3>1
    <3>2. CASE transfer.code = 206 /\ transfer.now = resource.length - transfer.start
      BY <1>3, <2>1, <2>2, <3>2
    <3>3. W = {"short"} => "short" \in spoiled'
      BY <1>2
    <3> QED
      BY <3>1, <3>2, <3>3
  <2> QED
    BY <1>2, <1>4, <2>1, <2>4 DEF FileInv, k
<1> QED
  BY <1>5, <1>6, <1>7, <1>8, <1>9 DEF DiskInv

LEMMA AbortKeeps ==
  ASSUME DiskInv, Disk!Abort
  PROVE  DiskInv'
<1>1. {} \in SUBSET {"short"}
  OBVIOUS
<1> QED
  BY <1>1, DoneKeeps DEF Disk!Abort

LEMMA BreakKeeps ==
  ASSUME DiskInv, Disk!Break
  PROVE  DiskInv'
<1>1. {} \in SUBSET {"short"} /\ {"short"} \in SUBSET {"short"}
  OBVIOUS
<1>2. CASE Disk!Done("Error", {}) /\ transfer.pc \in {"send", "body"}
  BY <1>1, <1>2, DoneKeeps
<1>3. CASE Disk!Done("Completed", {"short"}) /\ transfer.pc = "body"
  BY <1>1, <1>3, DoneKeeps
<1> QED
  BY <1>2, <1>3 DEF Disk!Break

LEMMA CompleteKeeps ==
  ASSUME DiskInv, Disk!Complete
  PROVE  DiskInv'
<1>1. transfer.pc = "body" /\ transfer.now = Disk!Body
  BY DEF Disk!Complete
<1>2. CASE transfer.code = 404
  <2>1. Disk!Done("Error", {}) /\ {} \in SUBSET {"short"}
    BY <1>2 DEF Disk!Complete
  <2> QED
    BY <1>1, <2>1, DoneKeeps
<1>3. CASE transfer.code # 404
  <2>1. Disk!Done("Completed", {}) /\ {} \in SUBSET {"short"}
    BY <1>3 DEF Disk!Complete
  <2>2. transfer.code \in {200, 206}
    <3>1. transfer.code \in {0, 200, 206, 404}
      BY TransferFields DEF DiskInv, DiskTypes
    <3> QED
      BY <1>1, <1>3, <3>1 DEF DiskInv, ResponseInv
  <2>3. \/ transfer.code = 200 /\ transfer.now = resource.length
        \/ transfer.code = 206 /\ transfer.now = resource.length - transfer.start
    BY <1>1, <2>2 DEF Disk!Body
  <2>4. "Completed" \in {"Paused", "Error", "Completed"} /\ transfer.pc \in {"send", "body"}
    BY <1>1
  <2> QED
    BY <2>1, <2>3, <2>4, DoneKeeps, Zenon
<1> QED
  BY <1>2, <1>3

LEMMA AnswerKeeps ==
  ASSUME DiskInv, Disk!Answer
  PROVE  DiskInv'
<1> DEFINE n == resource.length
<1>1. DiskTypes /\ PlaceInv /\ ResponseInv /\ SizesInv /\ FileInv
  BY DEF DiskInv
<1>2. transfer.pc = "send" /\ UNCHANGED <<resource, row, task, file, spoiled>>
  BY DEF Disk!Answer
<1>3. /\ transfer \in Transfers /\ resource \in [length : Nat, ranges : BOOLEAN, known : BOOLEAN]
  BY <1>1 DEF DiskTypes
<1>4. n \in Nat /\ transfer.start \in Int
  BY <1>3, TransferFields
<1>5. /\ transfer.code = 0 /\ transfer.now = 0 /\ transfer.opened = FALSE /\ transfer.result = "none"
      /\ transfer.start = IF resource.ranges THEN task.progress ELSE -1
  BY <1>1, <1>2, <1>3, TransferFields DEF ResponseInv, PlaceInv
<1>6. PICK code \in Disk!Codes, total \in Nat :
        /\ transfer' = Respond(transfer, code, total)
        /\ code = 200 => total = Told(n)
        /\ code = 206 => total = Told(n - transfer.start)
  <2>1. PICK code \in Disk!Codes :
          LET answered == [transfer EXCEPT !.pc = "body", !.code = code, !.running = TRUE]
              length   == IF code = 206 THEN n - transfer.start ELSE n
          IN IF code = 404
             THEN \E page \in {0, 1} : transfer' = [answered EXCEPT !.total = page]
             ELSE transfer' = [answered EXCEPT !.total = IF resource.known THEN length ELSE 0]
    BY DEF Disk!Answer
  <2>2. CASE code = 404
    <3>1. PICK page \in {0, 1} : transfer' = Respond(transfer, code, page)
      BY <2>1, <2>2 DEF Respond
    <3>2. page \in Nat
      OBVIOUS
    <3> QED
      BY <2>2, <3>1, <3>2
  <2>3. CASE code # 404
    <3> DEFINE length == IF code = 206 THEN n - transfer.start ELSE n
    <3>1. transfer' = Respond(transfer, code, Told(length))
      BY <2>1, <2>3 DEF Told, Respond
    <3>2. Told(length) \in Nat
      <4>1. code = 206 => transfer.start \in 0..n - 1
        BY DEF Disk!Codes
      <4> QED
        BY <1>4, <4>1 DEF Told
    <3>3. (code = 200 => Told(length) = Told(n)) /\ (code = 206 => Told(length) = Told(n - transfer.start))
      OBVIOUS
    <3> HIDE DEF length
    <3> QED
      BY <3>1, <3>2, <3>3
  <2> QED
    BY <2>2, <2>3
<1>7. code \in {200, 206, 404} /\ (code = 206 => resource.ranges /\ transfer.start \in 0..n - 1)
  BY DEF Disk!Codes
<1>8. /\ transfer' \in Transfers /\ transfer'.pc = "body" /\ transfer'.start = transfer.start
      /\ transfer'.code = code /\ transfer'.total = total
      /\ transfer'.now = transfer.now /\ transfer'.opened = transfer.opened
      /\ transfer'.result = transfer.result
  <2>1. transfer \in Transfers /\ IsCode(code) /\ IsCount(total)
    BY <1>3, <1>7 DEF IsCode, IsCount
  <2>2. transfer' = Respond(transfer, code, total)
    BY <1>6
  <2> QED
    BY <2>1, <2>2, AnswerFields
<1>9. DiskTypes'
  BY <1>1, <1>2, <1>8 DEF DiskTypes
<1>10. PlaceInv'
  BY <1>1, <1>2, <1>8 DEF PlaceInv
<1>11. ResponseInv'
  <2>1. transfer'.opened = FALSE /\ transfer'.now = 0
    BY <1>5, <1>8
  <2>2. transfer'.opened <=> transfer'.now > 0
    BY <2>1
  <2>3. transfer'.code = 206 => 0 <= n - transfer.start
    BY <1>4, <1>7, <1>8
  <2> QED
    BY <1>2, <1>4, <1>6, <1>7, <1>8, <2>1, <2>2, <2>3 DEF ResponseInv, Told
<1>12. SizesInv'
  BY <1>1, <1>2 DEF SizesInv, Telling
<1>13. FileInv'
  <2> SUFFICES ASSUME Telling, spoiled \subseteq {"short"} PROVE FileInv'
    BY <1>2 DEF FileInv, Telling
  <2> DEFINE k == Len(file)
  <2>1. /\ k \in 0..n /\ file = [q \in 1..k |-> q]
        /\ resource.ranges =>
             /\ task.status = "none" \/ task.progress \in Folds(k)
             /\ row.status \notin {"none", DOWNLOADING} => row.progress \in Folds(k)
        /\ row.status = "Completed" => k = n \/ "short" \in spoiled
    BY <1>1, <1>2 DEF FileInv
  <2>2. task.status # "none"
    BY <1>1, <1>2 DEF PlaceInv, DOWNLOADING
  <2>3. code = 206 => k = transfer.start
    <3>1. n < Bits /\ Bits \in Nat
      BY BitsNat DEF Telling
    <3> SUFFICES ASSUME code = 206 PROVE k = transfer.start
      OBVIOUS
    <3>2. transfer.start \in {k, k - Bits} /\ transfer.start >= 0
      BY <1>5, <1>7, <2>1, <2>2, <1>4 DEF Folds
    <3> HIDE DEF k, n
    <3> QED
      BY <1>4, <2>1, <3>1, <3>2
  <2>4. code = 206 => k = transfer.start + transfer.now
    BY <1>4, <1>5, <2>3
  <2> HIDE DEF k
  <2> QED
    BY <1>2, <1>5, <1>8, <2>1, <2>4 DEF FileInv, k
<1> QED
  BY <1>9, <1>10, <1>11, <1>12, <1>13 DEF DiskInv

\* One more unit behind the others.
LEMMA OneUnitLonger ==
  ASSUME NEW f, NEW k \in Nat, Len(f) = k, f = [n \in 1..k |-> n]
  PROVE  Len(Append(f, k + 1)) = k + 1 /\ Append(f, k + 1) = [n \in 1..(k + 1) |-> n]
<1> DEFINE g == [n \in 1..k |-> n]
           h == Append(g, k + 1)
<1>1. g \in Seq(Nat) /\ Len(g) = k
  OBVIOUS
<1>2. \A n \in 1..k : g[n] = n
  OBVIOUS
<1> HIDE DEF g
<1>3. h \in Seq(Nat) /\ Len(h) = k + 1 /\ h[k + 1] = k + 1 /\ \A n \in 1..k : h[n] = g[n]
  BY <1>1
<1> HIDE DEF h
<1>4. ASSUME NEW n \in 1..(k + 1) PROVE h[n] = n
  <2>1. CASE n = k + 1
    BY <1>3, <2>1
  <2>2. CASE n \in 1..k
    BY <1>2, <1>3, <2>2
  <2> QED
    BY <2>1, <2>2
<1>5. h = [n \in 1..(k + 1) |-> n]
  BY <1>3, <1>4
<1>6. f = g
  BY DEF g
<1> QED
  BY <1>3, <1>5, <1>6 DEF h

LEMMA UnitKeeps ==
  ASSUME DiskInv, Disk!CurlBodyFunction
  PROVE  DiskInv'
<1> DEFINE n == resource.length
           now == transfer.now
           p == Disk!OnProgressUpdated(transfer')
<1>1. DiskTypes /\ PlaceInv /\ ResponseInv /\ SizesInv /\ FileInv
  BY DEF DiskInv
<1>2. /\ transfer.pc = "body" /\ now < Disk!Body /\ UNCHANGED <<resource, row>>
      /\ transfer' = OneUnitMore(transfer)
      /\ task' = IF Disk!Reports(transfer') THEN [task EXCEPT !.progress = p] ELSE task
      /\ \/ /\ file' = Append(Disk!Opened, Disk!Unit)
            /\ spoiled' = IF transfer.code = 404 THEN {"page"} ELSE IF Disk!Starts THEN {} ELSE spoiled
         \/ spoiled' = spoiled \cup {"disk"}
  BY DEF Disk!CurlBodyFunction, OneUnitMore
<1>3. transfer \in Transfers /\ resource \in [length : Nat, ranges : BOOLEAN, known : BOOLEAN] /\ task \in Infos
  BY <1>1 DEF DiskTypes
<1>4. /\ n \in Nat /\ transfer.start \in Int /\ now \in Nat /\ transfer.total \in Nat
      /\ transfer.code \in {200, 206, 404} /\ transfer.opened \in BOOLEAN
  BY <1>1, <1>2, <1>3, TransferFields DEF ResponseInv
<1>5. /\ transfer' \in Transfers /\ transfer'.pc = "body" /\ transfer'.start = transfer.start
      /\ transfer'.code = transfer.code /\ transfer'.total = transfer.total
      /\ transfer'.now = now + 1 /\ transfer'.opened = TRUE /\ transfer'.result = transfer.result
  BY <1>2, <1>3, UnitFields
<1>6. p = now + 1 + task.size - transfer.total /\ task.size \in Int /\ p \in Int
  <2>1. p = now + 1 + task.size - transfer.total
    BY <1>5 DEF Disk!OnProgressUpdated
  <2>2. task.size \in Int
    BY <1>3 DEF Infos
  <2> HIDE DEF p, now
  <2> QED
    BY <1>4, <2>1, <2>2
<1>7. Disk!Reports(transfer') <=> transfer.total > 0
  BY <1>5 DEF Disk!Reports
<1> HIDE DEF p
<1>8. /\ task' \in Infos /\ task'.status = task.status /\ task'.size = task.size
      /\ task'.progress = IF transfer.total > 0 THEN p ELSE task.progress
  BY <1>2, <1>3, <1>6, <1>7 DEF Infos
<1>9. task.status = DOWNLOADING /\ row.status = DOWNLOADING /\ transfer.result = "none"
  BY <1>1, <1>2 DEF PlaceInv, DOWNLOADING
<1>10. DiskTypes'
  BY <1>1, <1>2, <1>5, <1>8, <1>9 DEF DiskTypes, DOWNLOADING
<1>11. PlaceInv'
  BY <1>2, <1>5, <1>8, <1>9 DEF PlaceInv
<1>12. /\ transfer.code = 200 => now + 1 <= n
       /\ transfer.code = 206 => now + 1 <= n - transfer.start
  BY <1>2, <1>4 DEF Disk!Body
<1>13. ResponseInv'
  <2>1. transfer'.now > 0 /\ transfer'.opened = TRUE
    BY <1>4, <1>5
  <2>2. transfer'.opened <=> transfer'.now > 0
    BY <2>1
  <2>3. transfer'.code # 0
    BY <1>4, <1>5
  <2>4. /\ transfer.code = 200 => transfer.total = Told(n)
        /\ transfer.code = 206 => /\ resource.ranges /\ transfer.start \in 0..n - 1
                                  /\ transfer.total = Told(n - transfer.start)
    BY <1>1 DEF ResponseInv
  <2> QED
    BY <1>2, <1>5, <1>12, <2>2, <2>3, <2>4 DEF ResponseInv, Told
<1>14. SizesInv'
  BY <1>1, <1>2, <1>8 DEF SizesInv, Telling
<1>15. FileInv'
  <2> SUFFICES ASSUME Telling, spoiled' \subseteq {"short"} PROVE FileInv'
    BY <1>2 DEF FileInv, Telling
  <2>1. /\ transfer.code # 404 /\ file' = Append(Disk!Opened, Disk!Unit)
        /\ Disk!Starts \/ spoiled \subseteq {"short"}
    BY <1>2
  <2> DEFINE k == IF transfer.code = 206 THEN transfer.start + now ELSE now
  <2>2. k \in Nat /\ k + 1 <= n
    <3>1. transfer.code = 206 => transfer.start >= 0
      BY <1>1 DEF ResponseInv
    <3>2. CASE transfer.code = 206
      <4> DEFINE a == transfer.start
      <4>1. a \in Int /\ a >= 0 /\ now \in Nat /\ now + 1 <= n - a /\ k = a + now
        BY <1>4, <1>12, <3>1, <3>2
      <4>2. n \in Nat
        BY <1>4
      <4> HIDE DEF a, k, now
      <4> QED
        BY <4>1, <4>2
    <3>3. CASE transfer.code # 206
      <4>1. k = now /\ now \in Nat /\ now + 1 <= n
        BY <1>4, <1>12, <2>1, <3>3
      <4> HIDE DEF k, now
      <4> QED
        BY <4>1
    <3> QED
      BY <3>2, <3>3
  <2>3. Disk!Unit = k + 1
    BY <1>4, <2>1 DEF Disk!Unit
  <2>4. Len(Disk!Opened) = k /\ Disk!Opened = [q \in 1..k |-> q]
    <3>1. CASE Disk!Starts
      <4>1. Disk!Opened = <<>> /\ transfer.code = 200
        BY <1>4, <2>1, <3>1 DEF Disk!Starts, Disk!Opened
      <4>2. now = 0
        BY <1>1, <1>4, <3>1 DEF Disk!Starts, ResponseInv
      <4> QED
        BY <4>1, <4>2
    <3>2. CASE ~Disk!Starts
      <4>1. Disk!Opened = file
        BY <3>2 DEF Disk!Starts, Disk!Opened
      <4>2. Len(file) = k /\ file = [q \in 1..Len(file) |-> q]
        BY <1>1, <1>4, <2>1, <3>2 DEF FileInv, Disk!Starts
      <4> QED
        BY <4>1, <4>2
    <3> QED
      BY <3>1, <3>2
  <2> HIDE DEF k, now
  <2>5. Len(file') = k + 1 /\ file' = [q \in 1..(k + 1) |-> q]
    BY <2>1, <2>2, <2>3, <2>4, OneUnitLonger
  <2>6. Len(file') \in 0..n /\ file' = [q \in 1..Len(file') |-> q]
    BY <1>4, <2>2, <2>5
  <2>7. /\ transfer.code = 206 => Len(file') = transfer.start + (now + 1)
        /\ transfer.code = 200 => Len(file') = now + 1
    BY <1>4, <2>5 DEF k
  <2>8. resource.ranges => task'.progress \in Folds(Len(file'))
    <3> SUFFICES ASSUME resource.ranges PROVE task'.progress \in Folds(Len(file'))
      OBVIOUS
    <3>1. resource.known /\ task.size \in {n, n - Bits}
      BY <1>1, <1>9 DEF Telling, SizesInv, Folds, DOWNLOADING
    <3>2. /\ transfer.code = 200 => transfer.total = n
          /\ transfer.code = 206 => transfer.total = n - transfer.start /\ transfer.start \in 0..n - 1
      BY <1>1, <3>1 DEF ResponseInv, Told
    <3>3. transfer.total > 0
      BY <1>4, <2>1, <3>2, <1>12 DEF now
    <3>4. p = k + 1 \/ p = (k + 1) - Bits
      <4> DEFINE size_ == task.size
                 total == transfer.total
                 start == transfer.start
      <4>1. /\ p = now + 1 + size_ - total /\ size_ \in {n, n - Bits}
            /\ start \in Int /\ now \in Nat /\ n \in Nat
        BY <1>4, <1>6, <3>1 DEF now
      <4>2. (total = n /\ k = now) \/ (total = n - start /\ k = start + now)
        BY <1>4, <2>1, <3>2 DEF k
      <4> HIDE DEF size_, total, start, n
      <4>3. CASE total = n /\ k = now
        BY <4>1, <4>3, BitsNat
      <4>4. CASE total = n - start /\ k = start + now
        BY <4>1, <4>4, BitsNat
      <4> QED
        BY <4>2, <4>3, <4>4
    <3>5. task'.progress = p
      BY <1>8, <3>3
    <3>6. Folds(Len(file')) = {k + 1, (k + 1) - Bits}
      <4>1. Len(file') = k + 1
        BY <2>5
      <4> QED
        BY <4>1 DEF Folds
    <3> QED
      BY <3>4, <3>5, <3>6
  <2> QED
    BY <1>2, <1>4, <1>5, <1>8, <1>9, <2>1, <2>6, <2>7, <2>8 DEF FileInv, DOWNLOADING
<1> QED
  BY <1>10, <1>11, <1>13, <1>14, <1>15 DEF DiskInv

(* Between two transfers the file holds the units up to the progress that  *)
(* the next request starts from, in the task and in the row, for resources *)
(* of any length and ints of any width, however often the download is      *)
(* paused, broken off, killed or restarted; and all of them once the task  *)
(* is completed, unless the server told no length and the connection ended *)
(* early, which curl takes for the end of the body: see Transfer.          *)
THEOREM FileHoldsTheProgress == AnySpec => []FileFollowsProgress
<1>1. AnyInit => DiskInv
  BY DiskStarts DEF AnyInit
<1>2. DiskInv /\ [AnyNext]_allVars => DiskInv'
  <2> SUFFICES ASSUME DiskInv, [AnyNext]_allVars PROVE DiskInv'
    OBVIOUS
  <2>1. CASE UNCHANGED diskVars
    BY <2>1, DiskUnchanged
  <2>2. CASE Disk!Next
    BY <2>2, AddTaskKeeps, ResumeKeeps, PauseKeeps, CallbackKeeps, RemoveKeeps, CrashKeeps, StartKeeps,
       AnswerKeeps, UnitKeeps, AbortKeeps, CompleteKeeps, BreakKeeps DEF Disk!Next
  <2> QED
    BY <2>1, <2>2 DEF AnyNext, InDownload, InDisk, allVars
<1>3. DiskInv => FileFollowsProgress
  <2> SUFFICES ASSUME DiskInv, Disk!Intact, transfer.pc = "none"
               PROVE  /\ file = [n \in 1..Len(file) |-> n]
                      /\ \A t \in {row, task} \ {Disk!NoTask} :
                           /\ resource.ranges /\ t.status # DOWNLOADING /\ t.progress >= 0 => t.progress = Len(file)
                           /\ t.status = "Completed" => Len(file) = resource.length \/ "short" \in spoiled
    BY DEF FileFollowsProgress, Disk!FileFollowsProgress, Disk!DOWNLOADING, DOWNLOADING
  <2>1. Telling /\ spoiled \subseteq {"short"}
    BY DEF Disk!Intact, Telling, Bits
  <2>2. /\ Len(file) \in 0..resource.length /\ file = [n \in 1..Len(file) |-> n]
        /\ row.status = "Completed" => Len(file) = resource.length \/ "short" \in spoiled
        /\ resource.ranges =>
             /\ task.status # DOWNLOADING => task.status = "none" \/ task.progress \in Folds(Len(file))
             /\ row.status \notin {"none", DOWNLOADING} => row.progress \in Folds(Len(file))
    BY <2>1 DEF DiskInv, FileInv
  <2>3. Len(file) \in Nat /\ Len(file) < Bits /\ Bits \in Nat
    BY <2>1, <2>2, BitsNat DEF Telling, DiskInv, DiskTypes
  <2>4. /\ row # Disk!NoTask => row.status # "none"
        /\ task # Disk!NoTask => task.status # "none" /\ row.status = task.status
    BY DEF DiskInv, DiskTypes, PlaceInv
  <2>5. ASSUME NEW t \in {row, task} \ {Disk!NoTask}
        PROVE  /\ resource.ranges /\ t.status # DOWNLOADING /\ t.progress >= 0 => t.progress = Len(file)
               /\ t.status = "Completed" => Len(file) = resource.length \/ "short" \in spoiled
    <3>1. t.status = row.status /\ t.status # "none"
      BY <2>4
    <3>2. resource.ranges /\ t.status # DOWNLOADING => t.progress \in Folds(Len(file))
      BY <2>2, <3>1
    <3> DEFINE k == Len(file)
               q == t.progress
    <3>3. q \in {k, k - Bits} /\ q >= 0 => q = k
      <4> HIDE DEF q, k
      <4> QED
        BY <2>3 DEF k
    <3> QED
      BY <2>2, <3>1, <3>2, <3>3 DEF Folds
  <2> QED
    BY <2>2, <2>5
<1> QED
  BY <1>1, <1>2, <1>3, PTL DEF AnySpec
=============================================================================

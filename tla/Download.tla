------------------------------ MODULE Download ------------------------------
(***************************************************************************)
(* The download tasks of wget-gui: the GTK main thread, which owns the     *)
(* task list and its counter, the workers of the thread pool, which        *)
(* transfer files, the idle queue that carries their results back, and the *)
(* database, the only thing that outlives the process.                     *)
(*                                                                         *)
(* A RequestContext is named by the worker that created it.  What is done  *)
(* through a pointer to a freed object is undefined: a write is modelled   *)
(* as lost, or as hitting a context now at that address, and that the      *)
(* process may die of it is part of Crash.  Progress callbacks change no   *)
(* status and are left out: Transfer has what they count.                  *)
(***************************************************************************)
EXTENDS Integers, Sequences, FiniteSets

CONSTANTS
  Tasks,     \* the ids the database may hand out
  Workers,   \* the threads of the pool
  Info,      \* the request of the new-task dialog for the size of a file
  NULL

ASSUME DownloadAssumption ==
  /\ IsFiniteSet(Tasks)
  /\ IsFiniteSet(Workers)
  /\ Info \notin Tasks /\ NULL \notin Tasks \cup Workers /\ Info # NULL

VARIABLES
  db,        \* the status in each row; "unused", or "deleted" when there is none
  app,       \* where the life of the process stands
  dialog,    \* the new-task dialog
  main,      \* what the main thread does between two rounds of the main loop
  life,      \* of each DownloadTask: "none", "live", or "torn" when it was freed
             \* while a request of its own was under way
  status,    \* download_task->task_info.status
  handler,   \* download_task->request_handler
  size,      \* context->downloading_task_size
  idle,      \* the callbacks posted with gdk_threads_add_idle
  queue,     \* the requests the pool has accepted and no worker has taken
  worker,    \* what each worker does, with its RequestContext
  stuck      \* the tasks whose row said DOWNLOADING when the list was built

objects == <<life, status, handler, size>>
vars == <<db, app, dialog, main, objects, idle, queue, worker, stuck>>

DOWNLOADING == "Downloading"
COMPLETED   == "Completed"
REMOVING    == "Removing"
ResumableAlways == {"Error", "Ready", "Paused", DOWNLOADING}
Resumable   == {"Error", "Ready", "Paused"}      \* status < STATUS_DOWNLOADING
Stored      == Resumable \cup {DOWNLOADING, COMPLETED}

Rest     == [pc |-> "wait", task |-> NULL, running |-> FALSE, asked |-> FALSE]
AtLoop   == [at |-> "loop", task |-> NULL, ctx |-> NULL]
At(p, t) == [at |-> p, task |-> t, ctx |-> NULL]

Torn == {t \in Tasks : life[t] = "torn"}
HasContext(w, t) == worker[w].task = t /\ worker[w].pc \in {"send", "transfer", "clear"}

\* The memory of a process that does not run.
NoProcess ==
  /\ app' = "down" /\ dialog' = "closed" /\ main' = AtLoop
  /\ life' = [t \in Tasks |-> "none"]
  /\ status' = [t \in Tasks |-> "Ready"]
  /\ handler' = [t \in Tasks |-> NULL]
  /\ size' = 0 /\ idle' = <<>> /\ queue' = <<>>
  /\ worker' = [w \in Workers |-> Rest]
  /\ stuck' = {}

Init ==
  /\ db = [t \in Tasks |-> "unused"]
  /\ app = "down" /\ dialog = "closed" /\ main = AtLoop
  /\ life = [t \in Tasks |-> "none"]
  /\ status = [t \in Tasks |-> "Ready"]
  /\ handler = [t \in Tasks |-> NULL]
  /\ size = 0 /\ idle = <<>> /\ queue = <<>>
  /\ worker = [w \in Workers |-> Rest]
  /\ stuck = {}

(* InitTaskList: a DownloadTask for every row.                             *)
Start ==
  /\ app = "down"
  /\ app' = "up"
  /\ life' = [t \in Tasks |-> IF db[t] \in Stored THEN "live" ELSE "none"]
  /\ status' = [t \in Tasks |-> IF db[t] \in Stored THEN db[t] ELSE "Ready"]
  /\ stuck' = {t \in Tasks : db[t] = DOWNLOADING}
  /\ UNCHANGED <<db, dialog, main, handler, size, idle, queue, worker>>

Crash == app # "down" /\ NoProcess /\ UNCHANGED db
-----------------------------------------------------------------------------
(* What the user does.  The new-task dialog is modal.                      *)
AtEase    == app = "up" /\ main.at = "loop" /\ dialog = "closed"
Listed(t) == life[t] = "live" /\ db[t] # "deleted"

ThreadPoolExecute(r) == queue' = Append(queue, r)

\* ResumeSelectedTask hands the request over and then sets the status.
ResumeSelectedTask(t) ==
  /\ AtEase /\ Listed(t) /\ status[t] \in Resumable
  /\ ThreadPoolExecute(t)
  /\ main' = At("resume", t)
  /\ UNCHANGED <<db, app, dialog, objects, idle, worker, stuck>>

PauseSelectedTask(t) ==
  /\ AtEase /\ Listed(t) /\ status[t] = DOWNLOADING
  /\ main' = At("cancel", t)
  /\ UNCHANGED <<db, app, dialog, objects, idle, queue, worker, stuck>>

\* free: what is under way for the task now works on freed memory.
DestroyDownloadTask(t, as) ==
  /\ life' = [life EXCEPT ![t] = as]
  /\ status' = [status EXCEPT ![t] = "Ready"]
  /\ handler' = [handler EXCEPT ![t] = NULL]

Cancellable(t) == handler[t] # NULL /\ status[t] = DOWNLOADING

CancelDownloadingAndDestroyTask(t) ==
  \/ /\ Cancellable(t)
     /\ status' = [status EXCEPT ![t] = REMOVING]
     /\ main' = At("cancel", t)
     /\ UNCHANGED <<life, handler, size>>
  \/ /\ ~Cancellable(t)
     /\ DestroyDownloadTask(t, IF status[t] = DOWNLOADING /\ t \notin stuck
                               THEN "torn" ELSE "none")
     /\ UNCHANGED <<main, size>>

RemoveSelectedTask(t) ==
  /\ AtEase /\ Listed(t)
  /\ db' = [db EXCEPT ![t] = "deleted"]
  /\ CancelDownloadingAndDestroyTask(t)
  /\ UNCHANGED <<app, dialog, idle, queue, worker, stuck>>

OpenNewTaskDialog ==
  /\ AtEase
  /\ dialog' = "open"
  /\ UNCHANGED <<db, app, main, objects, idle, queue, worker, stuck>>

OnConfirmCreateTask ==
  /\ app = "up" /\ dialog = "open"
  /\ dialog' = "busy"
  /\ ThreadPoolExecute(Info)
  /\ UNCHANGED <<db, app, main, objects, idle, worker, stuck>>

OnDialogDestroyed ==
  /\ app = "up" /\ dialog = "open"
  /\ dialog' = "closed"
  /\ UNCHANGED <<db, app, main, objects, idle, queue, worker, stuck>>

CloseWindow ==
  /\ AtEase
  /\ app' = "closing"
  /\ UNCHANGED <<db, dialog, main, objects, idle, queue, worker, stuck>>
-----------------------------------------------------------------------------
(* The main thread: the rest of a handler, callbacks, the end.             *)

\* UpdateDownloadTaskWithStatus
FinishedKeepsCount(t, s) ==
  /\ status[t] = REMOVING
  /\ db' = IF db[t] = "deleted" THEN db ELSE [db EXCEPT ![t] = s]
  /\ DestroyDownloadTask(t, "none")
  /\ UNCHANGED size
Finished(t, s) ==
  /\ status[t] = REMOVING
  /\ db' = IF db[t] = "deleted" THEN db ELSE [db EXCEPT ![t] = s]
  /\ size' = size - 1
  /\ DestroyDownloadTask(t, "none")

ChangedUnsaved(t, s) ==
  /\ status[t] \notin {REMOVING, s}
  /\ size' = size + (IF s = DOWNLOADING THEN 1 ELSE 0)
                  - (IF status[t] = DOWNLOADING THEN 1 ELSE 0)
  /\ status' = [status EXCEPT ![t] = s]
  /\ UNCHANGED <<db, life, handler>>

Changed(t, s) ==
  /\ status[t] \notin {REMOVING, s}
  /\ size' = size + (IF s = DOWNLOADING THEN 1 ELSE 0)
                  - (IF status[t] = DOWNLOADING THEN 1 ELSE 0)
  /\ status' = [status EXCEPT ![t] = s]
  /\ db' = [db EXCEPT ![t] = s]
  /\ UNCHANGED <<life, handler>>

UpdateDownloadTaskWithStatus(t, s) ==
  \/ Finished(t, s)
  \/ Changed(t, s)
  \/ status[t] = s /\ s # REMOVING /\ UNCHANGED <<db, objects>>

MarkDownloading ==
  /\ main.at = "resume"
  /\ UpdateDownloadTaskWithStatus(main.task, DOWNLOADING)
  /\ main' = AtLoop
  /\ UNCHANGED <<app, dialog, idle, queue, worker, stuck>>

\* CancelRequest gets the handler, looks whether it is NULL and stores through it.
ReadHandler ==
  /\ main.at = "cancel"
  /\ main' = IF handler[main.task] = NULL THEN AtLoop
             ELSE [at |-> "store", task |-> main.task, ctx |-> handler[main.task]]
  /\ UNCHANGED <<db, app, dialog, objects, idle, queue, worker, stuck>>

Stop(w, asked) == worker' = [worker EXCEPT ![w].running = FALSE, ![w].asked = asked]

CancelRequest ==
  /\ main.at = "store"
  /\ main' = AtLoop
  /\ IF HasContext(main.ctx, main.task) THEN Stop(main.ctx, TRUE)
     ELSE \/ UNCHANGED worker
          \/ \E w \in Workers, t \in Tasks : HasContext(w, t) /\ Stop(w, worker[w].asked)
  /\ UNCHANGED <<db, app, dialog, objects, idle, queue, stuck>>

\* A round of the main loop runs the callback posted first; a torn task's finds zeroes.
OnDownloadDone(t, s) ==
  IF life[t] = "live" THEN UpdateDownloadTaskWithStatus(t, s)
  ELSE UNCHANGED <<db, objects>>

\* Without a context, which is gone with the dialog, nothing is done.
OnTaskCreatedSuccessfully(t) ==
  IF dialog = "closed" THEN UNCHANGED <<db, objects, dialog>>
  ELSE /\ life' = [life EXCEPT ![t] = "live"]
       /\ status' = [status EXCEPT ![t] = "Ready"]
       /\ handler' = [handler EXCEPT ![t] = NULL]
       /\ dialog' = "closed"
       /\ UNCHANGED <<db, size>>

IdleCallback ==
  /\ app \in {"up", "waiting"} /\ main.at = "loop" /\ idle # <<>>
  /\ LET call == Head(idle) IN
       \/ /\ call.result = "created"
          /\ OnTaskCreatedSuccessfully(call.task)
       \/ /\ call.result = "failed"
          /\ dialog' = IF dialog = "closed" THEN dialog ELSE "open"
          /\ UNCHANGED <<db, objects>>
       \/ /\ call.result \in Stored
          /\ OnDownloadDone(call.task, call.result)
          /\ UNCHANGED dialog
  /\ idle' = Tail(idle)
  /\ UNCHANGED <<app, main, queue, worker, stuck>>

\* DestroyTaskList
CloseTask(t) ==
  /\ app = "closing" /\ main.at = "loop"
  /\ Listed(t) /\ status[t] # REMOVING
  /\ CancelDownloadingAndDestroyTask(t)
  /\ UNCHANGED <<db, app, dialog, idle, queue, worker, stuck>>

AllClosed ==
  /\ app = "closing" /\ main.at = "loop"
  /\ \A t \in Tasks : Listed(t) => status[t] = REMOVING
  /\ app' = "waiting"
  /\ UNCHANGED <<db, dialog, main, objects, idle, queue, worker, stuck>>

NothingAwaited == TRUE
NothingDownloads == size = 0
GtkMainQuit ==
  /\ app = "waiting" /\ main.at = "loop" /\ NothingDownloads
  /\ app' = "exiting" /\ queue' = <<>>      \* DestroyThreadPool drops what is queued
  /\ UNCHANGED <<db, dialog, main, objects, idle, worker, stuck>>

Exit ==
  /\ app = "exiting"
  /\ \A w \in Workers : worker[w] = Rest     \* and joins the workers
  /\ NoProcess
  /\ UNCHANGED db

MainStep ==
  MarkDownloading \/ ReadHandler \/ CancelRequest \/ AllClosed \/ GtkMainQuit \/ Exit
    \/ \E t \in Tasks : CloseTask(t)
-----------------------------------------------------------------------------
(* A worker.                                                               *)
PostUnlessPaused(result, t) ==
  idle' = IF result = "Paused" THEN idle ELSE Append(idle, [result |-> result, task |-> t])
Post(result, t) == idle' = Append(idle, [result |-> result, task |-> t])

Take(w) ==
  /\ worker[w].pc = "wait" /\ queue # <<>>
  /\ worker' = [worker EXCEPT ![w].pc = IF Head(queue) = Info THEN "info" ELSE "publish",
                              ![w].task = Head(queue)]
  /\ queue' = Tail(queue)
  /\ UNCHANGED <<db, app, dialog, main, objects, idle, stuck>>

\* DownloadFileInternal makes a context and publishes it in the task ...
Publish(w) ==
  LET t == worker[w].task IN
  /\ worker[w].pc = "publish" /\ life[t] = "live"
  /\ handler' = [handler EXCEPT ![t] = w]
  /\ worker' = [worker EXCEPT ![w].pc = "send"]
  /\ UNCHANGED <<db, app, dialog, main, life, status, size, idle, queue, stuck>>

\* ... of which it copies the url: a freed task has none, strdup(NULL) ends it all.
Die(w) ==
  /\ worker[w].pc = "publish" /\ life[worker[w].task] # "live"
  /\ NoProcess
  /\ UNCHANGED db

SendRequest(w) ==
  /\ worker[w].pc = "send"
  /\ worker' = [worker EXCEPT ![w].pc = "transfer", ![w].running = TRUE]
  /\ UNCHANGED <<db, app, dialog, main, objects, idle, queue, stuck>>

\* What curl_easy_perform may return; it cannot even start without a handle.
Results(w) ==
  (IF worker[w].pc = "transfer" THEN {COMPLETED} ELSE {})
    \cup {"Error"}
    \cup (IF worker[w].pc = "transfer" /\ ~worker[w].running THEN {"Paused"} ELSE {})

Finish(w) ==
  /\ worker[w].pc \in {"send", "transfer"}
  /\ \E result \in Results(w) : Post(result, worker[w].task)
  /\ worker' = [worker EXCEPT ![w].pc = "clear", ![w].running = FALSE]
  /\ UNCHANGED <<db, app, dialog, main, objects, queue, stuck>>

ClearForgotten(w) ==
  /\ worker[w].pc = "clear"
  /\ worker' = [worker EXCEPT ![w] = Rest]
  /\ UNCHANGED <<db, app, dialog, main, objects, idle, queue, stuck>>

\* The handler is reset after the callback was posted, then the context is freed.
ClearHandler(w) ==
  LET t == worker[w].task IN
  /\ worker[w].pc = "clear"
  /\ handler' = IF life[t] = "live" THEN [handler EXCEPT ![t] = NULL] ELSE handler
  /\ worker' = [worker EXCEPT ![w] = Rest]
  /\ UNCHANGED <<db, app, dialog, main, life, status, size, idle, queue, stuck>>

\* GetFileInfoInternal; the worker itself inserts the row.
InsertTaskInfo(w, t) ==
  /\ worker[w].pc = "info" /\ db[t] = "unused"
  /\ db' = [db EXCEPT ![t] = "Ready"]
  /\ Post("created", t)
  /\ worker' = [worker EXCEPT ![w] = Rest]
  /\ UNCHANGED <<app, dialog, main, objects, queue, stuck>>

GetFileInfoSilent(w) ==
  /\ worker[w].pc = "info"
  /\ worker' = [worker EXCEPT ![w] = Rest]
  /\ UNCHANGED <<db, app, dialog, main, objects, idle, queue, stuck>>

GetFileInfoFails(w) ==
  /\ worker[w].pc = "info"
  /\ Post("failed", NULL)
  /\ worker' = [worker EXCEPT ![w] = Rest]
  /\ UNCHANGED <<db, app, dialog, main, objects, queue, stuck>>

WorkerStep(w) ==
  \/ Take(w) \/ Publish(w) \/ Die(w) \/ SendRequest(w) \/ Finish(w) \/ ClearHandler(w)
  \/ GetFileInfoFails(w)
  \/ \E t \in Tasks : InsertTaskInfo(w, t)
-----------------------------------------------------------------------------
UserStep ==
  \/ \E t \in Tasks : ResumeSelectedTask(t) \/ PauseSelectedTask(t) \/ RemoveSelectedTask(t)
  \/ OpenNewTaskDialog \/ OnConfirmCreateTask \/ OnDialogDestroyed \/ CloseWindow

Next ==
  \/ Start \/ Crash \/ UserStep \/ MainStep \/ IdleCallback
  \/ \E w \in Workers : WorkerStep(w)

Spec == Init /\ [][Next]_vars

\* The main thread and the workers run and a transfer ends; a user leaves the main
\* loop a pause for an idle callback now and then.  Nobody has to start, use or close
\* the program, and nothing has to crash.
Fairness ==
  /\ WF_vars(MainStep) /\ SF_vars(IdleCallback)
  /\ \A w \in Workers : WF_vars(WorkerStep(w))
FairSpec == Spec /\ Fairness
-----------------------------------------------------------------------------
TypeOK ==
  /\ db \in [Tasks -> Stored \cup {"unused", "deleted"}]
  /\ app \in {"down", "up", "closing", "waiting", "exiting"}
  /\ dialog \in {"closed", "open", "busy"}
  /\ main \in [at : {"loop", "resume", "cancel", "store"},
               task : Tasks \cup {NULL}, ctx : Workers \cup {NULL}]
  /\ life \in [Tasks -> {"none", "live", "torn"}]
  /\ status \in [Tasks -> Stored \cup {REMOVING}]
  /\ handler \in [Tasks -> Workers \cup {NULL}]
  /\ size \in Int
  /\ idle \in Seq([result : Stored \cup {"created", "failed"}, task : Tasks \cup {NULL}])
  /\ queue \in Seq(Tasks \cup {Info})
  /\ worker \in [Workers -> [pc : {"wait", "info", "publish", "send", "transfer", "clear"},
                             task : Tasks \cup {Info, NULL},
                             running : BOOLEAN, asked : BOOLEAN]]
  /\ stuck \subseteq Tasks

\* The places a request for t can be in: queued, with a worker that has not posted
\* its result, or answered by a callback that has not run.
Requests(t) ==
  {<<"queue", i>> : i \in {i \in 1..Len(queue) : queue[i] = t}}
    \cup {<<"worker", w>> : w \in {w \in Workers :
            worker[w].task = t /\ worker[w].pc \in {"publish", "send", "transfer"}}}
    \cup {<<"idle", i>> : i \in {i \in 1..Len(idle) :
            idle[i].task = t /\ idle[i].result \in Stored}}
Downloading(t) ==
  /\ life[t] = "live" /\ t \notin stuck
  /\ \/ status[t] \in {DOWNLOADING, REMOVING}
     \/ main.at = "resume" /\ main.task = t

(* A task has one request under way while it downloads or is being        *)
(* removed, none otherwise: no resume starts a second transfer into the    *)
(* same file, no callback is left for a task that was freed, except for    *)
(* those that were torn from a request of theirs.                          *)
OneTransfer ==
  \A t \in Tasks :
    /\ Cardinality(Requests(t)) <= 1
    /\ life[t] # "torn" => (Requests(t) # {} <=> Downloading(t))

(* downloading_task_size counts the tasks under way, which is what the end *)
(* of the program waits for; those torn from their request are never       *)
(* given back.                                                             *)
CounterBalanced ==
  size = Cardinality({t \in Tasks : Downloading(t) /\ main # At("resume", t)})
           + Cardinality(Torn)

(* A published handler is a context that still exists and works for that   *)
(* very task, also while the last worker of the task has not yet reset it. *)
HandlerIsOwn ==
  \A t \in Tasks : life[t] = "live" /\ handler[t] # NULL => HasContext(handler[t], t)

(* The row of a task says what its object says; while an object waits for  *)
(* its last callback the row is gone or still says DOWNLOADING.            *)
RowFollowsTask ==
  \A t \in Tasks : life[t] = "live" =>
    db[t] \in (IF status[t] = REMOVING THEN {"deleted", DOWNLOADING} ELSE {status[t]})

(* A program that ends by itself leaves no row DOWNLOADING, which no later *)
(* session could resume, except one that was so when it started.           *)
CleanExit ==
  app = "exiting" => \A t \in Tasks : db[t] = DOWNLOADING => t \in stuck

(* Every download ends: its status leaves DOWNLOADING, or the process ends.*)
(* Not so for one that an earlier session left DOWNLOADING.                *)
DownloadEnds ==
  \A t \in Tasks :
    status[t] = DOWNLOADING /\ t \notin stuck ~> status[t] # DOWNLOADING

(* Closing the window ends the program, unless a task was torn from its    *)
(* request, which is then waited for in vain.                              *)
CloseEnds == app = "closing" ~> app = "down" \/ Torn # {}

(* The new-task dialog, which cannot be closed while it is busy, gets its  *)
(* answer even when all workers are downloading.                           *)
DialogAnswered == dialog = "busy" ~> dialog # "busy"

(* http_manager.h:35, of is_running: "use this to pause downloading": a    *)
(* context that was told to stop is not running.                           *)
PauseIsHeeded ==
  \A w \in Workers : worker[w].pc = "transfer" /\ worker[w].asked => ~worker[w].running
=============================================================================

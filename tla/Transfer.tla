------------------------------ MODULE Transfer ------------------------------
(***************************************************************************)
(* What one download of wget-gui leaves on disk: its file, the progress in *)
(* the task and in the database row, and the next request that starts from *)
(* that progress.  Written from http_manager.c, request_api.c, task_info.c,*)
(* sqlite_manager.c and ui_download_task.c.  How requests, callbacks and   *)
(* threads overlap is in Download; here they follow one another.           *)
(*                                                                         *)
(* A file is a sequence of units: n is the n-th unit of the resource, Page *)
(* a unit of an error page.                                                *)
(***************************************************************************)
EXTENDS Integers, Sequences

CONSTANTS
  Lengths,    \* how long the resource may be, in units
  IntBits,    \* bits of an int, which is what parameters marked $d are fetched as
  MaxFile     \* bound: units in the file

Page    == 0
NoTask  == [status |-> "none", size |-> 0, progress |-> 0]
Nothing == [pc |-> "none", start |-> 0, code |-> 0, total |-> 0, now |-> 0,
            opened |-> FALSE, running |-> FALSE, result |-> "none"]
DOWNLOADING == "Downloading"
Resumable   == {"Error", "Ready", "Paused"}

VARIABLES
  resource,   \* on the server: length, whether it serves ranges and tells lengths
  row,        \* the task_info row; NoTask if there is none
  task,       \* task_info of the DownloadTask; NoTask also while the program is down
  transfer,   \* the RequestContext and what curl knows of the response
  file,       \* the output file
  spoiled     \* history: why the file may have lost its way

transferVars == <<resource, row, task, transfer, file, spoiled>>

Init ==
  /\ resource \in [length : Lengths, ranges : BOOLEAN, known : BOOLEAN]
  /\ row = NoTask /\ task = NoTask /\ transfer = Nothing
  /\ file = <<>> /\ spoiled = {}

\* va_arg(args, int) of a 64-bit argument.
AsInt(n) ==
  LET low == n % 2^IntBits IN IF low < 2^(IntBits - 1) THEN low ELSE low - 2^IntBits
-----------------------------------------------------------------------------
(* The user and the program around a transfer.                             *)

\* GetFileInfoInternal and InsertTaskInfo: the row gets what the bindings leave of the
\* size.  A file of that name may be there already.
AddTask ==
  /\ row = NoTask
  /\ LET size == IF resource.known THEN resource.length ELSE -1 IN
       /\ task' = [status |-> "Ready", size |-> size, progress |-> 0]
       /\ row' = [task' EXCEPT !.size = AsInt(size)]
  /\ spoiled' = IF file = <<>> THEN {} ELSE {"old"}
  /\ UNCHANGED <<resource, transfer, file>>

\* UpdateTaskInfo
Saved(t) == [row EXCEPT !.status = t.status, !.progress = AsInt(t.progress)]

\* DownloadFileInternal asks for what follows the progress, of a server with ranges.
Resume ==
  /\ task.status \in Resumable
  /\ task' = [task EXCEPT !.status = DOWNLOADING]
  /\ row' = Saved(task')
  /\ transfer' = [Nothing EXCEPT !.pc = "send",
                                 !.start = IF resource.ranges THEN task.progress ELSE -1]
  /\ UNCHANGED <<resource, file, spoiled>>

Pause ==
  /\ transfer.pc = "body"
  /\ transfer' = [transfer EXCEPT !.running = FALSE]
  /\ UNCHANGED <<resource, row, task, file, spoiled>>

\* OnDownloadCompleted, OnDownloadCancelled, OnDownloadFailed
Callback ==
  /\ transfer.pc = "done"
  /\ task' = [task EXCEPT !.status = transfer.result]
  /\ row' = Saved(task')
  /\ transfer' = Nothing
  /\ UNCHANGED <<resource, file, spoiled>>

\* The row goes, the file stays.
RemoveSelectedTask ==
  /\ task # NoTask /\ transfer.pc = "none"
  /\ row' = NoTask /\ task' = NoTask
  /\ UNCHANGED <<resource, transfer, file, spoiled>>

\* The process dies, and with it what stdio still holds of this transfer.
Crash ==
  /\ task # NoTask
  /\ task' = NoTask /\ transfer' = Nothing
  /\ \E lost \in 0..transfer.now : file' = SubSeq(file, 1, Len(file) - lost)
  /\ UNCHANGED <<resource, row, spoiled>>

\* ListTaskInfos and CreateDownloadTask
Start ==
  /\ row # NoTask /\ task = NoTask
  /\ task' = row
  /\ UNCHANGED <<resource, row, transfer, file, spoiled>>
-----------------------------------------------------------------------------
(* SendRequest and what curl calls meanwhile.                              *)

\* The Range header names the units from start; a server may serve them, or all of
\* them, or an error, with a page or without.
Codes ==
  {200, 404} \cup (IF resource.ranges /\ transfer.start \in 0..resource.length - 1
                   THEN {206} ELSE {})
Body == CASE transfer.code = 206 -> resource.length - transfer.start
          [] transfer.code = 200 -> resource.length
          [] OTHER -> transfer.total

Answer ==
  /\ transfer.pc = "send"
  /\ \E code \in Codes :
       LET answered == [transfer EXCEPT !.pc = "body", !.code = code, !.running = TRUE]
           length   == IF code = 206 THEN resource.length - transfer.start ELSE resource.length
       IN IF code = 404
          THEN \E page \in {0, 1} : transfer' = [answered EXCEPT !.total = page]
          ELSE transfer' = [answered EXCEPT !.total = IF resource.known THEN length ELSE 0]
  /\ UNCHANGED <<resource, row, task, file, spoiled>>

\* CurlBodyFunction opens the file with the first unit: "ab" for 206, "wb" otherwise.
OpenedAppending == file
Opened == IF transfer.opened \/ transfer.code = 206 THEN file ELSE <<>>
Starts == ~transfer.opened /\ transfer.code # 206

Unit ==
  IF transfer.code = 404 THEN Page
  ELSE transfer.now + 1 + (IF transfer.code = 206 THEN transfer.start ELSE 0)

\* CurlProgressFunction reports when it knows the length and the response code, which
\* is set with the first unit; OnProgressUpdated adds what was there before.
Reports(tr) == tr.total > 0 /\ tr.opened
OnProgressUpdated(tr) == tr.now + task.size - tr.total

CurlBodyFunction ==
  /\ transfer.pc = "body" /\ transfer.now < Body
  /\ Len(file) < MaxFile
  /\ transfer' = [transfer EXCEPT !.now = @ + 1, !.opened = TRUE]
  /\ task' = IF Reports(transfer')
             THEN [task EXCEPT !.progress = OnProgressUpdated(transfer')] ELSE task
  /\ \/ /\ file' = Append(Opened, Unit)
        /\ spoiled' = IF transfer.code = 404 THEN {"page"} ELSE IF Starts THEN {} ELSE spoiled
     \/ /\ file' = Opened          \* fwrite fails, and nobody looks
        /\ spoiled' = spoiled \cup {"disk"}
  /\ UNCHANGED <<resource, row>>

Done(result, doubts) ==
  /\ transfer' = [transfer EXCEPT !.pc = "done", !.result = result]
  /\ spoiled' = spoiled \cup doubts
  /\ UNCHANGED <<resource, row, task, file>>

\* The progress function of a context that was told to stop aborts, also when it is
\* called for the last time, after the last unit.
Abort ==
  /\ transfer.pc = "body" /\ ~transfer.running /\ Reports(transfer)
  /\ Done("Paused", {})

Complete ==
  /\ transfer.pc = "body" /\ transfer.now = Body
  /\ transfer.running \/ ~Reports(transfer)
  /\ Done(IF transfer.code = 404 THEN "Error" ELSE "Completed", {})

\* No connection, or it breaks.  Where no length is told, its end may be that of the body:
\* curl then returns CURLE_OK, and the response code decides.
Break ==
  \/ transfer.pc \in {"send", "body"} /\ Done("Error", {})
  \/ /\ transfer.pc = "body" /\ transfer.code # 404
     /\ ~resource.known /\ transfer.now < Body
     /\ Done("Completed", {"short"})

Next ==
  \/ AddTask \/ Resume \/ Pause \/ Callback \/ RemoveSelectedTask \/ Crash \/ Start
  \/ Answer \/ CurlBodyFunction \/ Abort \/ Complete \/ Break

Spec == Init /\ [][Next]_transferVars
-----------------------------------------------------------------------------
\* The file was begun by this task, got every unit that came and no error page since, and
\* its length is told, or nothing depends on it, and is one whose low bits tell it apart.
Intact ==
  /\ spoiled \subseteq {"short"}
  /\ resource.known \/ ~resource.ranges
  /\ resource.length < 2^IntBits

(* Between two transfers the file holds the units up to the progress that  *)
(* the next request will start from, in the task and in the row, however   *)
(* often it was paused, broken off, closed or restarted; also for a length *)
(* or a progress that the int of the bindings makes negative, which starts *)
(* the file anew.  When the task is completed the file holds all units,    *)
(* unless no length was told and the connection ended early: then it holds *)
(* the first of them, and the task is completed all the same.              *)
FileFollowsProgress ==
  Intact /\ transfer.pc = "none" =>
    /\ file = [n \in 1..Len(file) |-> n]
    /\ \A t \in {row, task} \ {NoTask} :
         /\ resource.ranges /\ t.status # DOWNLOADING /\ t.progress >= 0 => t.progress = Len(file)
         /\ t.status = "Completed" => Len(file) = resource.length \/ "short" \in spoiled
=============================================================================

----------------------------- MODULE TaskRunner -----------------------------
(* BoundedTaskRunner of src/app.py: one worker thread takes task ids from a  *)
(* queue and runs their target functions, HTTP threads enqueue and cancel.   *)
(*                                                                           *)
(* enqueue_task and cancel_task hold the runner's lock from beginning to     *)
(* end; the worker takes it only around its own bookkeeping.  A target       *)
(* function runs WITHOUT the lock, although run_media_download_job writes    *)
(* the very status and stage that cancel_task writes.  Saving a task reads   *)
(* its fields first and waits for DB_LOCK then, so a save is two steps; and  *)
(* _save_task_to_db passes over every exception, so any save may be lost.    *)
(*                                                                           *)
(* Two kinds of job stand for all of them: "download" (yt-dlp in a child     *)
(* process, cancellable) and "backup" (a job that never looks at its status, *)
(* as every scheduled job).  Permission checks, progress, logs, and the wall *)
(* clock are left out: they change none of the state below.  Removing a file *)
(* that exists succeeds, and the lines of yt-dlp can be decoded.             *)
EXTENDS Naturals, Sequences, FiniteSets

CONSTANTS
    Tasks,      \* the calls of enqueue_task that get an id
    Downloads,  \* those whose target is run_media_download_job; others back up
    NoTask,     \* the worker, or the canceller, has no task at hand
    Strays,     \* what else lies in a destination: "fit" a file the check of the
                \* output takes, "empty" one it takes by its name only to refuse it
    MaxFaults   \* bound on restarts of the process and lost saves, together

ASSUME TasksAssumption ==
    /\ Downloads \subseteq Tasks
    /\ NoTask \notin Tasks
    /\ Strays \subseteq {"fit", "empty"}
    /\ MaxFaults \in Nat

VARIABLES
    mem,        \* self.tasks: status, stage and "started_at is set" of each task
    db,         \* the background_tasks rows, with the same three fields
    lost,       \* the tasks in memory whose latest save was lost
    queue,      \* self.task_queue
    worker,     \* the worker: pc, its task, the save in progress, where to resume
    cancel,     \* the thread inside cancel_task: pc, its task, the save in progress
    proc,       \* the yt-dlp child process of a task
    handle,     \* the tasks whose task['process'] is set
    file,       \* what the task left on the disk: its unfinished .part files, its
                \* finished streams, its output, or (a backup) its archive
    backups,    \* the tasks with a 'completed' row in the table backups
    accepted,   \* the tasks in memory whose cancellation was answered with success
    broken,     \* the tasks whose cancellation ended in an exception
    promised,   \* the calls told that they "will start when memory recovers"
    faults      \* the restarts and the lost saves so far

rows == <<db, lost, faults>>
outside == <<proc, handle, file, backups>>
history == <<accepted, broken, promised>>
vars == <<mem, rows, queue, worker, cancel, outside, history>>

Terminal == {"COMPLETED", "FAILED", "CANCELLED"}
Cancelled == {"CANCELLED", "CANCELLING"}
Statuses == {"NONE", "QUEUED", "STARTING", "RUNNING"} \cup Terminal \cup Cancelled
Stages == Statuses \cup {"DOWNLOADING", "POST_PROCESSING", "VERIFYING"}
Records == [status : Statuses, stage : Stages, started : BOOLEAN]

Absent == [status |-> "NONE", stage |-> "NONE", started |-> FALSE]

Files == {"part", "stream", "output", "archive"}
Whole == {"stream", "output"}

WorkerSteps == {"idle", "taken", "save", "begin", "spawn", "keep", "read", "line",
                "verify", "check", "zip", "hash", "record", "return", "raise", "finally"}
CancelSteps == {"idle", "save", "kill", "clean", "end", "save_last"}

Idle == [pc |-> "idle", task |-> NoTask, snap |-> Absent, ret |-> "idle"]
NoCancel == [pc |-> "idle", task |-> NoTask, snap |-> Absent]

(* The runner's lock is held exactly while a thread is inside cancel_task;   *)
(* every other critical section is one step.                                 *)
LockFree == cancel.pc = "idle"

(* The row that _save_task_to_db writes over row r: started_at is coalesced. *)
Saved(snap, r) == [snap EXCEPT !.started = @ \/ r.started]

(* _save_task_to_db: the row is written, or the exception is passed over.    *)
Save(t, snap) ==
    \/ /\ db' = [db EXCEPT ![t] = Saved(snap, @)]
       /\ lost' = lost \ {t}
       /\ UNCHANGED faults
    \/ /\ faults < MaxFaults /\ faults' = faults + 1
       /\ lost' = lost \cup {t}
       /\ UNCHANGED db

(* A variant that stands for a plausible slip; no behaviour uses it: nothing *)
(* is removed.                                                               *)
Slip_KeepsPartials(t) == UNCHANGED file

(* _cleanup_partial_files: a backup's archive, which is registered as        *)
(* partial from the start; the *.part files in a download's destination,     *)
(* which may be other downloads' too, but no finished stream.                *)
CleanUp(t) ==
    IF t \in Downloads
    THEN \E others \in SUBSET (Downloads \ {t}) :
           file' = [u \in Tasks |-> IF u \in others \cup {t} THEN file[u] \ {"part"}
                                                            ELSE file[u]]
    ELSE file' = [file EXCEPT ![t] = {}]

(* terminate_process_tree. *)
Killed(t) == IF proc[t] = "running" THEN "failed" ELSE proc[t]

(* A call that was not made, or that left no trace: all its saves were lost  *)
(* and a restart forgot the rest.                                            *)
Unused(t) ==
    /\ t \notin promised
    /\ mem[t] = Absent /\ db[t] = Absent
    /\ proc[t] = "none" /\ file[t] = {} /\ t \notin backups

-----------------------------------------------------------------------------
(* Variants that stand for plausible slips in the code; no behaviour uses them. *)

Slip_StartUnchecked ==
    /\ worker.pc = "taken" /\ LockFree
    /\ mem' = [mem EXCEPT ![worker.task] =
                 [status |-> "STARTING", stage |-> "STARTING", started |-> TRUE]]
    /\ Save(worker.task, mem'[worker.task])
    /\ worker' = [worker EXCEPT !.pc = IF worker.task \in Downloads THEN "begin" ELSE "zip"]
    /\ UNCHANGED <<queue, cancel, outside, history>>

Slip_FinallyUnsaved ==
    /\ worker.pc = "finally" /\ LockFree
    /\ worker' = Idle
    /\ UNCHANGED <<mem, rows, queue, cancel, outside, history>>

Slip_ReturnUnchecked ==
    /\ worker.pc = "return" /\ LockFree
    /\ mem' = [mem EXCEPT ![worker.task].status = "COMPLETED",
                          ![worker.task].stage = "COMPLETED"]
    /\ Save(worker.task, mem'[worker.task])
    /\ worker' = [worker EXCEPT !.pc = "finally"]
    /\ UNCHANGED <<queue, cancel, outside, history>>

(* The status is spelt as the tests of the runner spell it. *)
Slip_EnqueueLower(t) ==
    /\ LockFree
    /\ Unused(t)
    /\ mem' = [mem EXCEPT ![t].status = "queued", ![t].stage = "queued"]
    /\ Save(t, mem'[t])
    /\ queue' = Append(queue, t)
    /\ UNCHANGED <<worker, cancel, outside, history>>

(* cancel_task returns without releasing the lock. *)
Slip_LockKept ==
    /\ cancel.pc = "save_last"
    /\ Save(cancel.task, cancel.snap)
    /\ accepted' = accepted \cup {cancel.task}
    /\ cancel' = [cancel EXCEPT !.pc = "kept"]
    /\ UNCHANGED <<mem, queue, worker, outside, broken, promised>>

-----------------------------------------------------------------------------
(* enqueue_task. *)

(* The governor allows the task: record, row and queue entry are made under  *)
(* the lock.                                                                 *)
Enqueue(t) ==
    /\ LockFree
    /\ Unused(t)
    /\ mem' = [mem EXCEPT ![t].status = "QUEUED", ![t].stage = "QUEUED"]
    /\ Save(t, mem'[t])
    /\ queue' = Append(queue, t)
    /\ UNCHANGED <<worker, cancel, outside, history>>

(* The governor reports RAM under pressure: the caller is told that the      *)
(* operation was queued and nothing else happens.  (A critical verdict is a  *)
(* plain rejection and changes nothing.)                                     *)
RefuseUnderPressure(t) ==
    /\ Unused(t)
    /\ promised' = promised \cup {t}
    /\ UNCHANGED <<mem, rows, queue, worker, cancel, outside, accepted, broken>>

-----------------------------------------------------------------------------
(* cancel_task: all of it under the lock. *)

CancelQueued(t) ==
    /\ LockFree
    /\ mem[t].status = "QUEUED"
    /\ mem' = [mem EXCEPT ![t].status = "CANCELLED", ![t].stage = "CANCELLED"]
    /\ Save(t, mem'[t])
    /\ accepted' = accepted \cup {t}
    /\ UNCHANGED <<queue, worker, cancel, outside, broken, promised>>

CancelActive(t) ==
    /\ LockFree
    /\ mem[t].status \notin Terminal \cup {"NONE", "QUEUED"}
    /\ mem' = [mem EXCEPT ![t].status = "CANCELLING", ![t].stage = "CANCELLING"]
    /\ cancel' = [pc |-> "save", task |-> t, snap |-> mem'[t]]
    /\ UNCHANGED <<rows, queue, worker, outside, history>>

CancelSave ==
    /\ cancel.pc = "save"
    /\ Save(cancel.task, cancel.snap)
    /\ cancel' = [cancel EXCEPT !.pc = "kill", !.snap = Absent]
    /\ UNCHANGED <<mem, queue, worker, outside, history>>

CancelKill ==
    /\ cancel.pc = "kill"
    /\ proc' = IF cancel.task \in handle
               THEN [proc EXCEPT ![cancel.task] = Killed(cancel.task)] ELSE proc
    /\ cancel' = [cancel EXCEPT !.pc = "clean"]
    /\ UNCHANGED <<mem, rows, queue, worker, handle, file, backups, history>>

CancelClean ==
    /\ cancel.pc = "clean"
    /\ CleanUp(cancel.task)
    /\ cancel' = [cancel EXCEPT !.pc = "end"]
    /\ UNCHANGED <<mem, rows, queue, worker, proc, handle, backups, history>>

CancelEnd ==
    /\ cancel.pc = "end"
    /\ mem' = [mem EXCEPT ![cancel.task].status = "CANCELLED",
                          ![cancel.task].stage = "CANCELLED"]
    /\ cancel' = [cancel EXCEPT !.pc = "save_last", !.snap = mem'[cancel.task]]
    /\ UNCHANGED <<rows, queue, worker, outside, history>>

CancelReturn ==
    /\ cancel.pc = "save_last"
    /\ Save(cancel.task, cancel.snap)
    /\ accepted' = accepted \cup {cancel.task}
    /\ cancel' = NoCancel
    /\ UNCHANGED <<mem, queue, worker, outside, broken, promised>>

(* A task known only from its row (after a restart): the loaded dictionary   *)
(* has its logs as JSON text, and appending to it raises before any save.    *)
CancelLoaded(t) ==
    /\ LockFree
    /\ mem[t] = Absent
    /\ db[t].status \notin Terminal \cup {"NONE"}
    /\ broken' = broken \cup {t}
    /\ UNCHANGED <<mem, rows, queue, worker, cancel, outside, accepted, promised>>

-----------------------------------------------------------------------------
(* _worker_loop. *)

Take ==
    /\ worker.pc = "idle"
    /\ queue # <<>>
    /\ worker' = [Idle EXCEPT !.pc = "taken", !.task = Head(queue)]
    /\ queue' = Tail(queue)
    /\ UNCHANGED <<mem, rows, cancel, outside, history>>

Skip ==
    /\ worker.pc = "taken" /\ LockFree
    /\ mem[worker.task].status = "CANCELLED"
    /\ worker' = Idle
    /\ UNCHANGED <<mem, rows, queue, cancel, outside, history>>

Start ==
    /\ worker.pc = "taken" /\ LockFree
    /\ mem[worker.task].status # "CANCELLED"
    /\ mem' = [mem EXCEPT ![worker.task] =
                 [status |-> "STARTING", stage |-> "STARTING", started |-> TRUE]]
    /\ Save(worker.task, mem'[worker.task])
    /\ worker' = [worker EXCEPT !.pc = IF worker.task \in Downloads THEN "begin" ELSE "zip"]
    /\ UNCHANGED <<queue, cancel, outside, history>>

(* The target returned: completed, unless it was cancelled meanwhile. *)
ReturnJob ==
    /\ worker.pc = "return" /\ LockFree
    /\ IF mem[worker.task].status \in Cancelled
       THEN UNCHANGED <<mem, rows>>
       ELSE /\ mem' = [mem EXCEPT ![worker.task].status = "COMPLETED",
                                  ![worker.task].stage = "COMPLETED"]
            /\ Save(worker.task, mem'[worker.task])
    /\ worker' = [worker EXCEPT !.pc = "finally"]
    /\ UNCHANGED <<queue, cancel, outside, history>>

(* The target raised: failed and cleaned up, unless it was cancelled. *)
RaiseJob ==
    /\ worker.pc = "raise" /\ LockFree
    /\ IF mem[worker.task].status \in Cancelled
       THEN UNCHANGED <<mem, rows, file>>
       ELSE /\ mem' = [mem EXCEPT ![worker.task].status = "FAILED",
                                  ![worker.task].stage = "FAILED"]
            /\ CleanUp(worker.task)
            /\ Save(worker.task, mem'[worker.task])
    /\ worker' = [worker EXCEPT !.pc = "finally"]
    /\ UNCHANGED <<queue, cancel, proc, handle, backups, history>>

(* The finally clause saves whatever the record says by now. *)
Finally ==
    /\ worker.pc = "finally" /\ LockFree
    /\ Save(worker.task, mem[worker.task])
    /\ worker' = Idle
    /\ UNCHANGED <<mem, queue, cancel, outside, history>>

(* A save made by a target function, outside the lock. *)
JobSave ==
    /\ worker.pc = "save"
    /\ Save(worker.task, worker.snap)
    /\ worker' = [Idle EXCEPT !.pc = worker.ret, !.task = worker.task]
    /\ UNCHANGED <<mem, queue, cancel, outside, history>>

-----------------------------------------------------------------------------
(* run_media_download_job. *)

Goto(step) == worker' = [worker EXCEPT !.pc = step]

SaveThen(next) ==
    worker' = [worker EXCEPT !.pc = "save", !.snap = mem'[worker.task], !.ret = next]

(* A destination that cannot be made raises before the save. *)
Begin ==
    /\ worker.pc = "begin"
    /\ mem' = [mem EXCEPT ![worker.task].status = "RUNNING", ![worker.task].stage = "STARTING"]
    /\ SaveThen("spawn") \/ Goto("raise")
    /\ UNCHANGED <<rows, queue, cancel, outside, history>>

(* Popen raises if there is no yt-dlp. *)
Spawn ==
    /\ worker.pc = "spawn"
    /\ \/ proc' = [proc EXCEPT ![worker.task] = "running"] /\ Goto("keep")
       \/ Goto("raise") /\ UNCHANGED proc
    /\ UNCHANGED <<mem, rows, queue, cancel, handle, file, backups, history>>

(* Only now can cancel_task find the process. *)
KeepHandle ==
    /\ worker.pc = "keep"
    /\ handle' = handle \cup {worker.task}
    /\ mem' = [mem EXCEPT ![worker.task].stage = "DOWNLOADING"]
    /\ SaveThen("read")
    /\ UNCHANGED <<rows, queue, cancel, proc, file, backups, history>>

(* A line of output: the status is looked at first. *)
ReadLine ==
    /\ worker.pc = "read"
    /\ proc[worker.task] = "running"
    /\ IF mem[worker.task].status \in Cancelled
       THEN /\ proc' = [proc EXCEPT ![worker.task] = Killed(worker.task)]
            /\ UNCHANGED worker
       ELSE Goto("line") /\ UNCHANGED proc
    /\ UNCHANGED <<mem, rows, queue, cancel, handle, file, backups, history>>

(* Post-processing is saved at once, the rest of the progress now and then. *)
UseLine ==
    /\ worker.pc = "line"
    /\ \E stage \in {"DOWNLOADING", "POST_PROCESSING"} :
         mem' = [mem EXCEPT ![worker.task].stage = stage]
    /\ \/ SaveThen("read")
       \/ /\ mem'[worker.task].stage = "DOWNLOADING"
          /\ Goto("read")
    /\ UNCHANGED <<rows, queue, cancel, outside, history>>

(* The output ended and the process was waited for. *)
Waited ==
    /\ worker.pc = "read"
    /\ proc[worker.task] # "running"
    /\ Goto(IF mem[worker.task].status \in Cancelled THEN "return"
            ELSE IF proc[worker.task] = "failed" THEN "raise" ELSE "verify")
    /\ UNCHANGED <<mem, rows, queue, cancel, outside, history>>

Verify ==
    /\ worker.pc = "verify"
    /\ mem' = [mem EXCEPT ![worker.task].stage = "VERIFYING"]
    /\ SaveThen("check")
    /\ UNCHANGED <<rows, queue, cancel, outside, history>>

(* A finished file is looked for among those of the destination: the own     *)
(* output is young enough, anybody else's may be or may fit the custom name. *)
(* What is found need not be the task's own, and the status is not looked at *)
(* again.                                                                    *)
CheckOutput ==
    /\ worker.pc = "check"
    /\ \/ /\ "fit" \in Strays \/ \E u \in Downloads : file[u] \cap Whole # {}
          /\ mem' = [mem EXCEPT ![worker.task].status = "COMPLETED",
                                ![worker.task].stage = "COMPLETED"]
          /\ SaveThen("return")
       \/ /\ "empty" \in Strays \/ file[worker.task] \cap Whole = {}
          /\ Goto("raise")
          /\ UNCHANGED mem
    /\ UNCHANGED <<rows, queue, cancel, outside, history>>

(* The child process writes a .part file, or finishes one: of two streams    *)
(* that it merges in the end, or of the one whose sound it extracts.         *)
Progress(t) ==
    /\ proc[t] = "running"
    /\ \/ /\ "part" \notin file[t]
          /\ file' = [file EXCEPT ![t] = @ \cup {"part"}]
       \/ /\ "part" \in file[t]
          /\ file' = [file EXCEPT ![t] = (@ \ {"part"}) \cup {"stream"}]
    /\ UNCHANGED <<mem, rows, queue, worker, cancel, proc, handle, backups, history>>

(* It exits with its output alone, or with what it has written by then; when *)
(* it fails (a later stream, the merger, the extraction), streams stay.      *)
Exit(t) ==
    /\ proc[t] = "running"
    /\ \/ /\ proc' = [proc EXCEPT ![t] = "ok"]
          /\ \E f \in {{"output"}, file[t]} : file' = [file EXCEPT ![t] = f]
       \/ /\ proc' = [proc EXCEPT ![t] = "failed"]
          /\ UNCHANGED file
    /\ UNCHANGED <<mem, rows, queue, worker, cancel, handle, backups, history>>

-----------------------------------------------------------------------------
(* run_backup_job: it never looks at the task's status. *)

Zip ==
    /\ worker.pc = "zip"
    /\ \/ /\ file' = [file EXCEPT ![worker.task] = {"archive"}]
          /\ \E step \in {"hash", "raise"} : Goto(step)
       \/ Goto("raise") /\ UNCHANGED file  \* not enough disk space
    /\ UNCHANGED <<mem, rows, queue, cancel, proc, handle, backups, history>>

Hash ==
    /\ worker.pc = "hash"
    /\ Goto(IF file[worker.task] = {} THEN "raise" ELSE "record")
    /\ UNCHANGED <<mem, rows, queue, cancel, outside, history>>

RecordBackup ==
    /\ worker.pc = "record"
    /\ backups' = backups \cup {worker.task}
    /\ worker' = [worker EXCEPT !.pc = "return"]
    /\ UNCHANGED <<mem, rows, queue, cancel, proc, handle, file, history>>

-----------------------------------------------------------------------------
(* The process ends and starts again: memory, queue and threads are gone;    *)
(* rows, files and the yt-dlp child (a session leader of its own) stay.      *)
Restart ==
    /\ faults < MaxFaults
    /\ faults' = faults + 1
    /\ mem' = [t \in Tasks |-> Absent]
    /\ queue' = <<>>
    /\ worker' = Idle
    /\ cancel' = NoCancel
    /\ handle' = {} /\ lost' = {} /\ accepted' = {}
    /\ UNCHANGED <<db, proc, file, backups, broken, promised>>

-----------------------------------------------------------------------------
Init ==
    /\ mem = [t \in Tasks |-> Absent]
    /\ db = [t \in Tasks |-> Absent] /\ lost = {}
    /\ queue = <<>>
    /\ worker = Idle
    /\ cancel = NoCancel
    /\ proc = [t \in Tasks |-> "none"]
    /\ handle = {}
    /\ file = [t \in Tasks |-> {}]
    /\ backups = {} /\ accepted = {} /\ broken = {} /\ promised = {}
    /\ faults = 0

Canceller == CancelSave \/ CancelKill \/ CancelClean \/ CancelEnd \/ CancelReturn

Download ==
    \/ Begin \/ Spawn \/ KeepHandle \/ ReadLine \/ UseLine
    \/ Waited \/ Verify \/ CheckOutput

Backup == Zip \/ Hash \/ RecordBackup

Worker ==
    \/ Take \/ Skip \/ Start \/ JobSave \/ ReturnJob \/ RaiseJob \/ Finally
    \/ Download \/ Backup

Next ==
    \/ \E t \in Tasks : \/ Enqueue(t) \/ RefuseUnderPressure(t)
                        \/ CancelQueued(t) \/ CancelActive(t) \/ CancelLoaded(t)
                        \/ Progress(t) \/ Exit(t)
    \/ Canceller
    \/ Worker
    \/ Restart

Spec == Init /\ [][Next]_vars

(* The worker thread and a thread inside cancel_task are scheduled; yt-dlp,  *)
(* whose connections time out, exits in the end.  Nobody has to enqueue,     *)
(* cancel or restart.                                                        *)
FairSpec ==
    /\ Spec
    /\ WF_vars(Worker)
    /\ WF_vars(Canceller)
    /\ \A t \in Tasks : WF_vars(Exit(t))

-----------------------------------------------------------------------------
(* Every variable keeps its type: what the runner, its rows and the jobs     *)
(* write are statuses and stages of the documented lifecycle.                *)
TypeOK ==
    /\ mem \in [Tasks -> Records]
    /\ db \in [Tasks -> Records] /\ lost \subseteq Tasks
    /\ queue \in Seq(Tasks)
    /\ worker \in [pc : WorkerSteps, task : Tasks \cup {NoTask},
                    snap : Records, ret : WorkerSteps]
    /\ cancel \in [pc : CancelSteps, task : Tasks \cup {NoTask}, snap : Records]
    /\ proc \in [Tasks -> {"none", "running", "ok", "failed"}]
    /\ handle \subseteq Tasks
    /\ file \in [Tasks -> SUBSET Files]
    /\ backups \subseteq Tasks /\ accepted \subseteq Tasks
    /\ broken \subseteq Tasks /\ promised \subseteq Tasks
    /\ faults \in 0 .. MaxFaults

(* A task cancelled before it started never starts, even if the worker had   *)
(* taken its id from the queue already: _worker_loop and cancel_task decide  *)
(* under the lock.                                                           *)
QueuedCancelHolds ==
    [][\A t \in Tasks : mem[t].status = "CANCELLED" /\ ~mem[t].started
                          => mem'[t] \in {mem[t], Absent}]_vars

(* Between jobs, with nobody cancelling, the row of every task the runner    *)
(* knows says what memory says, although saves of the job and of cancel_task *)
(* may have been written in either order ("authoritative SQLite              *)
(* persistence"); unless the latest save of the task was lost.               *)
RowsSettle ==
    worker.pc = "idle" /\ LockFree
        => \A t \in Tasks : mem[t] # Absent /\ t \notin lost => db[t] = mem[t]

(* A task recorded as completed went well: its yt-dlp exited with success,   *)
(* or its archive is there with its row in the table backups.  Restarts,     *)
(* lost saves and cancellations at any step do not change that.              *)
CompletedWentWell ==
    \A t \in Tasks : db[t].status = "COMPLETED"
        => IF t \in Downloads THEN proc[t] = "ok"
                              ELSE file[t] = {"archive"} /\ t \in backups

(* A task that failed leaves no partial file, no archive and no row in       *)
(* backups, and its process is gone.  Streams that yt-dlp has finished stay. *)
FailedLeavesNoPartial ==
    \A t \in Tasks : mem[t].status = "FAILED"
        => /\ proc[t] # "running" /\ t \notin backups
           /\ file[t] \subseteq Whole

(* A queued task ends: completed, failed or cancelled, whoever cancels       *)
(* whatever meanwhile; or a restart forgets it.                              *)
EveryTaskEnds ==
    \A t \in Tasks : mem[t].status = "QUEUED" ~> mem[t].status \in Terminal \cup {"NONE"}

(* A cancellation that was answered "Task cancelled successfully." stays:    *)
(* the task does not run on to completion (run_media_download_job).          *)
AcceptedCancelHolds ==
    [][\A t \in accepted : mem[t].status = "CANCELLED"
                              => mem'[t].status \in {"CANCELLED", "NONE"}]_vars

(* A cancelled task is recorded with stage CANCELLED once its job is over.   *)
CancelledStage ==
    worker.pc = "idle" /\ LockFree
        => \A t \in Tasks : db[t].status = "CANCELLED" => db[t].stage = "CANCELLED"

(* "Task cancelled and partial files cleaned.": when the job of a cancelled  *)
(* download is over, no partial file is left.                                *)
CancelLeavesNoPartial ==
    worker.pc = "idle" /\ LockFree
        => \A t \in accepted : mem[t].status = "CANCELLED" => "part" \notin file[t]

(* A row with status 'completed' in the table backups has its archive.       *)
BackupHasArchive == \A t \in backups : file[t] = {"archive"}

(* What the check of the output found is the task's own output ("Output file *)
(* missing or 0 bytes" is what it raises otherwise).                         *)
CompletedHasOutput ==
    \A t \in Downloads : mem[t].status = "COMPLETED" => "output" \in file[t]

(* "partial file cleanup": nothing of a failed download stays on the disk.   *)
FailedLeavesNothing ==
    \A t \in Downloads : mem[t].status = "FAILED" => file[t] = {}

(* "authoritative SQLite persistence": without any exception.                *)
RowsAlwaysSettle ==
    worker.pc = "idle" /\ LockFree
        => \A t \in Tasks : mem[t] # Absent => db[t] = mem[t]

(* Cancelling a queued or active task, of which the table still has the row, *)
(* does not end in an exception.                                             *)
CancelAnswers == broken = {}

(* A task told that it was queued and will start when memory recovers is     *)
(* taken into the queue at some time.                                        *)
PromiseKept == \A t \in Tasks : t \in promised ~> mem[t].status # "NONE"
=============================================================================

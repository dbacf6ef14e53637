------------------------ MODULE BackgroundJobs_proof ------------------------
(* Proofs about the two components whose work nobody waits for: the task     *)
(* runner, for any tasks, restarts and lost saves, and the timetable         *)
(* synchronization lease, for any runs, lease time and bound on the clock.   *)
(* The two share no state; their names are kept apart by the prefix Sync.    *)
EXTENDS TaskRunner, DatabaseSyncLease, TLAPS

-----------------------------------------------------------------------------
(* THE TASK RUNNER                                                         *)
(*                                                                         *)
(* TaskOK says, task by task, what the steps of its job and of cancel_task *)
(* may rely on.  Both run without the lock, or with a save under way, so   *)
(* almost nothing is known of a row while somebody is at work on its task; *)
(* what holds then is said of the disk and of the step the job has reached.*)

(* The words of the lifecycle. *)
LEMMA Words ==
    /\ Terminal = {"COMPLETED", "FAILED", "CANCELLED"}
    /\ Cancelled = {"CANCELLED", "CANCELLING"}
    /\ Statuses = {"NONE", "QUEUED", "STARTING", "RUNNING", "COMPLETED", "FAILED",
                   "CANCELLED", "CANCELLING"}
    /\ Stages = Statuses \cup {"DOWNLOADING", "POST_PROCESSING", "VERIFYING"}
    /\ Absent = [status |-> "NONE", stage |-> "NONE", started |-> FALSE]
    /\ Absent \in Records
  BY DEF Terminal, Cancelled, Statuses, Stages, Absent, Records

(* What the worker's record becomes at a step of a job *)
Workers == [pc : WorkerSteps, task : Tasks \cup {NoTask}, snap : Records, ret : WorkerSteps]

LEMMA WorkerGoes ==
    ASSUME worker \in Workers
    PROVE  /\ \A s \in WorkerSteps : [worker EXCEPT !.pc = s] \in Workers
           /\ \A snap \in Records : \A ret \in WorkerSteps :
                  [worker EXCEPT !.pc = "save", !.snap = snap, !.ret = ret] \in Workers
<1>1. "save" \in WorkerSteps
  BY DEF WorkerSteps
<1> QED BY <1>1 DEF Workers

LEMMA SetRecord ==
    ASSUME NEW f \in [Tasks -> Records], NEW t \in Tasks, NEW x \in Records,
           NEW h, h = [f EXCEPT ![t] = x]
    PROVE  /\ h \in [Tasks -> Records]
           /\ h[t] = x
           /\ \A u \in Tasks : u # t => h[u] = f[u]
  OBVIOUS

LEMMA SavedIs ==
    ASSUME NEW x \in Records, NEW y \in Records
    PROVE  /\ Saved(x, y) \in Records
           /\ Saved(x, y).status = x.status /\ Saved(x, y).stage = x.stage
           /\ Saved(x, y).started = (x.started \/ y.started)
           /\ (y.started => x.started) => Saved(x, y) = x
  BY DEF Saved, Records

(* _save_task_to_db, of record x: the row takes its status and stage, or the *)
(* save is lost.                                                             *)
LEMMA SaveIs ==
    ASSUME TypeOK, NEW t \in Tasks, NEW x, x \in Records, Save(t, x)
    PROVE  /\ db' \in [Tasks -> Records] /\ lost' \subseteq Tasks /\ faults' \in 0 .. MaxFaults
           /\ \A u \in Tasks : u # t => db'[u] = db[u] /\ (u \in lost' <=> u \in lost)
           /\ db'[t] = db[t] \/ db'[t].status = x.status
           /\ (db[t].started => x.started) => t \in lost' \/ db'[t] = x
           /\ db'[t].started => db[t].started \/ x.started
<1>1. CASE /\ db' = [db EXCEPT ![t] = Saved(x, @)]
           /\ lost' = lost \ {t} /\ faults' = faults
  <2>1. db[t] \in Records /\ db \in [Tasks -> Records]
    BY DEF TypeOK
  <2>2. /\ Saved(x, db[t]) \in Records
        /\ Saved(x, db[t]).status = x.status
        /\ Saved(x, db[t]).started = (x.started \/ db[t].started)
        /\ (db[t].started => x.started) => Saved(x, db[t]) = x
    BY <2>1, SavedIs
  <2>3. /\ db' \in [Tasks -> Records] /\ db'[t] = Saved(x, db[t])
        /\ \A u \in Tasks : u # t => db'[u] = db[u]
    BY <1>1, <2>1, <2>2, SetRecord
  <2>4. lost' \subseteq Tasks /\ \A u \in Tasks : u # t => (u \in lost' <=> u \in lost)
    BY <1>1 DEF TypeOK
  <2> QED BY <1>1, <2>2, <2>3, <2>4 DEF TypeOK
<1>2. CASE /\ db' = db /\ lost' = lost \cup {t}
           /\ faults < MaxFaults /\ faults' = faults + 1
  BY <1>2, TasksAssumption DEF TypeOK
<1> QED BY <1>1, <1>2 DEF Save

(* _cleanup_partial_files, of a task. *)
LEMMA CleanUpIs ==
    ASSUME TypeOK, NEW t \in Tasks, CleanUp(t)
    PROVE  /\ file' \in [Tasks -> SUBSET Files]
           /\ file'[t] = IF t \in Downloads THEN file[t] \ {"part"} ELSE {}
           /\ \A u \in Tasks : u # t =>
                file'[u] = file[u] \/ (u \in Downloads /\ file'[u] \subseteq file[u])
<1>1. CASE t \in Downloads
  <2>1. PICK others \in SUBSET (Downloads \ {t}) :
           file' = [u \in Tasks |-> IF u \in others \cup {t} THEN file[u] \ {"part"}
                                                           ELSE file[u]]
    BY <1>1 DEF CleanUp
  <2> QED BY <1>1, <2>1 DEF TypeOK
<1>2. CASE t \notin Downloads
  BY <1>2 DEF CleanUp, TypeOK
<1> QED BY <1>1, <1>2

-----------------------------------------------------------------------------
(* The inductive invariant                                                 *)

(* Where the worker is, or goes on once its save is done. *)
At == IF worker.pc = "save" THEN worker.ret ELSE worker.pc

Known(t)      == mem[t].status # "NONE"
Fresh(t)      == proc[t] = "none" /\ file[t] = {} /\ t \notin backups
Busy(t)       == worker.pc \notin {"idle", "taken"} /\ worker.task = t
Cancelling(t) == cancel.pc # "idle" /\ cancel.task = t

(* What is known of a record and its row, whoever is at work. *)
RecordsOK ==
    \A t \in Tasks :
        /\ ~Known(t) => mem[t] = Absent
        /\ Known(t) => (db[t].started => mem[t].started)
        /\ mem[t].status \notin {"NONE", "QUEUED", "CANCELLED"} => mem[t].started
        /\ Known(t) /\ ~mem[t].started => Fresh(t)

(* The queue holds each task once, before it starts. *)
QueueOK ==
    /\ \A i \in DOMAIN queue : Known(queue[i]) /\ ~mem[queue[i]].started
    /\ \A i, j \in DOMAIN queue : queue[i] = queue[j] => i = j
    /\ worker.pc = "taken" => \A i \in DOMAIN queue : queue[i] # worker.task

BackupJob   == {"zip", "hash", "record"}
DownloadJob == {"begin", "spawn", "keep", "read", "line", "verify", "check"}

WorkerOK ==
    worker.pc # "idle" =>
        /\ worker.task \in Tasks /\ Known(worker.task)
        /\ mem[worker.task].started <=> worker.pc # "taken"
        /\ worker.pc = "save" => worker.ret \in {"spawn", "read", "check", "return"}
        /\ At \in DownloadJob \/ worker.pc = "save" => worker.task \in Downloads
        /\ At \in BackupJob => worker.task \notin Downloads

CancelOK ==
    cancel.pc # "idle" =>
        /\ cancel.task \in Tasks /\ Known(cancel.task) /\ mem[cancel.task].started
        /\ cancel.pc \in {"save", "save_last"} => cancel.snap.status \in Cancelled
        /\ cancel.pc = "save_last" /\ ~Busy(cancel.task) => cancel.snap = mem[cancel.task]

(* The row of a task that nobody is at work on says what memory says, unless *)
(* its latest save was lost.                                                 *)
RowsFollow ==
    \A t \in Tasks : Known(t) /\ ~Busy(t) /\ ~Cancelling(t) /\ t \notin lost => db[t] = mem[t]

(* A download: only one whose process ended well gets as far as the check of *)
(* the output, and the end of a process is the end of its steps.             *)
DownloadOK(t) ==
    /\ t \notin backups /\ file[t] \subseteq {"part", "stream", "output"}
    /\ "COMPLETED" \in {mem[t].status, db[t].status} => proc[t] = "ok"
    /\ Busy(t) =>
         /\ At \in {"begin", "spawn"} => proc[t] = "none"
         /\ At \in {"keep", "read", "line"} => proc[t] # "none"
         /\ At \in {"verify", "check"} => proc[t] = "ok"
         /\ At = "raise" => proc[t] # "running"
         /\ At = "return" => mem[t].status \in Cancelled \cup {"COMPLETED"}
         /\ worker.pc = "save" /\ worker.snap.status = "COMPLETED" => proc[t] = "ok"

(* A backup: while nobody cancels it its archive stays, and it is completed  *)
(* after its row in backups is there.                                        *)
BackupOK(t) ==
    /\ proc[t] = "none" /\ file[t] \subseteq {"archive"}
    /\ "COMPLETED" \in {mem[t].status, db[t].status} => "archive" \in file[t] /\ t \in backups
    /\ Known(t) /\ db[t].status = "COMPLETED" => mem[t].status = "COMPLETED"
    /\ Cancelling(t) => mem[t].status \in Cancelled
    /\ Busy(t) =>
         /\ At # "finally" => mem[t].status # "COMPLETED"
         /\ At \in {"zip", "hash", "record", "raise"} => t \notin backups
         /\ At \in {"record", "return"} /\ mem[t].status \notin Cancelled => "archive" \in file[t]
         /\ At = "return" => t \in backups

(* A failed task left nothing unfinished, and nobody is at work on it but    *)
(* for the save.                                                             *)
FailedOK(t) ==
    mem[t].status = "FAILED" =>
        /\ proc[t] # "running" /\ t \notin backups /\ file[t] \subseteq Whole
        /\ ~Cancelling(t)
        /\ Busy(t) => worker.pc = "finally"

TaskOK(t) ==
    /\ t \in Downloads => DownloadOK(t)
    /\ t \notin Downloads => BackupOK(t)
    /\ FailedOK(t)

IInv ==
    /\ TypeOK
    /\ RecordsOK /\ QueueOK /\ WorkerOK /\ CancelOK /\ RowsFollow
    /\ \A t \in Tasks : TaskOK(t)

-----------------------------------------------------------------------------
(* What a step does to the tasks it is not about                           *)

(* Everything about task u is as it was, but that another's clean-up may have *)
(* taken its partial files.                                                  *)
Same(u) ==
    /\ mem'[u] = mem[u] /\ db'[u] = db[u] /\ proc'[u] = proc[u]
    /\ file'[u] = file[u] \/ (u \in Downloads /\ file'[u] \subseteq file[u])
    /\ u \in lost' <=> u \in lost
    /\ u \in backups' <=> u \in backups

(* Nobody is at work on it who was not, and it is as it was. *)
LEMMA OtherTask ==
    ASSUME NEW u \in Tasks, TaskOK(u), Same(u),
           Busy(u)' => Busy(u) /\ worker' = worker,
           Cancelling(u)' => Cancelling(u)
    PROVE  TaskOK(u)'
<1>1. u \in Downloads => DownloadOK(u)'
  BY DEF TaskOK, DownloadOK, Same, At
<1>2. u \notin Downloads => BackupOK(u)'
  BY DEF TaskOK, BackupOK, Same, At, Known
<1>3. FailedOK(u)'
  BY DEF TaskOK, FailedOK, Same
<1> QED BY <1>1, <1>2, <1>3 DEF TaskOK

(* A step of the job at hand: what has to be shown is about its task only. *)
LEMMA JobStep ==
    ASSUME IInv, TypeOK', NEW t \in Tasks, worker.task = t,
           worker.pc \notin {"idle", "taken"},
           worker'.task = t, worker'.pc \notin {"idle", "taken"},
           worker'.pc = "save" => worker'.ret \in {"spawn", "read", "check", "return"},
           At' \in DownloadJob \/ worker'.pc = "save" => t \in Downloads,
           At' \in BackupJob => t \notin Downloads,
           UNCHANGED <<queue, cancel>>,
           \A u \in Tasks : u # t => Same(u),
           mem'[t].started, mem'[t].status # "NONE",
           TaskOK(t)'
    PROVE  IInv'
<1>0. TypeOK /\ \A u \in Tasks : TaskOK(u)
  BY DEF IInv
<1>1. Known(t) /\ mem[t].started /\ Busy(t) /\ Busy(t)'
  BY DEF IInv, WorkerOK, Busy
<1>2. \A u \in Tasks : u # t => ~Busy(u) /\ ~Busy(u)'
  BY DEF Busy
<1>3. RecordsOK'
  BY DEF IInv, RecordsOK, Known, Fresh, Same
<1>4. QueueOK'
  BY <1>0, <1>1 DEF IInv, QueueOK, Known, Same, TypeOK
<1>5. WorkerOK'
  BY DEF IInv, WorkerOK, Known, Same
<1>6. CancelOK'
  BY <1>1, <1>2 DEF IInv, CancelOK, Known, Same
<1>7. RowsFollow'
  BY <1>1, <1>2 DEF IInv, RowsFollow, Known, Cancelling, Same
<1>8. \A u \in Tasks : TaskOK(u)'
  BY <1>0, <1>2, OtherTask DEF Cancelling
<1> QED BY <1>3, <1>4, <1>5, <1>6, <1>7, <1>8 DEF IInv

-----------------------------------------------------------------------------
LEMMA EnqueueKeeps ==
    ASSUME IInv, NEW t \in Tasks, Enqueue(t) PROVE IInv'
<1>0. TypeOK /\ RecordsOK /\ QueueOK /\ WorkerOK /\ CancelOK /\ RowsFollow
  BY DEF IInv
<1>1. /\ cancel.pc = "idle" /\ mem[t] = Absent /\ db[t] = Absent /\ Fresh(t)
      /\ mem' \in [Tasks -> Records] /\ mem'[t] \in Records
      /\ mem'[t] = [status |-> "QUEUED", stage |-> "QUEUED", started |-> FALSE]
      /\ \A u \in Tasks : u # t => mem'[u] = mem[u]
  <2>1. mem \in [Tasks -> Records] /\ "QUEUED" \in Statuses /\ "QUEUED" \in Stages
    BY <1>0, Words DEF TypeOK
  <2>2. mem' = [mem EXCEPT ![t].status = "QUEUED", ![t].stage = "QUEUED"]
    BY DEF Enqueue
  <2>3. /\ mem' \in [Tasks -> Records]
        /\ mem'[t] = [status |-> "QUEUED", stage |-> "QUEUED", started |-> mem[t].started]
        /\ \A u \in Tasks : u # t => mem'[u] = mem[u]
    BY <2>1, <2>2 DEF Records
  <2> QED BY <2>1, <2>3, Words DEF Enqueue, LockFree, Unused, Fresh
<1>2. /\ db' \in [Tasks -> Records] /\ lost' \subseteq Tasks /\ faults' \in 0 .. MaxFaults
      /\ db'[t].status \in {"NONE", "QUEUED"} /\ ~db'[t].started
      /\ t \in lost' \/ db'[t] = mem'[t]
      /\ \A u \in Tasks : u # t => db'[u] = db[u] /\ (u \in lost' <=> u \in lost)
  <2>1. db[t].status = "NONE" /\ ~db[t].started
    BY <1>1, Words
  <2> QED BY <1>0, <1>1, <2>1, SaveIs DEF Enqueue
<1>3. queue' = Append(queue, t) /\ UNCHANGED <<worker, cancel, outside, history>>
  BY DEF Enqueue
<1>4. ~Known(t) /\ (worker.pc # "idle" => worker.task # t)
  BY <1>0, <1>1, Words DEF Known, RecordsOK, WorkerOK
<1>5. TypeOK'
  BY <1>0, <1>1, <1>2, <1>3 DEF TypeOK, outside, history
<1>6. RecordsOK'
  BY <1>0, <1>1, <1>2, <1>3, <1>4 DEF RecordsOK, Known, Fresh, outside
<1>7. QueueOK'
  <2>1. queue \in Seq(Tasks)
    BY <1>0 DEF TypeOK
  <2>2. /\ DOMAIN queue' = DOMAIN queue \cup {Len(queue) + 1}
        /\ queue'[Len(queue) + 1] = t
        /\ \A i \in DOMAIN queue : queue'[i] = queue[i] /\ queue[i] \in Tasks
    BY <2>1, <1>3
  <2>3. \A i \in DOMAIN queue : queue[i] # t
    BY <1>0, <1>4 DEF QueueOK
  <2> QED BY <1>0, <1>1, <1>3, <1>4, <2>2, <2>3 DEF QueueOK, Known
<1>8. WorkerOK'
  BY <1>0, <1>1, <1>3, <1>4 DEF WorkerOK, At, Known, TypeOK
<1>9. CancelOK'
  BY <1>1, <1>3 DEF CancelOK
<1>10. RowsFollow'
  BY <1>0, <1>1, <1>2, <1>3, <1>4 DEF RowsFollow, Known, Busy, Cancelling
<1>11. ASSUME NEW u \in Tasks, u # t PROVE TaskOK(u)'
  BY <1>1, <1>2, <1>3, <1>11, OtherTask DEF Same, outside, Busy, Cancelling, IInv
<1>12. TaskOK(t)'
  BY <1>1, <1>2, <1>3, <1>4 DEF TaskOK, DownloadOK, BackupOK, FailedOK, Known, Fresh, Busy,
     Cancelling, outside, IInv
<1> QED BY <1>5, <1>6, <1>7, <1>8, <1>9, <1>10, <1>11, <1>12 DEF IInv

(* A step of cancel_task: it is about one task that the runner knows. *)
LEMMA CancelStep ==
    ASSUME IInv, TypeOK', CancelOK', NEW t \in Tasks, Known(t),
           cancel.pc # "idle" => cancel.task = t,
           cancel'.pc # "idle" => cancel'.task = t,
           UNCHANGED <<queue, worker>>,
           \A u \in Tasks : u # t => Same(u),
           mem'[t].status # "NONE",
           mem'[t].started <=> mem[t].started,
           db'[t].started => mem[t].started,
           mem[t].started \/ (Fresh(t)' /\ mem'[t].status \in {"QUEUED", "CANCELLED"}),
           Busy(t) \/ Cancelling(t)' \/ t \in lost' \/ db'[t] = mem'[t],
           TaskOK(t)'
    PROVE  IInv'
<1>0. TypeOK /\ \A u \in Tasks : TaskOK(u)
  BY DEF IInv
<1>1. \A u \in Tasks : u # t => ~Cancelling(u) /\ ~Cancelling(u)'
  BY DEF Cancelling
<1>2. \A u \in Tasks : Busy(u)' <=> Busy(u)
  BY DEF Busy
<1>3. RecordsOK'
  BY DEF IInv, RecordsOK, Known, Fresh, Same
<1>4. QueueOK'
  BY <1>0 DEF IInv, QueueOK, Known, Same, TypeOK
<1>5. WorkerOK'
  BY DEF IInv, WorkerOK, At, Known, Same
<1>6. RowsFollow'
  BY <1>1, <1>2 DEF IInv, RowsFollow, Known, Same
<1>7. \A u \in Tasks : TaskOK(u)'
  BY <1>0, <1>1, OtherTask DEF Busy
<1> QED BY <1>3, <1>4, <1>5, <1>6, <1>7 DEF IInv

LEMMA CancelQueuedKeeps ==
    ASSUME IInv, NEW t \in Tasks, CancelQueued(t) PROVE IInv'
<1>0. TypeOK /\ RecordsOK /\ RowsFollow /\ TaskOK(t)
  BY DEF IInv
<1>1. /\ cancel.pc = "idle" /\ mem[t].status = "QUEUED" /\ mem[t] \in Records
      /\ mem' \in [Tasks -> Records] /\ mem'[t] \in Records
      /\ mem'[t] = [status |-> "CANCELLED", stage |-> "CANCELLED", started |-> mem[t].started]
      /\ \A u \in Tasks : u # t => mem'[u] = mem[u]
  <2>1. mem \in [Tasks -> Records] /\ "CANCELLED" \in Statuses /\ "CANCELLED" \in Stages
    BY <1>0, Words DEF TypeOK
  <2>2. mem' = [mem EXCEPT ![t].status = "CANCELLED", ![t].stage = "CANCELLED"]
    BY DEF CancelQueued
  <2>3. /\ mem' \in [Tasks -> Records]
        /\ mem'[t] = [status |-> "CANCELLED", stage |-> "CANCELLED", started |-> mem[t].started]
        /\ \A u \in Tasks : u # t => mem'[u] = mem[u]
    BY <2>1, <2>2 DEF Records
  <2> QED BY <2>1, <2>3, Words DEF CancelQueued, LockFree
<1>2. Known(t) /\ (db[t].started => mem[t].started) /\ db[t] \in Records
  BY <1>0, <1>1 DEF RecordsOK, Known, TypeOK
<1>5. /\ db' \in [Tasks -> Records] /\ lost' \subseteq Tasks /\ faults' \in 0 .. MaxFaults
      /\ db'[t] = db[t] \/ db'[t].status = "CANCELLED"
      /\ (db'[t].started => mem[t].started) /\ (t \in lost' \/ db'[t] = mem'[t])
      /\ \A u \in Tasks : u # t => db'[u] = db[u] /\ (u \in lost' <=> u \in lost)
  BY <1>0, <1>1, <1>2, SaveIs DEF CancelQueued
<1>6. UNCHANGED <<queue, worker, cancel, outside, broken, promised>>
  BY DEF CancelQueued
<1>7. TypeOK' /\ CancelOK'
  BY <1>0, <1>1, <1>5, <1>6 DEF TypeOK, outside, CancelOK, CancelQueued
<1>8. \A u \in Tasks : u # t => Same(u)
  BY <1>1, <1>5, <1>6 DEF Same, outside
<1>9. mem[t].started \/ Fresh(t)'
  BY <1>0, <1>2, <1>6 DEF RecordsOK, Fresh, outside
<1>10. TaskOK(t)'
  BY <1>0, <1>1, <1>2, <1>5, <1>6, Words
  DEF TaskOK, DownloadOK, BackupOK, FailedOK, Known, Busy, Cancelling, At, outside
<1> QED BY <1>1, <1>2, <1>5, <1>6, <1>7, <1>8, <1>9, <1>10, CancelStep

LEMMA CancelActiveKeeps ==
    ASSUME IInv, NEW t \in Tasks, CancelActive(t) PROVE IInv'
<1>0. TypeOK /\ RecordsOK /\ TaskOK(t)
  BY DEF IInv
<1>1. /\ cancel.pc = "idle" /\ mem[t] \in Records
      /\ mem[t].status \notin Terminal \cup {"NONE", "QUEUED"}
      /\ mem' \in [Tasks -> Records] /\ mem'[t] \in Records
      /\ mem'[t] = [status |-> "CANCELLING", stage |-> "CANCELLING", started |-> mem[t].started]
      /\ \A u \in Tasks : u # t => mem'[u] = mem[u]
  <2>1. mem \in [Tasks -> Records] /\ "CANCELLING" \in Statuses /\ "CANCELLING" \in Stages
    BY <1>0, Words DEF TypeOK
  <2>2. mem' = [mem EXCEPT ![t].status = "CANCELLING", ![t].stage = "CANCELLING"]
    BY DEF CancelActive
  <2>3. /\ mem' \in [Tasks -> Records]
        /\ mem'[t] = [status |-> "CANCELLING", stage |-> "CANCELLING", started |-> mem[t].started]
        /\ \A u \in Tasks : u # t => mem'[u] = mem[u]
    BY <2>1, <2>2 DEF Records
  <2> QED BY <2>1, <2>3, Words DEF CancelActive, LockFree
<1>2. /\ Known(t) /\ mem[t].started
      /\ (db[t].started => mem[t].started)
  BY <1>0, <1>1, Words DEF RecordsOK, Known
<1>3. /\ UNCHANGED <<db, lost, faults, queue, worker, outside, history>>
      /\ cancel' = [pc |-> "save", task |-> t, snap |-> mem'[t]]
  BY DEF CancelActive, rows
<1>4. TypeOK'
  BY <1>0, <1>1, <1>3 DEF TypeOK, outside, history, CancelSteps
<1>5. CancelOK'
  BY <1>1, <1>2, <1>3, Words DEF CancelOK, Known
<1>6. \A u \in Tasks : u # t => Same(u)
  BY <1>1, <1>3 DEF Same, outside
<1>7. TaskOK(t)'
  BY <1>0, <1>1, <1>2, <1>3, Words
  DEF TaskOK, DownloadOK, BackupOK, FailedOK, Known, Busy, Cancelling, At, outside
<1>8. Cancelling(t)'
  BY <1>3 DEF Cancelling
<1> QED BY <1>1, <1>2, <1>3, <1>4, <1>5, <1>6, <1>7, <1>8, CancelStep

(* Inside cancel_task, at its task. *)
LEMMA InCancel ==
    ASSUME IInv, cancel.pc # "idle"
    PROVE  /\ cancel.task \in Tasks /\ Known(cancel.task) /\ mem[cancel.task].started
           /\ Cancelling(cancel.task) /\ TaskOK(cancel.task)
           /\ mem[cancel.task] \in Records /\ db[cancel.task] \in Records
           /\ cancel.snap \in Records
           /\ mem[cancel.task].status # "FAILED"
           /\ TypeOK /\ CancelOK
<1>1. cancel.task \in Tasks /\ Known(cancel.task) /\ mem[cancel.task].started
  BY DEF IInv, CancelOK
<1>2. Cancelling(cancel.task) /\ TaskOK(cancel.task)
  BY <1>1 DEF Cancelling, IInv
<1>3. TypeOK /\ CancelOK
  BY DEF IInv
<1>4. mem[cancel.task].status # "FAILED"
  BY <1>2 DEF TaskOK, FailedOK
<1>6. mem[cancel.task] \in Records /\ db[cancel.task] \in Records /\ cancel.snap \in Records
  BY <1>1, <1>3 DEF TypeOK
<1> QED BY <1>1, <1>2, <1>3, <1>4, <1>6

LEMMA CancelSaveKeeps == ASSUME IInv, CancelSave PROVE IInv'
<1> DEFINE t == cancel.task
<1>1. /\ cancel.pc = "save" /\ UNCHANGED <<mem, queue, worker, outside, history>>
      /\ Save(t, cancel.snap)
      /\ cancel' = [cancel EXCEPT !.pc = "kill", !.snap = Absent]
  BY DEF CancelSave
<1>2. /\ t \in Tasks /\ Known(t) /\ mem[t].started /\ Cancelling(t) /\ TaskOK(t)
      /\ db[t] \in Records /\ cancel.snap \in Records /\ mem[t].status # "FAILED"
      /\ TypeOK /\ CancelOK
  BY <1>1, InCancel
<1>4. /\ db' \in [Tasks -> Records] /\ lost' \subseteq Tasks /\ faults' \in 0 .. MaxFaults
      /\ db'[t] = db[t] \/ db'[t].status \in Cancelled
      /\ \A u \in Tasks : u # t => db'[u] = db[u] /\ (u \in lost' <=> u \in lost)
  BY <1>1, <1>2, SaveIs DEF CancelOK
<1>5. cancel'.pc = "kill" /\ cancel'.task = t
  BY <1>1, <1>2 DEF TypeOK
<1>6. TypeOK'
  BY <1>1, <1>2, <1>4, Words DEF TypeOK, outside, history, CancelSteps
<1>7. CancelOK'
  BY <1>1, <1>2, <1>5 DEF CancelOK, Known
<1>8. \A u \in Tasks : u # t => Same(u)
  BY <1>1, <1>4 DEF Same, outside
<1>9. TaskOK(t)'
  BY <1>1, <1>2, <1>4, <1>5, Words
  DEF TaskOK, DownloadOK, BackupOK, FailedOK, Known, Busy, Cancelling, At, outside
<1>10. Cancelling(t)' /\ mem'[t].status # "NONE"
  BY <1>1, <1>2, <1>4, <1>5, Words DEF Cancelling, Known
<1> QED BY <1>1, <1>2, <1>5, <1>6, <1>7, <1>8, <1>9, <1>10, CancelStep

LEMMA CancelKillKeeps == ASSUME IInv, CancelKill PROVE IInv'
<1> DEFINE t == cancel.task
<1>1. /\ cancel.pc = "kill"
      /\ UNCHANGED <<mem, db, lost, faults, queue, worker, handle, file, backups, history>>
      /\ proc' = [proc EXCEPT ![t] = Killed(t)] \/ proc' = proc
      /\ cancel' = [cancel EXCEPT !.pc = "clean"]
  BY DEF CancelKill, rows
<1>2. /\ t \in Tasks /\ Known(t) /\ mem[t].started /\ Cancelling(t) /\ TaskOK(t)
      /\ mem[t].status # "FAILED" /\ TypeOK /\ CancelOK
  BY <1>1, InCancel
<1>3. /\ proc' \in [Tasks -> {"none", "running", "ok", "failed"}]
      /\ proc'[t] = proc[t] \/ (proc[t] = "running" /\ proc'[t] = "failed")
      /\ \A u \in Tasks : u # t => proc'[u] = proc[u]
  BY <1>1, <1>2 DEF TypeOK, Killed
<1>5. cancel'.pc = "clean" /\ cancel'.task = t
  BY <1>1, <1>2 DEF TypeOK
<1>6. TypeOK'
  BY <1>1, <1>2, <1>3 DEF TypeOK, history, CancelSteps
<1>7. CancelOK'
  BY <1>1, <1>2, <1>5 DEF CancelOK, Known
<1>8. \A u \in Tasks : u # t => Same(u)
  BY <1>1, <1>3 DEF Same
<1>9. TaskOK(t)'
  BY <1>1, <1>2, <1>3, <1>5, Words
  DEF TaskOK, DownloadOK, BackupOK, FailedOK, Known, Busy, Cancelling, At
<1>10. Cancelling(t)' /\ mem'[t].status # "NONE"
  BY <1>1, <1>2, <1>5 DEF Cancelling, Known
<1>11. db'[t].started => mem[t].started
  BY <1>2
<1> QED BY <1>1, <1>2, <1>5, <1>6, <1>7, <1>8, <1>9, <1>10, <1>11, CancelStep

LEMMA CancelCleanKeeps == ASSUME IInv, CancelClean PROVE IInv'
<1> DEFINE t == cancel.task
<1>1. /\ cancel.pc = "clean"
      /\ UNCHANGED <<mem, db, lost, faults, queue, worker, proc, handle, backups, history>>
      /\ CleanUp(t)
      /\ cancel' = [cancel EXCEPT !.pc = "end"]
  BY DEF CancelClean, rows
<1>2. /\ t \in Tasks /\ Known(t) /\ mem[t].started /\ Cancelling(t) /\ TaskOK(t)
      /\ mem[t].status # "FAILED" /\ TypeOK /\ CancelOK
  BY <1>1, InCancel
<1>3. /\ file' \in [Tasks -> SUBSET Files]
      /\ file'[t] = IF t \in Downloads THEN file[t] \ {"part"} ELSE {}
      /\ \A u \in Tasks : u # t =>
           file'[u] = file[u] \/ (u \in Downloads /\ file'[u] \subseteq file[u])
  BY <1>1, <1>2, CleanUpIs
<1>5. cancel'.pc = "end" /\ cancel'.task = t
  BY <1>1, <1>2 DEF TypeOK
<1>6. TypeOK'
  BY <1>1, <1>2, <1>3 DEF TypeOK, history, CancelSteps
<1>7. CancelOK'
  BY <1>1, <1>2, <1>5 DEF CancelOK, Known
<1>8. \A u \in Tasks : u # t => Same(u)
  BY <1>1, <1>3 DEF Same
<1>9. TaskOK(t)'
  BY <1>1, <1>2, <1>3, <1>5, Words
  DEF TaskOK, DownloadOK, BackupOK, FailedOK, Known, Busy, Cancelling, At
<1>10. Cancelling(t)' /\ mem'[t].status # "NONE"
  BY <1>1, <1>2, <1>5 DEF Cancelling, Known
<1>11. db'[t].started => mem[t].started
  BY <1>2
<1> QED BY <1>1, <1>2, <1>5, <1>6, <1>7, <1>8, <1>9, <1>10, <1>11, CancelStep

LEMMA CancelEndKeeps == ASSUME IInv, CancelEnd PROVE IInv'
<1> DEFINE t == cancel.task
<1>1. /\ cancel.pc = "end"
      /\ UNCHANGED <<db, lost, faults, queue, worker, outside, history>>
      /\ mem' = [mem EXCEPT ![t].status = "CANCELLED", ![t].stage = "CANCELLED"]
      /\ cancel' = [cancel EXCEPT !.pc = "save_last", !.snap = mem'[t]]
  BY DEF CancelEnd, rows
<1>2. /\ t \in Tasks /\ Known(t) /\ mem[t].started /\ Cancelling(t) /\ TaskOK(t)
      /\ TypeOK /\ CancelOK
  BY <1>1, InCancel
<1>3. /\ mem' \in [Tasks -> Records] /\ mem'[t] \in Records
      /\ mem'[t] = [status |-> "CANCELLED", stage |-> "CANCELLED", started |-> mem[t].started]
      /\ \A u \in Tasks : u # t => mem'[u] = mem[u]
  <2>1. mem \in [Tasks -> Records] /\ "CANCELLED" \in Statuses /\ "CANCELLED" \in Stages
    BY <1>2, Words DEF TypeOK
  <2>3. /\ mem' \in [Tasks -> Records]
        /\ mem'[t] = [status |-> "CANCELLED", stage |-> "CANCELLED", started |-> mem[t].started]
        /\ \A u \in Tasks : u # t => mem'[u] = mem[u]
    BY <1>1, <1>2, <2>1 DEF Records
  <2> QED BY <1>2, <2>3
<1>5. cancel'.pc = "save_last" /\ cancel'.task = t /\ cancel'.snap = mem'[t]
  BY <1>1, <1>2 DEF TypeOK
<1>6. TypeOK'
  BY <1>1, <1>2, <1>3 DEF TypeOK, outside, history, CancelSteps
<1>7. CancelOK'
  BY <1>1, <1>2, <1>3, <1>5, Words DEF CancelOK, Known
<1>8. \A u \in Tasks : u # t => Same(u)
  BY <1>1, <1>3 DEF Same, outside
<1>9. TaskOK(t)'
  BY <1>1, <1>2, <1>3, <1>5, Words
  DEF TaskOK, DownloadOK, BackupOK, FailedOK, Known, Busy, Cancelling, At, outside
<1>10. Cancelling(t)' /\ mem'[t].status # "NONE"
  BY <1>1, <1>2, <1>3, <1>5 DEF Cancelling, Known
<1>11. (mem'[t].started <=> mem[t].started) /\ (db'[t].started => mem[t].started)
  BY <1>2, <1>3
<1> QED BY <1>1, <1>2, <1>5, <1>6, <1>7, <1>8, <1>9, <1>10, <1>11, CancelStep

LEMMA CancelReturnKeeps ==
    ASSUME IInv, CancelReturn, NEW t, t = cancel.task PROVE IInv'
<1>1. /\ cancel.pc = "save_last"
      /\ UNCHANGED <<mem, queue, worker, outside, broken, promised>>
      /\ Save(t, cancel.snap)
      /\ accepted' = accepted \cup {t}
      /\ cancel' = NoCancel
  BY DEF CancelReturn
<1>2. /\ t \in Tasks /\ Known(t) /\ mem[t].started /\ Cancelling(t) /\ TaskOK(t)
      /\ db[t] \in Records /\ cancel.snap \in Records /\ mem[t].status # "FAILED"
      /\ TypeOK /\ CancelOK /\ mem[t] \in Records
  BY <1>1, InCancel
<1>4. /\ db' \in [Tasks -> Records] /\ lost' \subseteq Tasks /\ faults' \in 0 .. MaxFaults
      /\ db'[t] = db[t] \/ db'[t].status \in Cancelled
      /\ Busy(t) \/ t \in lost' \/ db'[t] = mem[t]
      /\ \A u \in Tasks : u # t => db'[u] = db[u] /\ (u \in lost' <=> u \in lost)
  BY <1>1, <1>2, SaveIs DEF CancelOK
<1>5. cancel'.pc = "idle"
  BY <1>1 DEF NoCancel
<1>6. TypeOK'
  BY <1>1, <1>2, <1>4, Words DEF TypeOK, outside, CancelSteps, NoCancel
<1>7. CancelOK'
  BY <1>5 DEF CancelOK
<1>8. \A u \in Tasks : u # t => Same(u)
  BY <1>1, <1>4 DEF Same, outside
<1>9. TaskOK(t)'
  BY <1>1, <1>2, <1>4, <1>5, Words
  DEF TaskOK, DownloadOK, BackupOK, FailedOK, Known, Busy, Cancelling, At, outside
<1>10. mem'[t].status # "NONE"
  BY <1>1, <1>2 DEF Known
<1> QED BY <1>1, <1>2, <1>4, <1>5, <1>6, <1>7, <1>8, <1>9, <1>10, CancelStep

(* At a job: what is known of its task. *)
LEMMA InJob ==
    ASSUME IInv, worker.pc \notin {"idle", "taken"}, NEW t, t = worker.task
    PROVE  /\ t \in Tasks /\ Known(t) /\ mem[t].started /\ mem[t].status # "NONE"
           /\ Busy(t) /\ TaskOK(t)
           /\ mem[t] \in Records /\ db[t] \in Records /\ worker.snap \in Records
           /\ worker.pc # "finally" => mem[t].status # "FAILED"
           /\ At \in DownloadJob \/ worker.pc = "save" => t \in Downloads
           /\ At \in BackupJob => t \notin Downloads
           /\ TypeOK /\ WorkerOK
<1>1. t \in Tasks /\ Known(t) /\ mem[t].started /\ mem[t].status # "NONE"
  BY DEF IInv, WorkerOK, Known
<1>2. Busy(t) /\ TaskOK(t)
  BY <1>1 DEF Busy, IInv
<1>3. TypeOK /\ WorkerOK
  BY DEF IInv
<1>4. worker.pc # "finally" => mem[t].status # "FAILED"
  BY <1>2 DEF TaskOK, FailedOK
<1>6. mem[t] \in Records /\ db[t] \in Records /\ worker.snap \in Records
  BY <1>1, <1>3 DEF TypeOK
<1>7. /\ At \in DownloadJob \/ worker.pc = "save" => t \in Downloads
      /\ At \in BackupJob => t \notin Downloads
  BY <1>3 DEF WorkerOK
<1> QED BY <1>1, <1>2, <1>3, <1>4, <1>6, <1>7

LEMMA JobSaveKeeps ==
    ASSUME IInv, JobSave, NEW t, t = worker.task PROVE IInv'
<1>1. /\ worker.pc = "save" /\ UNCHANGED <<mem, queue, cancel, outside, history>>
      /\ Save(t, worker.snap)
      /\ worker' = [Idle EXCEPT !.pc = worker.ret, !.task = worker.task]
  BY DEF JobSave
<1>2. /\ t \in Tasks /\ mem[t].status \notin {"NONE", "FAILED"} /\ mem[t].started
      /\ Busy(t) /\ TaskOK(t) /\ TypeOK
      /\ db[t] \in Records /\ worker.snap \in Records /\ t \in Downloads
  BY <1>1, InJob
<1>3. worker.ret \in {"spawn", "read", "check", "return"}
  BY <1>1 DEF IInv, WorkerOK
<1>5. /\ db' \in [Tasks -> Records] /\ lost' \subseteq Tasks /\ faults' \in 0 .. MaxFaults
      /\ db'[t] = db[t] \/ db'[t].status = worker.snap.status
      /\ \A u \in Tasks : u # t => db'[u] = db[u] /\ (u \in lost' <=> u \in lost)
  BY <1>1, <1>2, SaveIs
<1>6. /\ worker'.pc = worker.ret /\ worker'.task = t
      /\ worker'.snap = Absent /\ worker'.ret = "idle"
  BY <1>1, <1>2 DEF Idle
<1>7. TypeOK'
  BY <1>1, <1>2, <1>3, <1>5, Words DEF TypeOK, Idle, outside, history, WorkerSteps
<1>8. \A u \in Tasks : u # t => Same(u)
  BY <1>1, <1>5 DEF Same, outside
<1>9. At' = At
  BY <1>1, <1>3, <1>6 DEF At
<1>10. TaskOK(t)'
  BY <1>1, <1>2, <1>3, <1>5, <1>6, <1>9 DEF TaskOK, DownloadOK, FailedOK, Known, Busy, outside
<1>11. /\ At' \in DownloadJob \/ worker'.pc = "save" => t \in Downloads
       /\ At' \in BackupJob => t \notin Downloads
  BY <1>2, <1>3, <1>6 DEF At, BackupJob
<1> QED BY <1>1, <1>2, <1>3, <1>5, <1>6, <1>7, <1>8, <1>10, <1>11, JobStep

(* The record of a job that ends is written to memory and to its row. *)
LEMMA ReturnJobKeeps ==
    ASSUME IInv, ReturnJob, NEW t, t = worker.task PROVE IInv'
<1>1. /\ worker.pc = "return" /\ cancel.pc = "idle"
      /\ UNCHANGED <<queue, cancel, outside, history>>
      /\ worker' = [worker EXCEPT !.pc = "finally"]
  BY DEF ReturnJob, LockFree
<1>2. /\ t \in Tasks /\ mem[t].status \notin {"NONE", "FAILED"} /\ mem[t].started
      /\ Busy(t) /\ TaskOK(t) /\ TypeOK
      /\ mem[t] \in Records /\ db[t] \in Records
  BY <1>1, InJob
<1>3. /\ worker'.pc = "finally" /\ worker'.task = t /\ At = "return" /\ At' = "finally"
  BY <1>1, <1>2 DEF TypeOK, At
<1>4. /\ mem' \in [Tasks -> Records] /\ db' \in [Tasks -> Records]
      /\ lost' \subseteq Tasks /\ faults' \in 0 .. MaxFaults
      /\ \A u \in Tasks : u # t => mem'[u] = mem[u]
      /\ \A u \in Tasks : u # t => db'[u] = db[u] /\ (u \in lost' <=> u \in lost)
      /\ \/ mem[t].status \in Cancelled /\ mem'[t] = mem[t] /\ db'[t] = db[t]
         \/ /\ mem[t].status \notin Cancelled
            /\ mem'[t] = [status |-> "COMPLETED", stage |-> "COMPLETED", started |-> TRUE]
            /\ db'[t] = db[t] \/ db'[t].status = "COMPLETED"
  <2>1. CASE mem[t].status \in Cancelled
    BY <1>2, <2>1 DEF ReturnJob, TypeOK, rows
  <2>2. CASE mem[t].status \notin Cancelled
    <3>1. /\ mem \in [Tasks -> Records] /\ "COMPLETED" \in Statuses /\ "COMPLETED" \in Stages
          /\ mem' = [mem EXCEPT ![t].status = "COMPLETED", ![t].stage = "COMPLETED"]
          /\ Save(t, mem'[t])
      BY <1>2, <2>2, Words DEF ReturnJob, TypeOK
    <3>2. /\ mem' \in [Tasks -> Records]
          /\ mem'[t] = [status |-> "COMPLETED", stage |-> "COMPLETED", started |-> mem[t].started]
          /\ \A u \in Tasks : u # t => mem'[u] = mem[u]
      BY <1>2, <3>1 DEF Records
    <3>3. mem'[t] \in Records /\ mem[t].started = TRUE
      BY <1>2, <3>2 DEF Records
    <3> QED BY <1>2, <2>2, <3>1, <3>2, <3>3, SaveIs
  <2> QED BY <2>1, <2>2
<1>5. TypeOK'
  BY <1>1, <1>2, <1>4 DEF TypeOK, outside, history, WorkerSteps
<1>6. \A u \in Tasks : u # t => Same(u)
  BY <1>1, <1>4 DEF Same, outside
<1>7. TaskOK(t)'
  <2>1. t \in Downloads => DownloadOK(t)'
    BY <1>1, <1>2, <1>3, <1>4, Words DEF TaskOK, DownloadOK, Busy, outside
  <2>2. t \notin Downloads => BackupOK(t)'
    BY <1>1, <1>2, <1>3, <1>4, Words DEF TaskOK, BackupOK, Busy, Cancelling, Known, outside
  <2>3. FailedOK(t)'
    BY <1>2, <1>4 DEF FailedOK
  <2> QED BY <2>1, <2>2, <2>3 DEF TaskOK
<1>8. mem'[t].started /\ mem'[t].status # "NONE"
  BY <1>2, <1>4
<1>9. At' \notin DownloadJob /\ At' \notin BackupJob /\ worker'.pc # "save"
  BY <1>3 DEF DownloadJob, BackupJob
<1> QED BY <1>1, <1>2, <1>3, <1>5, <1>6, <1>7, <1>8, <1>9, JobStep

LEMMA RaiseJobKeeps ==
    ASSUME IInv, RaiseJob, NEW t, t = worker.task PROVE IInv'
<1>1. /\ worker.pc = "raise" /\ cancel.pc = "idle"
      /\ UNCHANGED <<queue, cancel, proc, handle, backups, history>>
      /\ worker' = [worker EXCEPT !.pc = "finally"]
  BY DEF RaiseJob, LockFree
<1>2. /\ t \in Tasks /\ mem[t].status \notin {"NONE", "FAILED"} /\ mem[t].started
      /\ Busy(t) /\ TaskOK(t) /\ TypeOK
      /\ mem[t] \in Records /\ db[t] \in Records
  BY <1>1, InJob
<1>3. /\ worker'.pc = "finally" /\ worker'.task = t /\ At = "raise" /\ At' = "finally"
  BY <1>1, <1>2 DEF TypeOK, At
<1>4. /\ mem' \in [Tasks -> Records] /\ db' \in [Tasks -> Records]
      /\ lost' \subseteq Tasks /\ faults' \in 0 .. MaxFaults
      /\ file' \in [Tasks -> SUBSET Files]
      /\ \A u \in Tasks : u # t => mem'[u] = mem[u]
      /\ \A u \in Tasks : u # t => db'[u] = db[u] /\ (u \in lost' <=> u \in lost)
      /\ \A u \in Tasks : u # t =>
           file'[u] = file[u] \/ (u \in Downloads /\ file'[u] \subseteq file[u])
      /\ \/ /\ mem[t].status \in Cancelled
            /\ mem'[t] = mem[t] /\ db'[t] = db[t] /\ file'[t] = file[t]
         \/ /\ mem[t].status \notin Cancelled
            /\ mem'[t] = [status |-> "FAILED", stage |-> "FAILED", started |-> TRUE]
            /\ db'[t] = db[t] \/ db'[t].status = "FAILED"
            /\ file'[t] = IF t \in Downloads THEN file[t] \ {"part"} ELSE {}
  <2>1. CASE mem[t].status \in Cancelled
    BY <1>2, <2>1 DEF RaiseJob, TypeOK, rows
  <2>2. CASE mem[t].status \notin Cancelled
    <3>1. /\ mem \in [Tasks -> Records] /\ "FAILED" \in Statuses /\ "FAILED" \in Stages
          /\ mem' = [mem EXCEPT ![t].status = "FAILED", ![t].stage = "FAILED"]
          /\ Save(t, mem'[t]) /\ CleanUp(t)
      BY <1>2, <2>2, Words DEF RaiseJob, TypeOK
    <3>2. /\ mem' \in [Tasks -> Records]
          /\ mem'[t] = [status |-> "FAILED", stage |-> "FAILED", started |-> mem[t].started]
          /\ \A u \in Tasks : u # t => mem'[u] = mem[u]
      BY <1>2, <3>1 DEF Records
    <3>3. mem'[t] \in Records /\ mem[t].started = TRUE
      BY <1>2, <3>2 DEF Records
    <3>4. /\ db' \in [Tasks -> Records] /\ lost' \subseteq Tasks /\ faults' \in 0 .. MaxFaults
          /\ db'[t] = db[t] \/ db'[t].status = "FAILED"
          /\ \A u \in Tasks : u # t => db'[u] = db[u] /\ (u \in lost' <=> u \in lost)
      BY <1>2, <3>1, <3>2, <3>3, SaveIs
    <3> QED BY <1>2, <2>2, <3>1, <3>2, <3>3, <3>4, CleanUpIs
  <2> QED BY <2>1, <2>2
<1>5. TypeOK'
  BY <1>1, <1>2, <1>4 DEF TypeOK, history, WorkerSteps
<1>6. \A u \in Tasks : u # t => Same(u)
  BY <1>1, <1>4 DEF Same
<1>7. TaskOK(t)'
  <2>1. ASSUME t \in Downloads PROVE DownloadOK(t)'
    <3>1. DownloadOK(t) /\ proc'[t] = proc[t] /\ backups' = backups
      BY <1>1, <1>2, <2>1 DEF TaskOK
    <3>2. file'[t] \subseteq file[t]
      BY <1>4, <2>1
    <3>3. /\ mem'[t].status \in {mem[t].status, "FAILED"}
          /\ db'[t].status \in {db[t].status, "FAILED"}
      BY <1>4
    <3>4. proc[t] # "running"
      BY <1>2, <1>3, <3>1 DEF DownloadOK
    <3> QED BY <1>3, <3>1, <3>2, <3>3, <3>4 DEF DownloadOK
  <2>2. t \notin Downloads => BackupOK(t)'
    BY <1>1, <1>2, <1>3, <1>4, Words DEF TaskOK, BackupOK, Busy, Cancelling, Known
  <2>3. FailedOK(t)'
    BY <1>1, <1>2, <1>3, <1>4, Words
    DEF TaskOK, DownloadOK, BackupOK, FailedOK, Busy, Cancelling, Whole
  <2> QED BY <2>1, <2>2, <2>3 DEF TaskOK
<1>8. mem'[t].started /\ mem'[t].status # "NONE"
  BY <1>2, <1>4
<1>9. At' \notin DownloadJob /\ At' \notin BackupJob /\ worker'.pc # "save"
  BY <1>3 DEF DownloadJob, BackupJob
<1> QED BY <1>1, <1>2, <1>3, <1>5, <1>6, <1>7, <1>8, <1>9, JobStep

LEMMA BeginKeeps ==
    ASSUME IInv, Begin, NEW t, t = worker.task PROVE IInv'
<1>1. /\ worker.pc = "begin"
      /\ UNCHANGED <<db, lost, faults, queue, cancel, outside, history>>
      /\ mem' = [mem EXCEPT ![t].status = "RUNNING", ![t].stage = "STARTING"]
      /\ \/ worker' = [worker EXCEPT !.pc = "save", !.snap = mem'[t], !.ret = "spawn"]
         \/ worker' = [worker EXCEPT !.pc = "raise"]
  BY DEF Begin, SaveThen, Goto, rows
<1>2. /\ t \in Tasks /\ mem[t].status \notin {"NONE", "FAILED"} /\ mem[t].started
      /\ Busy(t) /\ TaskOK(t) /\ TypeOK /\ At = "begin" /\ t \in Downloads
      /\ mem[t] \in Records
  BY <1>1, InJob DEF At, DownloadJob
<1>3. /\ mem' \in [Tasks -> Records] /\ mem'[t] \in Records
      /\ mem'[t].status = "RUNNING" /\ mem'[t].started
      /\ \A u \in Tasks : u # t => mem'[u] = mem[u]
  <2>1. mem \in [Tasks -> Records] /\ "RUNNING" \in Statuses /\ "STARTING" \in Stages
    BY <1>2, Words DEF TypeOK
  <2>2. /\ mem' \in [Tasks -> Records]
        /\ mem'[t] = [status |-> "RUNNING", stage |-> "STARTING", started |-> mem[t].started]
        /\ \A u \in Tasks : u # t => mem'[u] = mem[u]
    BY <1>1, <1>2, <2>1 DEF Records
  <2> QED BY <1>2, <2>2
<1>4. /\ worker'.task = t
      /\ \/ /\ worker'.pc = "save" /\ worker'.ret = "spawn"
            /\ worker'.snap = mem'[t] /\ At' = "spawn"
         \/ worker'.pc = "raise" /\ At' = "raise"
  <2>1. CASE worker' = [worker EXCEPT !.pc = "save", !.snap = mem'[t], !.ret = "spawn"]
    BY <1>2, <2>1 DEF TypeOK, At
  <2>2. CASE worker' = [worker EXCEPT !.pc = "raise"]
    BY <1>2, <2>2 DEF TypeOK, At
  <2> QED BY <1>1, <2>1, <2>2
<1>5. TypeOK'
  <2>1. worker \in Workers /\ {"spawn", "raise"} \subseteq WorkerSteps
    BY <1>2 DEF TypeOK, Workers, WorkerSteps
  <2>2. worker' \in Workers
    <3>1. CASE worker' = [worker EXCEPT !.pc = "save", !.snap = mem'[t], !.ret = "spawn"]
      BY <1>3, <2>1, <3>1, WorkerGoes
    <3>2. CASE worker' = [worker EXCEPT !.pc = "raise"]
      BY <2>1, <3>2, WorkerGoes
    <3> QED BY <1>1, <3>1, <3>2
  <2> QED BY <1>1, <1>2, <1>3, <2>2 DEF TypeOK, Workers, outside, history
<1>6. \A u \in Tasks : u # t => Same(u)
  BY <1>1, <1>3 DEF Same, outside
<1>7. TaskOK(t)'
  BY <1>1, <1>2, <1>3, <1>4, Words DEF TaskOK, DownloadOK, FailedOK, Busy, Known, outside
<1>8. At' \notin BackupJob /\ mem'[t].status # "NONE"
  BY <1>1, <1>2, <1>3, <1>4 DEF BackupJob
<1> QED BY <1>1, <1>2, <1>3, <1>4, <1>5, <1>6, <1>7, <1>8, JobStep

LEMMA KeepHandleKeeps ==
    ASSUME IInv, KeepHandle, NEW t, t = worker.task PROVE IInv'
<1>1. /\ worker.pc = "keep"
      /\ UNCHANGED <<db, lost, faults, queue, cancel, proc, file, backups, history>>
      /\ mem' = [mem EXCEPT ![t].stage = "DOWNLOADING"]
      /\ worker' = [worker EXCEPT !.pc = "save", !.snap = mem'[t], !.ret = "read"]
      /\ handle' = handle \cup {t}
  BY DEF KeepHandle, SaveThen, rows
<1>2. /\ t \in Tasks /\ mem[t].status \notin {"NONE", "FAILED"} /\ mem[t].started
      /\ Busy(t) /\ TaskOK(t) /\ TypeOK /\ At = "keep" /\ t \in Downloads
      /\ mem[t] \in Records
  BY <1>1, InJob DEF At, DownloadJob
<1>3. /\ mem' \in [Tasks -> Records] /\ mem'[t] \in Records
      /\ mem'[t].status = mem[t].status /\ mem'[t].started
      /\ \A u \in Tasks : u # t => mem'[u] = mem[u]
  <2>1. mem \in [Tasks -> Records] /\ "DOWNLOADING" \in Stages
    BY <1>2, Words DEF TypeOK
  <2>2. /\ mem' \in [Tasks -> Records]
        /\ mem'[t] = [status |-> mem[t].status, stage |-> "DOWNLOADING", started |-> mem[t].started]
        /\ \A u \in Tasks : u # t => mem'[u] = mem[u]
    BY <1>1, <1>2, <2>1 DEF Records
  <2> QED BY <1>2, <2>2
<1>4. /\ worker'.pc = "save" /\ worker'.task = t /\ worker'.ret = "read"
      /\ worker'.snap = mem'[t] /\ At' = "read"
  BY <1>1, <1>2, <1>3 DEF TypeOK, At
<1>5. TypeOK'
  BY <1>1, <1>2, <1>3, <1>4 DEF TypeOK, outside, history, WorkerSteps
<1>6. \A u \in Tasks : u # t => Same(u)
  BY <1>1, <1>3 DEF Same, outside
<1>7. TaskOK(t)'
  BY <1>1, <1>2, <1>3, <1>4, Words DEF TaskOK, DownloadOK, FailedOK, Busy, Known, outside
<1>8. At' \notin BackupJob /\ mem'[t].status # "NONE"
  BY <1>1, <1>2, <1>3, <1>4 DEF BackupJob
<1> QED BY <1>1, <1>2, <1>3, <1>4, <1>5, <1>6, <1>7, <1>8, JobStep

LEMMA VerifyKeeps ==
    ASSUME IInv, Verify, NEW t, t = worker.task PROVE IInv'
<1>1. /\ worker.pc = "verify"
      /\ UNCHANGED <<db, lost, faults, queue, cancel, outside, history>>
      /\ mem' = [mem EXCEPT ![t].stage = "VERIFYING"]
      /\ worker' = [worker EXCEPT !.pc = "save", !.snap = mem'[t], !.ret = "check"]
  BY DEF Verify, SaveThen, rows
<1>2. /\ t \in Tasks /\ mem[t].status \notin {"NONE", "FAILED"} /\ mem[t].started
      /\ Busy(t) /\ TaskOK(t) /\ TypeOK /\ At = "verify" /\ t \in Downloads
      /\ mem[t] \in Records
  BY <1>1, InJob DEF At, DownloadJob
<1>3. /\ mem' \in [Tasks -> Records] /\ mem'[t] \in Records
      /\ mem'[t].status = mem[t].status /\ mem'[t].started
      /\ \A u \in Tasks : u # t => mem'[u] = mem[u]
  <2>1. mem \in [Tasks -> Records] /\ "VERIFYING" \in Stages
    BY <1>2, Words DEF TypeOK
  <2>2. /\ mem' \in [Tasks -> Records]
        /\ mem'[t] = [status |-> mem[t].status, stage |-> "VERIFYING", started |-> mem[t].started]
        /\ \A u \in Tasks : u # t => mem'[u] = mem[u]
    BY <1>1, <1>2, <2>1 DEF Records
  <2> QED BY <1>2, <2>2
<1>4. /\ worker'.pc = "save" /\ worker'.task = t /\ worker'.ret = "check"
      /\ worker'.snap = mem'[t] /\ At' = "check"
  BY <1>1, <1>2, <1>3 DEF TypeOK, At
<1>5. TypeOK'
  BY <1>1, <1>2, <1>3, <1>4 DEF TypeOK, outside, history, WorkerSteps
<1>6. \A u \in Tasks : u # t => Same(u)
  BY <1>1, <1>3 DEF Same, outside
<1>7. TaskOK(t)'
  BY <1>1, <1>2, <1>3, <1>4, Words DEF TaskOK, DownloadOK, FailedOK, Busy, Known, outside
<1>8. At' \notin BackupJob /\ mem'[t].status # "NONE"
  BY <1>1, <1>2, <1>3, <1>4 DEF BackupJob
<1> QED BY <1>1, <1>2, <1>3, <1>4, <1>5, <1>6, <1>7, <1>8, JobStep

LEMMA SpawnKeeps ==
    ASSUME IInv, Spawn, NEW t, t = worker.task PROVE IInv'
<1>1. /\ worker.pc = "spawn"
      /\ UNCHANGED <<mem, db, lost, faults, queue, cancel, handle, file, backups, history>>
      /\ \/ proc' = [proc EXCEPT ![t] = "running"] /\ worker' = [worker EXCEPT !.pc = "keep"]
         \/ proc' = proc /\ worker' = [worker EXCEPT !.pc = "raise"]
  BY DEF Spawn, Goto, rows
<1>2. /\ t \in Tasks /\ mem[t].status \notin {"NONE", "FAILED"} /\ mem[t].started
      /\ Busy(t) /\ TaskOK(t) /\ TypeOK /\ At = "spawn" /\ t \in Downloads
  BY <1>1, InJob DEF At, DownloadJob
<1>3. /\ proc' \in [Tasks -> {"none", "running", "ok", "failed"}]
      /\ \A u \in Tasks : u # t => proc'[u] = proc[u]
      /\ \/ proc'[t] = "running" /\ worker'.pc = "keep"
         \/ proc'[t] = "none" /\ worker'.pc = "raise"
  BY <1>1, <1>2 DEF TypeOK, TaskOK, DownloadOK
<1>4. worker'.pc \in {"keep", "raise"} /\ worker'.task = t /\ At' = worker'.pc
  BY <1>1, <1>2 DEF TypeOK, At
<1>5. TypeOK'
  BY <1>1, <1>2, <1>3 DEF TypeOK, history, WorkerSteps
<1>6. \A u \in Tasks : u # t => Same(u)
  BY <1>1, <1>3 DEF Same
<1>7. TaskOK(t)'
  BY <1>1, <1>2, <1>3, <1>4, Words DEF TaskOK, DownloadOK, FailedOK, Busy
<1>8. At' \notin BackupJob /\ mem'[t].started /\ mem'[t].status # "NONE"
  BY <1>1, <1>2, <1>4 DEF BackupJob
<1> QED BY <1>1, <1>2, <1>4, <1>5, <1>6, <1>7, <1>8, JobStep

LEMMA ReadLineKeeps ==
    ASSUME IInv, ReadLine, NEW t, t = worker.task PROVE IInv'
<1>1. /\ worker.pc = "read" /\ proc[t] = "running"
      /\ UNCHANGED <<mem, db, lost, faults, queue, cancel, handle, file, backups, history>>
      /\ \/ proc' = [proc EXCEPT ![t] = "failed"] /\ UNCHANGED worker
         \/ UNCHANGED proc /\ worker' = [worker EXCEPT !.pc = "line"]
  BY DEF ReadLine, Killed, rows, Goto
<1>2. /\ t \in Tasks /\ mem[t].status \notin {"NONE", "FAILED"} /\ mem[t].started
      /\ Busy(t) /\ TaskOK(t) /\ TypeOK /\ At = "read" /\ t \in Downloads
  BY <1>1, InJob DEF At, DownloadJob
<1>3. /\ proc' \in [Tasks -> {"none", "running", "ok", "failed"}]
      /\ proc'[t] \in {"running", "failed"} /\ \A u \in Tasks : u # t => proc'[u] = proc[u]
  BY <1>1, <1>2 DEF TypeOK
<1>4. worker'.pc \in {"read", "line"} /\ worker'.task = t /\ At' = worker'.pc
  BY <1>1, <1>2 DEF TypeOK, At
<1>5. TypeOK'
  BY <1>1, <1>2, <1>3 DEF TypeOK, history, WorkerSteps
<1>6. \A u \in Tasks : u # t => Same(u)
  BY <1>1, <1>3 DEF Same
<1>7. TaskOK(t)'
  BY <1>1, <1>2, <1>3, <1>4, Words DEF TaskOK, DownloadOK, FailedOK, Busy
<1>8. At' \notin BackupJob /\ mem'[t].started /\ mem'[t].status # "NONE"
  BY <1>1, <1>2, <1>4 DEF BackupJob
<1> QED BY <1>1, <1>2, <1>4, <1>5, <1>6, <1>7, <1>8, JobStep

LEMMA UseLineKeeps ==
    ASSUME IInv, UseLine, NEW t, t = worker.task PROVE IInv'
<1>1. /\ worker.pc = "line"
      /\ UNCHANGED <<db, lost, faults, queue, cancel, outside, history>>
      /\ \E stage \in {"DOWNLOADING", "POST_PROCESSING"} : mem' = [mem EXCEPT ![t].stage = stage]
      /\ \/ worker' = [worker EXCEPT !.pc = "save", !.snap = mem'[t], !.ret = "read"]
         \/ worker' = [worker EXCEPT !.pc = "read"]
  BY DEF UseLine, SaveThen, rows, Goto
<1>2. /\ t \in Tasks /\ mem[t].status \notin {"NONE", "FAILED"} /\ mem[t].started
      /\ Busy(t) /\ TaskOK(t) /\ TypeOK /\ At = "line" /\ t \in Downloads
      /\ mem[t] \in Records
  BY <1>1, InJob DEF At, DownloadJob
<1>3. /\ mem' \in [Tasks -> Records] /\ mem'[t] \in Records
      /\ mem'[t].status = mem[t].status /\ mem'[t].started
      /\ \A u \in Tasks : u # t => mem'[u] = mem[u]
  <2>1. mem \in [Tasks -> Records] /\ {"DOWNLOADING", "POST_PROCESSING"} \subseteq Stages
    BY <1>2, Words DEF TypeOK
  <2>2. PICK stage \in Stages : mem' = [mem EXCEPT ![t].stage = stage]
    BY <1>1, <2>1
  <2>3. /\ mem' \in [Tasks -> Records]
        /\ mem'[t] = [status |-> mem[t].status, stage |-> stage, started |-> mem[t].started]
        /\ \A u \in Tasks : u # t => mem'[u] = mem[u]
    BY <1>2, <2>1, <2>2 DEF Records
  <2> QED BY <1>2, <2>3
<1>4. /\ worker'.task = t /\ At' = "read"
      /\ worker'.pc = "read" \/ (/\ worker'.pc = "save" /\ worker'.ret = "read"
                                 /\ worker'.snap = mem'[t])
  <2>1. CASE worker' = [worker EXCEPT !.pc = "save", !.snap = mem'[t], !.ret = "read"]
    BY <1>2, <2>1 DEF TypeOK, At
  <2>2. CASE worker' = [worker EXCEPT !.pc = "read"]
    BY <1>2, <2>2 DEF TypeOK, At
  <2> QED BY <1>1, <2>1, <2>2
<1>5. TypeOK'
  <2>1. worker \in Workers /\ "read" \in WorkerSteps
    BY <1>2 DEF TypeOK, Workers, WorkerSteps
  <2>2. worker' \in Workers
    <3>1. CASE worker' = [worker EXCEPT !.pc = "save", !.snap = mem'[t], !.ret = "read"]
      BY <1>3, <2>1, <3>1, WorkerGoes
    <3>2. CASE worker' = [worker EXCEPT !.pc = "read"]
      BY <2>1, <3>2, WorkerGoes
    <3> QED BY <1>1, <3>1, <3>2
  <2> QED BY <1>1, <1>2, <1>3, <2>2 DEF TypeOK, Workers, outside, history
<1>6. \A u \in Tasks : u # t => Same(u)
  BY <1>1, <1>3 DEF Same, outside
<1>7. TaskOK(t)'
  BY <1>1, <1>2, <1>3, <1>4, Words DEF TaskOK, DownloadOK, FailedOK, Busy, Known, outside
<1>8. At' \notin BackupJob /\ mem'[t].status # "NONE"
  BY <1>1, <1>2, <1>3, <1>4 DEF BackupJob
<1> QED BY <1>1, <1>2, <1>3, <1>4, <1>5, <1>6, <1>7, <1>8, JobStep

LEMMA WaitedKeeps ==
    ASSUME IInv, Waited, NEW t, t = worker.task PROVE IInv'
<1>1. /\ worker.pc = "read" /\ proc[t] # "running"
      /\ UNCHANGED <<mem, db, lost, faults, queue, cancel, outside, history>>
      /\ worker' = [worker EXCEPT !.pc =
                      IF mem[t].status \in Cancelled THEN "return"
                      ELSE IF proc[t] = "failed" THEN "raise" ELSE "verify"]
  BY DEF Waited, rows, Goto
<1>2. /\ t \in Tasks /\ mem[t].status \notin {"NONE", "FAILED"} /\ mem[t].started
      /\ Busy(t) /\ TaskOK(t) /\ TypeOK /\ At = "read" /\ t \in Downloads
  BY <1>1, InJob DEF At, DownloadJob
<1>3. /\ worker'.task = t /\ At' = worker'.pc
      /\ \/ worker'.pc = "return" /\ mem[t].status \in Cancelled
         \/ worker'.pc = "raise" /\ proc[t] = "failed"
         \/ worker'.pc = "verify" /\ proc[t] = "ok"
  <2>1. proc[t] \in {"ok", "failed"}
    BY <1>1, <1>2 DEF TypeOK, TaskOK, DownloadOK
  <2> QED BY <1>1, <1>2, <2>1 DEF TypeOK, At
<1>4. TypeOK'
  BY <1>1, <1>2 DEF TypeOK, outside, history, WorkerSteps
<1>5. \A u \in Tasks : u # t => Same(u)
  BY <1>1 DEF Same, outside
<1>6. TaskOK(t)'
  BY <1>1, <1>2, <1>3 DEF TaskOK, DownloadOK, FailedOK, Busy, outside
<1>7. At' \notin BackupJob /\ mem'[t].started /\ mem'[t].status # "NONE"
  BY <1>1, <1>2, <1>3 DEF BackupJob
<1> QED BY <1>1, <1>2, <1>3, <1>4, <1>5, <1>6, <1>7, JobStep

LEMMA CheckOutputKeeps ==
    ASSUME IInv, CheckOutput, NEW t, t = worker.task PROVE IInv'
<1>1. /\ worker.pc = "check"
      /\ UNCHANGED <<db, lost, faults, queue, cancel, outside, history>>
      /\ \/ /\ mem' = [mem EXCEPT ![t].status = "COMPLETED", ![t].stage = "COMPLETED"]
            /\ worker' = [worker EXCEPT !.pc = "save", !.snap = mem'[t], !.ret = "return"]
         \/ UNCHANGED mem /\ worker' = [worker EXCEPT !.pc = "raise"]
  BY DEF CheckOutput, SaveThen, Goto, rows
<1>2. /\ t \in Tasks /\ mem[t].status \notin {"NONE", "FAILED"} /\ mem[t].started
      /\ Busy(t) /\ TaskOK(t) /\ TypeOK /\ At = "check" /\ t \in Downloads
      /\ mem[t] \in Records
  BY <1>1, InJob DEF At, DownloadJob
<1>3. /\ mem' \in [Tasks -> Records] /\ mem'[t] \in Records /\ mem'[t].started
      /\ \A u \in Tasks : u # t => mem'[u] = mem[u]
      /\ mem'[t].status \in {"COMPLETED", mem[t].status}
  <2>1. CASE /\ mem' = [mem EXCEPT ![t].status = "COMPLETED", ![t].stage = "COMPLETED"]
             /\ worker' = [worker EXCEPT !.pc = "save", !.snap = mem'[t], !.ret = "return"]
    <3>1. mem \in [Tasks -> Records] /\ "COMPLETED" \in Statuses /\ "COMPLETED" \in Stages
      BY <1>2, Words DEF TypeOK
    <3>2. /\ mem' \in [Tasks -> Records]
          /\ mem'[t] = [status |-> "COMPLETED", stage |-> "COMPLETED", started |-> mem[t].started]
          /\ \A u \in Tasks : u # t => mem'[u] = mem[u]
      BY <1>2, <2>1, <3>1 DEF Records
    <3> QED BY <1>2, <3>2
  <2>2. CASE UNCHANGED mem
    BY <1>2, <2>2 DEF TypeOK
  <2> QED BY <1>1, <2>1, <2>2
<1>4. /\ worker'.task = t
      /\ \/ /\ worker'.pc = "save" /\ worker'.ret = "return"
            /\ worker'.snap = mem'[t] /\ At' = "return"
            /\ mem'[t].status = "COMPLETED"
         \/ worker'.pc = "raise" /\ At' = "raise" /\ mem' = mem
  <2>1. worker.task = t /\ worker = [pc |-> worker.pc, task |-> worker.task,
                                      snap |-> worker.snap, ret |-> worker.ret]
    BY <1>2 DEF TypeOK
  <2>2. CASE /\ mem' = [mem EXCEPT ![t].status = "COMPLETED", ![t].stage = "COMPLETED"]
             /\ worker' = [worker EXCEPT !.pc = "save", !.snap = mem'[t], !.ret = "return"]
    <3>1. mem[t] \in Records /\ mem \in [Tasks -> Records]
      BY <1>2 DEF TypeOK
    <3>2. mem'[t].status = "COMPLETED"
      BY <1>2, <2>2, <3>1 DEF Records
    <3> QED BY <2>1, <2>2, <3>2 DEF At
  <2>3. CASE UNCHANGED mem /\ worker' = [worker EXCEPT !.pc = "raise"]
    BY <2>1, <2>3 DEF At
  <2> QED BY <1>1, <2>2, <2>3
<1>5. TypeOK'
  <2>1. worker \in Workers /\ {"return", "raise"} \subseteq WorkerSteps
    BY <1>2 DEF TypeOK, Workers, WorkerSteps
  <2>2. worker' \in Workers
    <3>1. CASE worker' = [worker EXCEPT !.pc = "save", !.snap = mem'[t], !.ret = "return"]
      BY <1>3, <2>1, <3>1, WorkerGoes
    <3>2. CASE worker' = [worker EXCEPT !.pc = "raise"]
      BY <2>1, <3>2, WorkerGoes
    <3> QED BY <1>1, <3>1, <3>2
  <2> QED BY <1>1, <1>2, <1>3, <2>2 DEF TypeOK, Workers, outside, history
<1>6. \A u \in Tasks : u # t => Same(u)
  BY <1>1, <1>3 DEF Same, outside
<1>7. TaskOK(t)'
  BY <1>1, <1>2, <1>3, <1>4, Words DEF TaskOK, DownloadOK, FailedOK, Busy, Known, outside
<1>8. At' \notin BackupJob /\ mem'[t].status # "NONE"
  BY <1>1, <1>2, <1>3, <1>4 DEF BackupJob
<1> QED BY <1>1, <1>2, <1>3, <1>4, <1>5, <1>6, <1>7, <1>8, JobStep

LEMMA ZipKeeps ==
    ASSUME IInv, Zip, NEW t, t = worker.task PROVE IInv'
<1>1. /\ worker.pc = "zip"
      /\ UNCHANGED <<mem, db, lost, faults, queue, cancel, proc, handle, backups, history>>
      /\ file' = [file EXCEPT ![t] = {"archive"}] \/ file' = file
      /\ \E step \in {"hash", "raise"} : worker' = [worker EXCEPT !.pc = step]
  BY DEF Zip, Goto, rows
<1>2. /\ t \in Tasks /\ mem[t].status \notin {"NONE", "FAILED"} /\ mem[t].started
      /\ Busy(t) /\ TaskOK(t) /\ TypeOK /\ At = "zip" /\ t \notin Downloads
  BY <1>1, InJob DEF At, BackupJob
<1>3. /\ file' \in [Tasks -> SUBSET Files] /\ file'[t] \in {{"archive"}, file[t]}
      /\ \A u \in Tasks : u # t => file'[u] = file[u]
  BY <1>1, <1>2 DEF TypeOK, Files
<1>4. worker'.pc \in {"hash", "raise"} /\ worker'.task = t /\ At' = worker'.pc
  BY <1>1, <1>2 DEF TypeOK, At
<1>5. TypeOK'
  BY <1>1, <1>2, <1>3 DEF TypeOK, history, WorkerSteps
<1>6. \A u \in Tasks : u # t => Same(u)
  BY <1>1, <1>3 DEF Same
<1>7. TaskOK(t)'
  BY <1>1, <1>2, <1>3, <1>4, Words DEF TaskOK, BackupOK, FailedOK, Busy, Cancelling, Known
<1>8. /\ At' \notin DownloadJob /\ worker'.pc # "save"
      /\ mem'[t].started /\ mem'[t].status # "NONE"
  BY <1>1, <1>2, <1>4 DEF DownloadJob
<1> QED BY <1>1, <1>2, <1>4, <1>5, <1>6, <1>7, <1>8, JobStep

LEMMA HashKeeps ==
    ASSUME IInv, Hash, NEW t, t = worker.task PROVE IInv'
<1>1. /\ worker.pc = "hash"
      /\ UNCHANGED <<mem, db, lost, faults, queue, cancel, outside, history>>
      /\ worker' = [worker EXCEPT !.pc = IF file[t] = {} THEN "raise" ELSE "record"]
  BY DEF Hash, rows, Goto
<1>2. /\ t \in Tasks /\ mem[t].status \notin {"NONE", "FAILED"} /\ mem[t].started
      /\ Busy(t) /\ TaskOK(t) /\ TypeOK /\ At = "hash" /\ t \notin Downloads
      /\ file[t] \subseteq {"archive"}
  <2>1. /\ t \in Tasks /\ TaskOK(t) /\ TypeOK /\ At = "hash" /\ t \notin Downloads
    BY <1>1, InJob DEF At, BackupJob
  <2>2. file[t] \subseteq {"archive"}
    BY <2>1 DEF TaskOK, BackupOK
  <2> QED BY <1>1, <2>1, <2>2, InJob
<1>3. /\ worker'.task = t /\ At' = worker'.pc
      /\ worker'.pc = "raise" \/ (worker'.pc = "record" /\ "archive" \in file[t])
  BY <1>1, <1>2 DEF TypeOK, At
<1>4. TypeOK'
  BY <1>1, <1>2 DEF TypeOK, outside, history, WorkerSteps
<1>5. \A u \in Tasks : u # t => Same(u)
  BY <1>1 DEF Same, outside
<1>6. TaskOK(t)'
  BY <1>1, <1>2, <1>3, Words DEF TaskOK, BackupOK, FailedOK, Busy, Cancelling, Known, outside
<1>7. /\ At' \notin DownloadJob /\ worker'.pc # "save"
      /\ mem'[t].started /\ mem'[t].status # "NONE"
  BY <1>1, <1>2, <1>3 DEF DownloadJob
<1>8. worker'.pc \notin {"idle", "taken"}
  BY <1>3
<1> QED BY <1>1, <1>2, <1>3, <1>4, <1>5, <1>6, <1>7, <1>8, JobStep

LEMMA RecordBackupKeeps ==
    ASSUME IInv, RecordBackup, NEW t, t = worker.task PROVE IInv'
<1>1. /\ worker.pc = "record"
      /\ UNCHANGED <<mem, db, lost, faults, queue, cancel, proc, handle, file, history>>
      /\ backups' = backups \cup {t} /\ worker' = [worker EXCEPT !.pc = "return"]
  BY DEF RecordBackup, rows
<1>2. /\ t \in Tasks /\ mem[t].status \notin {"NONE", "FAILED"} /\ mem[t].started
      /\ Busy(t) /\ TaskOK(t) /\ TypeOK /\ At = "record" /\ t \notin Downloads
  BY <1>1, InJob DEF At, BackupJob
<1>3. worker'.pc = "return" /\ worker'.task = t /\ At' = "return"
  BY <1>1, <1>2 DEF TypeOK, At
<1>4. TypeOK'
  BY <1>1, <1>2 DEF TypeOK, history, WorkerSteps
<1>5. \A u \in Tasks : u # t => Same(u)
  BY <1>1 DEF Same
<1>6. TaskOK(t)'
  BY <1>1, <1>2, <1>3, Words DEF TaskOK, BackupOK, FailedOK, Busy, Cancelling, Known
<1>7. /\ At' \notin DownloadJob /\ At' \notin BackupJob /\ worker'.pc # "save"
      /\ mem'[t].started /\ mem'[t].status # "NONE"
  BY <1>1, <1>2, <1>3 DEF DownloadJob, BackupJob
<1> QED BY <1>1, <1>2, <1>3, <1>4, <1>5, <1>6, <1>7, JobStep

-----------------------------------------------------------------------------
(* The worker between jobs                                                 *)

LEMMA TakeKeeps == ASSUME IInv, Take PROVE IInv'
<1>0. TypeOK /\ QueueOK
  BY DEF IInv
<1>1. /\ worker.pc = "idle" /\ queue # <<>> /\ queue' = Tail(queue)
      /\ worker' = [Idle EXCEPT !.pc = "taken", !.task = Head(queue)]
      /\ UNCHANGED <<mem, db, lost, faults, cancel, outside, history>>
  BY DEF Take, rows
<1>2. /\ Len(queue) \in Nat \ {0} /\ DOMAIN queue = 1 .. Len(queue)
      /\ Head(queue) = queue[1] /\ queue[1] \in Tasks
      /\ queue' \in Seq(Tasks) /\ DOMAIN queue' = 1 .. (Len(queue) - 1)
      /\ \A i \in DOMAIN queue' : queue'[i] = queue[i + 1]
  BY <1>0, <1>1 DEF TypeOK
<1>3. /\ worker'.pc = "taken" /\ worker'.task = queue[1] /\ At' = "taken"
      /\ worker'.snap = Absent /\ worker'.ret = "idle"
  BY <1>1, <1>2 DEF Idle, At
<1>4. Known(queue[1]) /\ ~mem[queue[1]].started
  BY <1>0, <1>2 DEF QueueOK
<1>5. TypeOK'
  BY <1>0, <1>1, <1>2, Words DEF TypeOK, Idle, outside, history, WorkerSteps
<1>6. RecordsOK'
  BY <1>1 DEF IInv, RecordsOK, Known, Fresh, outside
<1>7. QueueOK'
  <2>1. \A i \in DOMAIN queue' : i + 1 \in DOMAIN queue /\ i \in Nat
    BY <1>2
  <2>2. ASSUME NEW i \in DOMAIN queue'
        PROVE  mem'[queue'[i]].status # "NONE" /\ ~mem'[queue'[i]].started
    <3>1. queue'[i] = queue[i + 1] /\ i + 1 \in DOMAIN queue
      BY <1>2, <2>1
    <3> QED BY <1>0, <1>1, <3>1 DEF QueueOK, Known
  <2>3. ASSUME NEW i \in DOMAIN queue', NEW j \in DOMAIN queue', queue'[i] = queue'[j]
        PROVE  i = j
    BY <1>0, <1>2, <2>1, <2>3 DEF QueueOK
  <2>4. ASSUME NEW i \in DOMAIN queue' PROVE queue'[i] # queue[1]
    <3>1. i + 1 \in DOMAIN queue /\ 1 \in DOMAIN queue /\ i + 1 # 1
      BY <1>2, <2>1
    <3> QED BY <1>0, <1>2, <3>1 DEF QueueOK
  <2> QED BY <1>3, <2>2, <2>3, <2>4 DEF QueueOK, Known
<1>8. WorkerOK'
  BY <1>1, <1>2, <1>3, <1>4 DEF WorkerOK, Known, DownloadJob, BackupJob
<1>9. \A u \in Tasks : ~Busy(u) /\ ~Busy(u)' /\ Same(u) /\ (Cancelling(u)' <=> Cancelling(u))
  BY <1>1, <1>3 DEF Busy, Same, Cancelling, outside
<1>10. CancelOK'
  BY <1>1, <1>9 DEF IInv, CancelOK, Known
<1>11. RowsFollow'
  BY <1>1, <1>9 DEF IInv, RowsFollow, Known
<1>12. \A u \in Tasks : TaskOK(u)'
  BY <1>9, OtherTask DEF IInv
<1> QED BY <1>5, <1>6, <1>7, <1>8, <1>10, <1>11, <1>12 DEF IInv

LEMMA SkipKeeps == ASSUME IInv, Skip PROVE IInv'
<1>1. /\ worker.pc = "taken" /\ worker' = Idle
      /\ UNCHANGED <<mem, db, lost, faults, queue, cancel, outside, history>>
  BY DEF Skip, rows
<1>2. worker'.pc = "idle"
  BY <1>1 DEF Idle
<1>3. TypeOK'
  BY <1>1, Words DEF IInv, TypeOK, Idle, outside, history, WorkerSteps
<1>4. \A u \in Tasks : ~Busy(u) /\ ~Busy(u)' /\ Same(u) /\ (Cancelling(u)' <=> Cancelling(u))
  BY <1>1, <1>2 DEF Busy, Same, Cancelling, outside
<1>5. RecordsOK'
  BY <1>1 DEF IInv, RecordsOK, Known, Fresh, outside
<1>6. QueueOK' /\ WorkerOK'
  BY <1>1, <1>2 DEF IInv, QueueOK, WorkerOK, Known
<1>7. CancelOK' /\ RowsFollow'
  BY <1>1, <1>4 DEF IInv, CancelOK, RowsFollow, Known
<1>8. \A u \in Tasks : TaskOK(u)'
  BY <1>4, OtherTask DEF IInv
<1> QED BY <1>3, <1>5, <1>6, <1>7, <1>8 DEF IInv

LEMMA StartKeeps == ASSUME IInv, Start, NEW t, t = worker.task PROVE IInv'
<1>0. TypeOK /\ RecordsOK /\ QueueOK /\ RowsFollow /\ WorkerOK
  BY DEF IInv
<1>1. /\ worker.pc = "taken" /\ cancel.pc = "idle"
      /\ mem' = [mem EXCEPT ![t] = [status |-> "STARTING", stage |-> "STARTING", started |-> TRUE]]
      /\ Save(t, mem'[t])
      /\ worker' = [worker EXCEPT !.pc = IF t \in Downloads THEN "begin" ELSE "zip"]
      /\ UNCHANGED <<queue, cancel, outside, history>>
  BY DEF Start, LockFree
<1>2. t \in Tasks /\ Known(t) /\ ~mem[t].started /\ Fresh(t)
  BY <1>0, <1>1 DEF WorkerOK, RecordsOK
<1>3. TaskOK(t) /\ db[t].status # "COMPLETED"
  BY <1>2 DEF IInv, TaskOK, DownloadOK, BackupOK, Fresh
<1>4. /\ mem' \in [Tasks -> Records]
      /\ mem'[t] = [status |-> "STARTING", stage |-> "STARTING", started |-> TRUE]
      /\ \A u \in Tasks : u # t => mem'[u] = mem[u]
  <2>1. [status |-> "STARTING", stage |-> "STARTING", started |-> TRUE] \in Records
    BY Words DEF Records
  <2> QED BY <1>0, <1>1, <1>2, <2>1, SetRecord DEF TypeOK
<1>5. /\ db' \in [Tasks -> Records] /\ lost' \subseteq Tasks /\ faults' \in 0 .. MaxFaults
      /\ db'[t] = db[t] \/ db'[t].status = "STARTING"
      /\ \A u \in Tasks : u # t => db'[u] = db[u] /\ (u \in lost' <=> u \in lost)
  BY <1>0, <1>1, <1>2, <1>4, SaveIs DEF TypeOK
<1>6. /\ worker'.task = t /\ At' = worker'.pc
      /\ worker'.pc = IF t \in Downloads THEN "begin" ELSE "zip"
  BY <1>0, <1>1 DEF TypeOK, At
<1>7. TypeOK'
  BY <1>0, <1>1, <1>4, <1>5 DEF TypeOK, outside, history, WorkerSteps
<1>8. /\ \A u \in Tasks : ~Busy(u) /\ ~Cancelling(u) /\ ~Cancelling(u)'
      /\ \A u \in Tasks : u # t => Same(u) /\ ~Busy(u)'
      /\ Busy(t)'
  BY <1>1, <1>4, <1>5, <1>6 DEF Busy, Cancelling, Same, outside
<1>9. RecordsOK'
  BY <1>0, <1>4, <1>5, <1>8 DEF RecordsOK, Known, Fresh, Same
<1>10. QueueOK'
  <2>1. \A i \in DOMAIN queue : queue[i] \in Tasks /\ queue[i] # t
    BY <1>0, <1>1 DEF QueueOK, TypeOK
  <2> QED BY <1>0, <1>1, <1>4, <1>6, <2>1 DEF QueueOK, Known
<1>11. WorkerOK'
  BY <1>2, <1>4, <1>6 DEF WorkerOK, Known, DownloadJob, BackupJob
<1>12. CancelOK'
  BY <1>1 DEF CancelOK
<1>13. RowsFollow'
  BY <1>0, <1>8 DEF RowsFollow, Known, Same
<1>14. TaskOK(t)'
  BY <1>1, <1>2, <1>4, <1>5, <1>6, <1>8, <1>3, Words
  DEF TaskOK, DownloadOK, BackupOK, FailedOK, Known, Fresh, outside
<1>15. \A u \in Tasks : TaskOK(u)'
  BY <1>8, <1>14, OtherTask DEF IInv
<1> QED BY <1>7, <1>9, <1>10, <1>11, <1>12, <1>13, <1>15 DEF IInv

LEMMA FinallyKeeps == ASSUME IInv, Finally, NEW t, t = worker.task PROVE IInv'
<1>0. TypeOK /\ RecordsOK /\ QueueOK /\ RowsFollow
  BY DEF IInv
<1>1. /\ worker.pc = "finally" /\ cancel.pc = "idle" /\ worker' = Idle
      /\ Save(t, mem[t])
      /\ UNCHANGED <<mem, queue, cancel, outside, history>>
  BY DEF Finally, LockFree
<1>2. /\ t \in Tasks /\ Known(t) /\ mem[t].started /\ Busy(t) /\ TaskOK(t)
      /\ mem[t] \in Records /\ db[t] \in Records /\ At = "finally"
  BY <1>1, InJob DEF At
<1>4. /\ db' \in [Tasks -> Records] /\ lost' \subseteq Tasks /\ faults' \in 0 .. MaxFaults
      /\ db'[t] = db[t] \/ db'[t].status = mem[t].status
      /\ t \in lost' \/ db'[t] = mem[t]
      /\ \A u \in Tasks : u # t => db'[u] = db[u] /\ (u \in lost' <=> u \in lost)
  BY <1>0, <1>1, <1>2, SaveIs
<1>5. worker'.pc = "idle"
  BY <1>1 DEF Idle
<1>6. TypeOK'
  BY <1>0, <1>1, <1>4, Words DEF TypeOK, Idle, outside, history, WorkerSteps
<1>7. /\ \A u \in Tasks : ~Busy(u)' /\ ~Cancelling(u) /\ ~Cancelling(u)'
      /\ \A u \in Tasks : u # t => Same(u) /\ ~Busy(u)
  BY <1>1, <1>4, <1>5 DEF Busy, Cancelling, Same, outside
<1>8. RecordsOK'
  BY <1>0, <1>1, <1>2, <1>4 DEF RecordsOK, Known, Fresh, outside
<1>9. QueueOK' /\ WorkerOK'
  BY <1>0, <1>1, <1>5 DEF QueueOK, WorkerOK, Known
<1>10. CancelOK'
  BY <1>1 DEF CancelOK
<1>11. RowsFollow'
  BY <1>0, <1>1, <1>4, <1>7 DEF RowsFollow, Known, Same
<1>12. TaskOK(t)'
  BY <1>1, <1>2, <1>4, <1>7, Words DEF TaskOK, DownloadOK, BackupOK, FailedOK, Known, outside
<1>13. \A u \in Tasks : TaskOK(u)'
  BY <1>7, <1>12, OtherTask DEF IInv
<1> QED BY <1>6, <1>8, <1>9, <1>10, <1>11, <1>13 DEF IInv

-----------------------------------------------------------------------------
(* The child process, a restart, and the steps that only answer a caller   *)

LEMMA ChildStep ==
    ASSUME IInv, NEW t \in Tasks, proc[t] = "running", proc'[t] # "none", TypeOK', TaskOK(t)',
           UNCHANGED <<mem, db, lost, queue, worker, cancel, backups>>,
           \A u \in Tasks : u # t => Same(u)
    PROVE  IInv'
<1>1. RecordsOK'
  BY DEF IInv, RecordsOK, Known, Fresh, Same
<1>2. QueueOK' /\ WorkerOK'
  BY DEF IInv, QueueOK, WorkerOK, At, Known
<1>3. CancelOK' /\ RowsFollow'
  BY DEF IInv, CancelOK, RowsFollow, Known, Busy, Cancelling
<1>4. \A u \in Tasks : TaskOK(u)'
  BY OtherTask DEF IInv, Busy, Cancelling
<1> QED BY <1>1, <1>2, <1>3, <1>4 DEF IInv

LEMMA ProgressKeeps == ASSUME IInv, NEW t \in Tasks, Progress(t) PROVE IInv'
<1>0. TypeOK /\ TaskOK(t)
  BY DEF IInv
<1>1. /\ proc[t] = "running"
      /\ UNCHANGED <<mem, db, lost, faults, queue, worker, cancel, proc, handle, backups, history>>
      /\ file' \in [Tasks -> SUBSET Files]
      /\ file'[t] \subseteq file[t] \cup {"part", "stream"}
      /\ \A u \in Tasks : u # t => file'[u] = file[u]
  BY <1>0 DEF Progress, TypeOK, Files, rows
<1>2. TypeOK'
  BY <1>0, <1>1 DEF TypeOK, history
<1>3. \A u \in Tasks : u # t => Same(u)
  BY <1>1 DEF Same
<1>4. TaskOK(t)'
  BY <1>0, <1>1 DEF TaskOK, DownloadOK, BackupOK, FailedOK, Busy, Cancelling, At
<1> QED BY <1>1, <1>2, <1>3, <1>4, ChildStep

LEMMA ExitKeeps == ASSUME IInv, NEW t \in Tasks, Exit(t) PROVE IInv'
<1>0. TypeOK /\ TaskOK(t)
  BY DEF IInv
<1>1. /\ proc[t] = "running"
      /\ UNCHANGED <<mem, db, lost, faults, queue, worker, cancel, handle, backups, history>>
      /\ proc' \in [Tasks -> {"none", "running", "ok", "failed"}]
      /\ file' \in [Tasks -> SUBSET Files]
      /\ proc'[t] \in {"ok", "failed"}
      /\ file'[t] \in {{"output"}, file[t]}
      /\ \A u \in Tasks : u # t => file'[u] = file[u] /\ proc'[u] = proc[u]
  BY <1>0 DEF Exit, TypeOK, Files, rows
<1>2. TypeOK'
  BY <1>0, <1>1 DEF TypeOK, history
<1>3. \A u \in Tasks : u # t => Same(u)
  BY <1>1 DEF Same
<1>4. TaskOK(t)'
  BY <1>0, <1>1 DEF TaskOK, DownloadOK, BackupOK, FailedOK, Busy, Cancelling, At
<1> QED BY <1>1, <1>2, <1>3, <1>4, ChildStep

LEMMA RestartKeeps == ASSUME IInv, Restart PROVE IInv'
<1>0. TypeOK /\ RecordsOK
  BY DEF IInv
<1>1. /\ \A t \in Tasks : mem'[t] = Absent
      /\ queue' = <<>> /\ worker'.pc = "idle" /\ cancel'.pc = "idle"
      /\ lost' = {} /\ UNCHANGED <<db, proc, file, backups>>
  BY DEF Restart, Idle, NoCancel
<1>2. TypeOK'
  <2>1. mem' \in [Tasks -> Records] /\ worker' = Idle /\ cancel' = NoCancel /\ handle' = {}
    BY Words DEF Restart
  <2>2. faults' \in 0 .. MaxFaults
    BY <1>0, TasksAssumption DEF Restart, TypeOK
  <2> QED BY <1>0, <2>1, <2>2, Words
      DEF Restart, TypeOK, Idle, NoCancel, WorkerSteps, CancelSteps
<1>3. \A t \in Tasks : ~Known(t)' /\ ~Busy(t)' /\ ~Cancelling(t)'
  BY <1>1, Words DEF Known, Busy, Cancelling
<1>4. RecordsOK'
  BY <1>0, <1>1, <1>3, Words DEF RecordsOK, Known, Fresh
<1>5. QueueOK' /\ WorkerOK' /\ CancelOK' /\ RowsFollow'
  BY <1>1, <1>3 DEF QueueOK, WorkerOK, CancelOK, RowsFollow
<1>6. \A t \in Tasks : TaskOK(t)'
  BY <1>1, <1>3, Words DEF IInv, TaskOK, DownloadOK, BackupOK, FailedOK, Known
<1> QED BY <1>2, <1>4, <1>5, <1>6 DEF IInv

(* Nothing but a list of answers changes, or nothing at all. *)
LEMMA AnswerKeeps ==
    ASSUME IInv, TypeOK', UNCHANGED <<mem, db, lost, faults, queue, worker, cancel, outside>>
    PROVE  IInv'
<1>1. RecordsOK' /\ QueueOK' /\ WorkerOK' /\ CancelOK' /\ RowsFollow'
  BY DEF IInv, RecordsOK, QueueOK, WorkerOK, CancelOK, RowsFollow, Known, Fresh, Busy,
         Cancelling, At, outside
<1>2. \A u \in Tasks : TaskOK(u)'
  BY OtherTask DEF IInv, Same, Busy, Cancelling, outside
<1> QED BY <1>1, <1>2 DEF IInv

LEMMA NextIInv == IInv /\ [Next]_vars => IInv'
<1> SUFFICES ASSUME IInv, [Next]_vars PROVE IInv'
  OBVIOUS
<1>0. TypeOK
  BY DEF IInv
<1>1. ASSUME NEW t \in Tasks, Enqueue(t) \/ CancelQueued(t) \/ CancelActive(t) PROVE IInv'
  BY <1>1, EnqueueKeeps, CancelQueuedKeeps, CancelActiveKeeps
<1>2. ASSUME NEW t \in Tasks, Progress(t) \/ Exit(t) PROVE IInv'
  BY <1>2, ProgressKeeps, ExitKeeps
<1>3. ASSUME NEW t \in Tasks, RefuseUnderPressure(t) PROVE IInv'
  BY <1>0, <1>3, AnswerKeeps DEF RefuseUnderPressure, TypeOK, rows, outside
<1>4. ASSUME NEW t \in Tasks, CancelLoaded(t) PROVE IInv'
  BY <1>0, <1>4, AnswerKeeps DEF CancelLoaded, TypeOK, rows, outside
<1>5. CASE Canceller
  BY <1>5, CancelSaveKeeps, CancelKillKeeps, CancelCleanKeeps, CancelEndKeeps,
     CancelReturnKeeps DEF Canceller
<1>6. CASE Take \/ Skip \/ Start \/ Finally
  BY <1>6, TakeKeeps, SkipKeeps, StartKeeps, FinallyKeeps
<1>7. CASE JobSave \/ ReturnJob \/ RaiseJob
  BY <1>7, JobSaveKeeps, ReturnJobKeeps, RaiseJobKeeps
<1>8. CASE Download
  BY <1>8, BeginKeeps, SpawnKeeps, KeepHandleKeeps, ReadLineKeeps, UseLineKeeps, WaitedKeeps,
     VerifyKeeps, CheckOutputKeeps DEF Download
<1>9. CASE Backup
  BY <1>9, ZipKeeps, HashKeeps, RecordBackupKeeps DEF Backup
<1>10. CASE Restart
  BY <1>10, RestartKeeps
<1>11. CASE UNCHANGED vars
  BY <1>0, <1>11, AnswerKeeps DEF vars, rows, TypeOK, outside, history
<1> QED BY <1>1, <1>2, <1>3, <1>4, <1>5, <1>6, <1>7, <1>8, <1>9, <1>10, <1>11 DEF Next, Worker

LEMMA InitIInv == Init => IInv
<1> SUFFICES ASSUME Init PROVE IInv
  OBVIOUS
<1>1. /\ \A t \in Tasks : mem[t] = Absent /\ db[t] = Absent /\ proc[t] = "none" /\ file[t] = {}
      /\ queue = <<>> /\ worker.pc = "idle" /\ cancel.pc = "idle" /\ backups = {}
  BY DEF Init, Idle, NoCancel
<1>2. TypeOK
  BY TasksAssumption, Words DEF Init, TypeOK, Idle, NoCancel, WorkerSteps, CancelSteps
<1>3. RecordsOK /\ QueueOK /\ WorkerOK /\ CancelOK /\ RowsFollow
  BY <1>1, Words DEF RecordsOK, QueueOK, WorkerOK, CancelOK, RowsFollow, Known, Fresh
<1>4. \A t \in Tasks : TaskOK(t)
  BY <1>1, Words DEF TaskOK, DownloadOK, BackupOK, FailedOK, Known, Busy, Cancelling
<1> QED BY <1>2, <1>3, <1>4 DEF IInv

(* Every reachable state satisfies the inductive invariant.                  *)
THEOREM Invariance == Spec => []IInv
  BY InitIInv, NextIInv, PTL DEF Spec

(* What enqueue_task, cancel_task, the worker and the jobs write are         *)
(* statuses and stages of the documented lifecycle, in memory and in the     *)
(* rows, whatever the number of tasks and restarts.                          *)
THEOREM TypeCorrect == Spec => []TypeOK
<1>1. IInv => TypeOK
  BY DEF IInv
<1> QED BY <1>1, Invariance, PTL

(* When the worker is between jobs and nobody is inside cancel_task, the row *)
(* of every known task says what memory says, or the latest save of the task *)
(* was lost: the last save of whoever left the task, _worker_loop or         *)
(* cancel_task, covers every save written out of order, or lost, before it.  *)
THEOREM RowsTellMemory == Spec => []RowsSettle
<1>1. IInv => RowsSettle
  BY Words DEF IInv, RowsSettle, RecordsOK, RowsFollow, Known, Busy, Cancelling, LockFree
<1> QED BY <1>1, Invariance, PTL

(* A row that says COMPLETED is a download whose process ended well, or a    *)
(* backup whose archive and row in backups are there: run_media_download_job *)
(* looks for its output only after a successful exit, cancel_task does       *)
(* nothing to a task that completed, a backup that is being cancelled no     *)
(* longer completes, and a restart leaves disk and rows alone.               *)
THEOREM CompletedKept == Spec => []CompletedWentWell
<1>1. IInv => CompletedWentWell
  BY DEF IInv, CompletedWentWell, TaskOK, DownloadOK, BackupOK
<1> QED BY <1>1, Invariance, PTL

(* A failed task has left no process, nothing unfinished, no archive and no  *)
(* row in backups: run_media_download_job raises only after its process      *)
(* ended, and the clean-up of the worker comes with the status.  What yt-dlp *)
(* had finished by then is not claimed to be gone.                           *)
THEOREM FailedClean == Spec => []FailedLeavesNoPartial
<1>1. IInv => FailedLeavesNoPartial
  BY DEF IInv, FailedLeavesNoPartial, TaskOK, FailedOK
<1> QED BY <1>1, Invariance, PTL

(* The record of a task that has not started, before and after a step. *)
LEMMA Unstarted ==
    ASSUME IInv, [Next]_vars, NEW t \in Tasks,
           mem[t].status = "CANCELLED", ~mem[t].started
    PROVE  mem'[t] \in {mem[t], Absent}
<1>0. TypeOK /\ CancelOK /\ WorkerOK
  BY DEF IInv
<1>1. /\ worker.pc \notin {"idle", "taken"} => worker.task \in Tasks /\ worker.task # t
      /\ cancel.pc # "idle" => cancel.task \in Tasks /\ cancel.task # t
  BY <1>0 DEF WorkerOK, CancelOK
<1>2. ASSUME NEW u \in Tasks, Enqueue(u) \/ CancelQueued(u) \/ CancelActive(u)
      PROVE  mem'[t] = mem[t]
  <2>1. u # t
    BY <1>2, Words DEF Enqueue, Unused, CancelQueued, CancelActive
  <2> QED BY <1>0, <1>2, <2>1 DEF Enqueue, CancelQueued, CancelActive, TypeOK
<1>3. ASSUME NEW u \in Tasks,
             RefuseUnderPressure(u) \/ CancelLoaded(u) \/ Progress(u) \/ Exit(u)
      PROVE  mem'[t] = mem[t]
  BY <1>3 DEF RefuseUnderPressure, CancelLoaded, Progress, Exit
<1>4. CASE Canceller
  BY <1>0, <1>1, <1>4
  DEF Canceller, CancelSave, CancelKill, CancelClean, CancelEnd, CancelReturn, TypeOK
<1>5. CASE Start
  <2>1. worker.task # t
    BY <1>5 DEF Start
  <2> QED BY <1>0, <1>5, <2>1 DEF Start, TypeOK
<1>6. CASE Take \/ Skip \/ Finally \/ JobSave \/ Backup
  BY <1>6 DEF Take, Skip, Finally, JobSave, Backup, Zip, Hash, RecordBackup
<1>7. CASE ReturnJob \/ RaiseJob
  BY <1>0, <1>1, <1>7 DEF ReturnJob, RaiseJob, TypeOK
<1>8. CASE Download
  <2>1. CASE Begin \/ KeepHandle \/ UseLine \/ Verify \/ CheckOutput
    BY <1>0, <1>1, <2>1 DEF Begin, KeepHandle, UseLine, Verify, CheckOutput, TypeOK
  <2>2. CASE Spawn \/ ReadLine \/ Waited
    BY <2>2 DEF Spawn, ReadLine, Waited
  <2> QED BY <1>8, <2>1, <2>2 DEF Download
<1>9. CASE Restart
  BY <1>9 DEF Restart
<1>10. CASE UNCHANGED vars
  BY <1>10 DEF vars
<1> QED BY <1>2, <1>3, <1>4, <1>5, <1>6, <1>7, <1>8, <1>9, <1>10 DEF Next, Worker

(* A task cancelled before it started stays as it is until a restart forgets *)
(* it: _worker_loop and cancel_task decide under the lock.                   *)
THEOREM CancelledUnstartedStays == Spec => QueuedCancelHolds
<1>1. IInv /\ [Next]_vars
        => [\A t \in Tasks : mem[t].status = "CANCELLED" /\ ~mem[t].started
                               => mem'[t] \in {mem[t], Absent}]_vars
  BY Unstarted
<1> QED BY <1>1, Invariance, PTL DEF Spec, QueuedCancelHolds

-----------------------------------------------------------------------------
(* THE TIMETABLE SYNCHRONIZATION LEASE                                     *)
(*                                                                         *)
(* DatabaseSyncLease implements SyncLease.                                 *)

(* What the proofs need to know at every step: types, and no run acts on a   *)
(* clock reading from the future.                                            *)
SyncIInv == SyncTypeOK /\ ClockBehind

LEMMA InitSyncIInv == SyncInit => SyncIInv
  BY LeaseAssumption DEF SyncInit, SyncIInv, SyncTypeOK, ClockBehind, Steps

LEMMA NextSyncIInv == SyncIInv /\ [SyncNext]_syncVars => SyncIInv'
<1> SUFFICES ASSUME SyncIInv, [SyncNext]_syncVars PROVE SyncIInv'
    OBVIOUS
<1> USE LeaseAssumption DEF SyncIInv, SyncTypeOK, ClockBehind, Steps
<1>1. CASE Tick
    BY <1>1 DEF Tick
<1>2. CASE Crash
    BY <1>2 DEF Crash
<1>3. ASSUME NEW r \in Runs, ReadClock(r) PROVE SyncIInv'
    BY <1>3 DEF ReadClock
<1>4. ASSUME NEW r \in Runs, Acquire(r) PROVE SyncIInv'
    BY <1>4 DEF Acquire, Free
<1>5. ASSUME NEW r \in Runs, Release(r) PROVE SyncIInv'
    BY <1>5 DEF Release
<1>6. CASE UNCHANGED syncVars
    BY <1>6 DEF syncVars
<1> QED
    BY <1>1, <1>2, <1>3, <1>4, <1>5, <1>6 DEF SyncNext

(* Types, and with them that no row outlasts its lease time.                 *)
THEOREM SyncTypeCorrect == SyncSpec => []SyncTypeOK
<1>1. SyncIInv => SyncTypeOK
    BY DEF SyncIInv
<1> QED
    BY <1>1, InitSyncIInv, NextSyncIInv, PTL DEF SyncSpec

(* A lease is only ever judged by a clock reading of the past.               *)
THEOREM ClockNeverAhead == SyncSpec => []ClockBehind
<1>1. SyncIInv => ClockBehind
    BY DEF SyncIInv
<1> QED
    BY <1>1, InitSyncIInv, NextSyncIInv, PTL DEF SyncSpec

(* Whoever takes the row takes a lease that nobody holds: acquire inserts    *)
(* only where there is no row or one that has expired.                       *)
LEMMA AcquireTakesFree ==
    ASSUME SyncIInv, NEW r \in Runs, Acquire(r)
    PROVE  Lease!Next \/ UNCHANGED Holder
<1> USE LeaseAssumption DEF SyncIInv, SyncTypeOK, ClockBehind
<1>1. CASE Free \/ expires <= since[r]
  <2>1. Holder = Nobody
      BY <1>1 DEF Holder, Free
  <2>2. Holder' \in {r, Nobody}
      BY <1>1 DEF Holder, Free, Acquire
  <2> QED
      BY <2>1, <2>2 DEF Lease!Next, Lease!Take, Lease!End
<1>2. CASE ~(Free \/ expires <= since[r])
    BY <1>2 DEF Acquire, Holder, Free
<1> QED
    BY <1>1, <1>2

LEMMA LeaseStep == SyncIInv /\ [SyncNext]_syncVars => [Lease!Next]_Holder
<1> SUFFICES ASSUME SyncIInv, [SyncNext]_syncVars PROVE Lease!Next \/ UNCHANGED Holder
    OBVIOUS
<1>1. CASE Tick
  <2>1. Holder' \in {Holder, Nobody}
      BY <1>1, LeaseAssumption DEF Tick, Holder, Free, SyncIInv, SyncTypeOK
  <2> QED
      BY <2>1 DEF Lease!Next, Lease!End
<1>2. CASE Crash
    BY <1>2 DEF Crash, Holder, Free
<1>3. ASSUME NEW r \in Runs, ReadClock(r) PROVE UNCHANGED Holder
    BY <1>3 DEF ReadClock, Holder, Free
<1>4. ASSUME NEW r \in Runs, Acquire(r) PROVE Lease!Next \/ UNCHANGED Holder
    BY <1>4, AcquireTakesFree
<1>5. ASSUME NEW r \in Runs, Release(r) PROVE Lease!Next \/ UNCHANGED Holder
  <2>1. Holder' \in {Holder, Nobody}
      BY <1>5 DEF Release, Holder, Free
  <2> QED
      BY <2>1 DEF Lease!Next, Lease!End
<1>6. CASE UNCHANGED syncVars
    BY <1>6 DEF syncVars, Holder, Free
<1> QED
    BY <1>1, <1>2, <1>3, <1>4, <1>5, <1>6 DEF SyncNext

(* The rows of timetable_sync_locks implement the lease.                     *)
THEOREM LeaseImplemented == SyncSpec => ImplementsLease
<1>1. SyncInit => Lease!Init
    BY DEF SyncInit, Lease!Init, Holder, Free
<1> QED
    BY <1>1, InitSyncIInv, NextSyncIInv, LeaseStep, PTL DEF SyncSpec, ImplementsLease, Lease!Spec

(* While a lease runs its row is removed by its own run, and by no other:    *)
(* acquire deletes an expired row only, release the run's own only.          *)
THEOREM OwnRowOnly == SyncSpec => OnlyOwnerReleases
<1>1. ASSUME SyncIInv, [SyncNext]_syncVars, NEW r \in Runs,
             token = r, token' # r, now < expires
      PROVE  pc[r] = "sync" /\ pc'[r] = "done"
  <2>1. CASE Tick \/ Crash \/ UNCHANGED syncVars
      BY <1>1, <2>1 DEF Tick, Crash, syncVars
  <2>2. ASSUME NEW q \in Runs, ReadClock(q) PROVE FALSE
      BY <1>1, <2>2 DEF ReadClock
  <2>3. ASSUME NEW q \in Runs, Acquire(q) PROVE FALSE
    <3>1. ~Free /\ since[q] <= now
        BY <1>1, LeaseAssumption DEF Free, SyncIInv, ClockBehind
    <3>2. ~(expires <= since[q])
        BY <1>1, <3>1 DEF SyncIInv, SyncTypeOK
    <3> QED
        BY <1>1, <2>3, <3>1, <3>2 DEF Acquire
  <2>4. ASSUME NEW q \in Runs, Release(q) PROVE pc[r] = "sync" /\ pc'[r] = "done"
    <3>1. q = r
        BY <1>1, <2>4 DEF Release
    <3> QED
        BY <1>1, <2>4, <3>1 DEF Release, SyncIInv, SyncTypeOK
  <2> QED
      BY <1>1, <2>1, <2>2, <2>3, <2>4 DEF SyncNext
<1>2. SyncIInv /\ [SyncNext]_syncVars
        => [\A r \in Runs : token = r /\ token' # r /\ now < expires
                              => pc[r] = "sync" /\ pc'[r] = "done"]_syncVars
    BY <1>1
<1> QED
    BY <1>2, InitSyncIInv, NextSyncIInv, PTL DEF SyncSpec, OnlyOwnerReleases
=============================================================================

---------------------------- MODULE MCTaskRunner ----------------------------
(* Instances of TaskRunner for TLC: t1 and t2 are calls of enqueue_task. *)
EXTENDS TaskRunner

CONSTANTS t1, t2

(* A download t1 and a backup t2, or t1 alone as either. *)
PairTasks == {t1, t2}
OneTask == {t1}
NoDownload == {}
=============================================================================

------------------------ MODULE AttendanceSyncLease -------------------------
(* AttendanceSyncLease of src/attendance_sync.py, for one user.  A run is    *)
(* one call of sync_user_attendance.  acquire reads the row in one           *)
(* statement and upserts its own in a later transaction.                     *)
EXTENDS Naturals, FiniteSets

CONSTANTS
    Runs,     \* calls of sync_user_attendance for one user
    Nobody,   \* no row
    Timeout,  \* lease_seconds
    MaxTime   \* bound on the clock

VARIABLES
    now,     \* time.time()
    token,   \* lock_token of the user's row of attendance_sync_locks
    expires, \* expires_at of that row
    pc,      \* where each run is
    since    \* the time a run read at the start of acquire

vars == <<now, token, expires, pc, since>>

Free == token = Nobody

-----------------------------------------------------------------------------
Init ==
    /\ now = 0
    /\ token = Nobody /\ expires = 0
    /\ pc = [r \in Runs |-> "start"]
    /\ since = [r \in Runs |-> 0]

Tick == now < MaxTime /\ now' = now + 1 /\ UNCHANGED <<token, expires, pc, since>>

ReadClock(r) ==
    /\ pc[r] = "start"
    /\ since' = [since EXCEPT ![r] = now]
    /\ pc' = [pc EXCEPT ![r] = "select"]
    /\ UNCHANGED <<now, token, expires>>

(* A live row refuses the run; the caller may try again. *)
Select(r) ==
    /\ pc[r] = "select"
    /\ pc' = [pc EXCEPT ![r] = IF Free \/ expires <= since[r] THEN "upsert" ELSE "start"]
    /\ UNCHANGED <<now, token, expires, since>>

(* INSERT ... ON CONFLICT DO UPDATE: whatever row is there by now is taken.  *)
Upsert(r) ==
    /\ pc[r] = "upsert"
    /\ token' = r /\ expires' = since[r] + Timeout
    /\ pc' = [pc EXCEPT ![r] = "sync"]
    /\ UNCHANGED <<now, since>>

(* The finally clause of the run: DELETE ... AND lock_token = ?. *)
Release(r) ==
    /\ pc[r] = "sync"
    /\ token' = IF token = r THEN Nobody ELSE token
    /\ pc' = [pc EXCEPT ![r] = "done"]
    /\ UNCHANGED <<now, expires, since>>

(* The process ends while runs are under way: only the row stays. *)
Crash ==
    /\ \E r \in Runs : pc[r] \notin {"start", "done"}
    /\ pc' = [r \in Runs |-> IF pc[r] = "start" THEN "start" ELSE "done"]
    /\ UNCHANGED <<now, token, expires, since>>

Next == \/ Tick \/ Crash
        \/ \E r \in Runs : ReadClock(r) \/ Select(r) \/ Upsert(r) \/ Release(r)

Spec == Init /\ [][Next]_vars

-----------------------------------------------------------------------------
(* "Ensures single-flight attendance synchronization per user.": a run whose *)
(* lease has not expired is the only one within its lease.                   *)
SingleFlight ==
    \A r, s \in Runs : pc[r] = "sync" /\ pc[s] = "sync"
                       /\ now < since[r] + Timeout /\ now < since[s] + Timeout => r = s
=============================================================================

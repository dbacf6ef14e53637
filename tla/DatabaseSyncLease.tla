------------------------- MODULE DatabaseSyncLease --------------------------
(* DatabaseSyncLease of src/timetable_sync.py, and sync_user_timetable and   *)
(* the jobs that run under it, for one user.  A run is one call of           *)
(* sync_user_timetable with a lease object, hence a token, of its own.       *)
(* acquire reads the clock first and then deletes an expired lease and       *)
(* inserts its own in one transaction; the primary key is the user.          *)
EXTENDS Naturals, FiniteSets

CONSTANTS
    Runs,     \* calls of sync_user_timetable for one user
    Nobody,   \* no row
    Timeout,  \* TIMETABLE_LOCK_TIMEOUT_SECONDS
    MaxTime   \* bound on the clock

ASSUME LeaseAssumption ==
    /\ Nobody \notin Runs
    /\ Timeout \in Nat /\ MaxTime \in Nat

VARIABLES
    now,     \* time.time()
    token,   \* lock_token of the user's row of timetable_sync_locks
    expires, \* expires_at of that row
    pc,      \* where each run is
    since    \* the time a run read at the start of acquire

syncVars == <<now, token, expires, pc, since>>

Free == token = Nobody

-----------------------------------------------------------------------------
(* Variants that stand for plausible slips in the code; no behaviour uses them. *)

Slip_ReadsAhead(r) ==
    /\ pc[r] = "start"
    /\ since' = [since EXCEPT ![r] = now + Timeout]
    /\ pc' = [pc EXCEPT ![r] = "acquire"]
    /\ UNCHANGED <<now, token, expires>>

Slip_InsertOrReplace(r) ==
    /\ pc[r] = "acquire"
    /\ token' = r /\ expires' = since[r] + Timeout
    /\ pc' = [pc EXCEPT ![r] = "sync"]
    /\ UNCHANGED <<now, since>>

Slip_DeleteByUser(r) ==
    /\ pc[r] = "sync"
    /\ token' = Nobody
    /\ pc' = [pc EXCEPT ![r] = "done"]
    /\ UNCHANGED <<now, expires, since>>

Slip_NoExpiry(r) ==
    /\ pc[r] = "acquire"
    /\ IF Free
       THEN /\ token' = r /\ expires' = since[r] + Timeout
            /\ pc' = [pc EXCEPT ![r] = "sync"]
       ELSE /\ pc' = [pc EXCEPT ![r] = "start"]
            /\ UNCHANGED <<token, expires>>
    /\ UNCHANGED <<now, since>>

Slip_DoubleTimeout(r) ==
    /\ pc[r] = "acquire"
    /\ IF Free \/ expires <= since[r]
       THEN /\ token' = r /\ expires' = now + 2 * Timeout
            /\ pc' = [pc EXCEPT ![r] = "sync"]
       ELSE /\ pc' = [pc EXCEPT ![r] = "start"]
            /\ UNCHANGED <<token, expires>>
    /\ UNCHANGED <<now, since>>

-----------------------------------------------------------------------------
SyncInit ==
    /\ now = 0
    /\ token = Nobody /\ expires = 0
    /\ pc = [r \in Runs |-> "start"]
    /\ since = [r \in Runs |-> 0]

Tick == now < MaxTime /\ now' = now + 1 /\ UNCHANGED <<token, expires, pc, since>>

ReadClock(r) ==
    /\ pc[r] = "start"
    /\ since' = [since EXCEPT ![r] = now]
    /\ pc' = [pc EXCEPT ![r] = "acquire"]
    /\ UNCHANGED <<now, token, expires>>

(* The transaction: an expired row is deleted, the insert succeeds if there  *)
(* is none left.  A refused run answers "locked"; the caller may try again.  *)
Acquire(r) ==
    /\ pc[r] = "acquire"
    /\ IF Free \/ expires <= since[r]
       THEN /\ token' = r /\ expires' = since[r] + Timeout
            /\ pc' = [pc EXCEPT ![r] = "sync"]
       ELSE /\ pc' = [pc EXCEPT ![r] = "start"]
            /\ UNCHANGED <<token, expires>>
    /\ UNCHANGED <<now, since>>

(* The finally clause of the run: DELETE ... AND lock_token = ?. *)
Release(r) ==
    /\ pc[r] = "sync"
    /\ token' = IF token = r THEN Nobody ELSE token
    /\ pc' = [pc EXCEPT ![r] = "done"]
    /\ UNCHANGED <<now, expires, since>>

(* The process ends while runs are under way: only the row stays. *)
Crash ==
    /\ \E r \in Runs : pc[r] \in {"acquire", "sync"}
    /\ pc' = [r \in Runs |-> IF pc[r] \in {"acquire", "sync"} THEN "done" ELSE pc[r]]
    /\ UNCHANGED <<now, token, expires, since>>

SyncNext == Tick \/ Crash \/ \E r \in Runs : ReadClock(r) \/ Acquire(r) \/ Release(r)

SyncSpec == SyncInit /\ [][SyncNext]_syncVars

(* Time goes on, a run that started goes on, and a caller that was told      *)
(* "locked" tries again (the scheduler does, every three hours).             *)
SyncFairSpec ==
    /\ SyncSpec
    /\ WF_syncVars(Tick)
    /\ \A r \in Runs : WF_syncVars(ReadClock(r) \/ Acquire(r))

-----------------------------------------------------------------------------
Steps == {"start", "acquire", "sync", "done"}

(* Every variable keeps its type, and a row left by a process that ended     *)
(* does not keep the lease for longer than its time from now.                *)
SyncTypeOK ==
    /\ now \in 0 .. MaxTime
    /\ token \in Runs \cup {Nobody}
    /\ expires \in 0 .. now + Timeout
    /\ pc \in [Runs -> Steps]
    /\ since \in [Runs -> 0 .. MaxTime]

(* The run whose lease has not expired. *)
Holder == IF ~Free /\ now < expires THEN token ELSE Nobody

(* A clock reading is never ahead of the clock, so a lease deleted as        *)
(* expired by a run that was slow has expired indeed.                        *)
ClockBehind == \A r \in Runs : since[r] <= now

(* acquire and release implement the lease: it passes to a run only when it  *)
(* is free or expired, whatever a slow or an overrun run does.               *)
Lease == INSTANCE SyncLease WITH holder <- Holder
ImplementsLease == Lease!Spec

(* While a run synchronizes within its lease its row is there: a run that    *)
(* lost an expired lease to another never releases the other's.              *)
OnlyOwnerReleases ==
    [][\A r \in Runs : token = r /\ token' # r /\ now < expires
                         => pc[r] = "sync" /\ pc'[r] = "done"]_syncVars

(* A run that started gets its turn, or ended with the process: the row of a *)
(* crashed or stuck run does not lock the user out.  (Or the clock reached   *)
(* its bound, and stopped, within somebody's lease.)                         *)
EveryRunGetsItsTurn ==
    \A r \in Runs :
        pc[r] = "start" ~> \/ pc[r] \in {"sync", "done"}
                           \/ now = MaxTime /\ now < expires
=============================================================================

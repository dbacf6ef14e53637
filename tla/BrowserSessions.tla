-------------------------- MODULE BrowserSessions ---------------------------
(* Browser sessions: BrowserService (agent/browser_service.py) on top of     *)
(* BG6EphemeralCDPProvider (browser/bg6_cdp.py), its Chromium runtime and    *)
(* the lock file that admits one of them (browser/chromium_runtime.py).      *)
(*                                                                           *)
(* Every request runs in a thread of the web server and nothing else than    *)
(* the lock file orders them.  A session stands for one call of open_session *)
(* with the runtime and the lock object made for it.  The lock is flock(2)   *)
(* on a file that release() removes: a holder locks an inode, and the path   *)
(* may name another inode, or none, by now.  The principal is one user.      *)
EXTENDS Naturals, FiniteSets

CONSTANTS
    Sessions,     \* session ids
    Inodes,       \* inodes a lock file can have
    None,         \* no inode, or nobody
    MaxSessions   \* max_sessions_per_principal

ASSUME SessionsAssumption ==
    /\ IsFiniteSet(Sessions)
    /\ None \notin Inodes \cup Sessions
    /\ MaxSessions \in Nat

VARIABLES
    pc,        \* the next step of the request that opens or closes a session
    after,     \* where shutdown returns to
    registry,  \* BrowserService._sessions
    idle,      \* the sessions of the registry past idle_session_ttl_sec
    live,      \* BG6EphemeralCDPProvider._active_sessions
    alive,     \* the sessions whose Chromium runs
    path,      \* the inode the lock path names
    fd,        \* the inode that a lock object has open
    flock      \* who has locked an inode

tables == <<registry, idle, live>>
lock == <<path, fd, flock>>
vars == <<pc, after, tables, alive, lock>>

Opening == {"sweep", "admit", "open", "flock", "giveup", "spawn", "ready", "register", "navigate"}
ShuttingDown == {"kill", "unflock", "unlink"}
Resting == {"unborn", "in", "lost", "ended", "closed"}
Serving == {"ready", "register", "navigate", "in", "lost"}
Steps == Opening \cup ShuttingDown \cup Resting

Holds(s) == fd[s] # None /\ flock[fd[s]] = s

Goto(s, step) == pc' = [pc EXCEPT ![s] = step]

(* EphemeralChromiumRuntime.shutdown begins; it goes on in three steps. *)
ShutDownThen(s, step) ==
    /\ Goto(s, "kill")
    /\ after' = [after EXCEPT ![s] = step]

-----------------------------------------------------------------------------
(* Variants that stand for plausible slips in the code; no behaviour uses them. *)

(* shutdown releases the lock before the processes are gone. *)
Slip_UnflockFirst(s) ==
    /\ pc[s] = "kill"
    /\ flock' = IF fd[s] = None THEN flock ELSE [flock EXCEPT ![fd[s]] = None]
    /\ fd' = [fd EXCEPT ![s] = None]
    /\ Goto(s, "unlink")
    /\ UNCHANGED <<after, tables, alive, path>>

(* A spawn that fails is reported without a shutdown. *)
Slip_SpawnFailureKeepsLock(s) ==
    /\ pc[s] = "spawn"
    /\ \/ alive' = alive \cup {s} /\ Goto(s, "ready") /\ UNCHANGED after
       \/ Goto(s, "unborn") /\ UNCHANGED <<alive, after>>
    /\ UNCHANGED <<tables, lock>>

(* The blocking flock: a second session waits for ever behind the first. *)
Slip_BlockingFlock(s) ==
    /\ pc[s] = "flock"
    /\ flock[fd[s]] = None
    /\ flock' = [flock EXCEPT ![fd[s]] = s] /\ Goto(s, "spawn")
    /\ UNCHANGED <<after, tables, alive, path, fd>>

(* The session's record is dropped, but not its time of last use. *)
Slip_KeepsLastUse(s) ==
    /\ s \in registry
    /\ s \notin idle \cap live
    /\ IF s \in live /\ pc[s] \in {"in", "ended"}
       THEN ShutDownThen(s, "closed")
       ELSE IF pc[s] = "ended" THEN Goto(s, "closed") /\ UNCHANGED after
       ELSE after' = [after EXCEPT ![s] = "closed"] /\ UNCHANGED pc
    /\ registry' = registry \ {s}
    /\ live' = live \ {s}
    /\ UNCHANGED <<idle, alive, lock>>

(* The session is closed, but its entry in _active_sessions is kept. *)
Slip_KeepsEntry(s) ==
    /\ s \in registry
    /\ s \notin idle \cap live
    /\ IF s \in live /\ pc[s] \in {"in", "ended"}
       THEN ShutDownThen(s, "closed")
       ELSE IF pc[s] = "ended" THEN Goto(s, "closed") /\ UNCHANGED after
       ELSE after' = [after EXCEPT ![s] = "closed"] /\ UNCHANGED pc
    /\ registry' = registry \ {s}
    /\ idle' = idle \ {s}
    /\ UNCHANGED <<live, alive, lock>>

-----------------------------------------------------------------------------
(* open_session: the limit counts the registry, which the clean-up of idle   *)
(* sessions, done before, leaves as it is.                                   *)
Open(s) ==
    /\ pc[s] = "unborn"
    /\ registry \cap idle \cap live = {}
    /\ Cardinality(registry) < MaxSessions
    /\ Goto(s, "sweep")
    /\ UNCHANGED <<after, tables, alive, lock>>

(* _cleanup_idle_sessions, run by every call of the service: the provider's  *)
(* session is closed.                                                        *)
CloseIdle(s) ==
    /\ s \in registry \cap idle \cap live
    /\ pc[s] \in {"in", "ended"}
    /\ live' = live \ {s}
    /\ ShutDownThen(s, "ended")
    /\ UNCHANGED <<registry, idle, alive, lock>>

(* launch kills every Chromium on the device first, ... *)
Sweep(s) ==
    /\ pc[s] = "sweep"
    /\ alive' = {}
    /\ Goto(s, "admit")
    /\ UNCHANGED <<after, tables, lock>>

(* ... asks the memory governor, ... *)
Admit(s) ==
    /\ pc[s] = "admit"
    /\ \E step \in {"open", "unborn"} : Goto(s, step)
    /\ UNCHANGED <<after, tables, alive, lock>>

(* ... opens the lock file, creating it where the path names none, ... *)
OpenLock(s) ==
    /\ pc[s] = "open"
    /\ \E i \in Inodes :
         /\ IF path = None THEN \A r \in Sessions : fd[r] # i ELSE i = path
         /\ path' = i
         /\ fd' = [fd EXCEPT ![s] = i]
    /\ Goto(s, "flock")
    /\ UNCHANGED <<after, tables, alive, flock>>

(* ... and locks it, or closes it and gives up, ... *)
Flock(s) ==
    /\ pc[s] = "flock"
    /\ \/ /\ flock[fd[s]] = None
          /\ flock' = [flock EXCEPT ![fd[s]] = s]
          /\ Goto(s, "spawn")
          /\ UNCHANGED fd
       \/ /\ flock[fd[s]] # None
          /\ fd' = [fd EXCEPT ![s] = None]
          /\ Goto(s, "giveup")
          /\ UNCHANGED flock
    /\ UNCHANGED <<after, tables, alive, path>>

(* ... which removes the path, whoever holds a lock behind it. *)
GiveUp(s) ==
    /\ pc[s] = "giveup"
    /\ path' = None
    /\ Goto(s, "unborn")
    /\ UNCHANGED <<after, tables, alive, fd, flock>>

Spawn(s) ==
    /\ pc[s] = "spawn"
    /\ \/ alive' = alive \cup {s} /\ Goto(s, "ready") /\ UNCHANGED after
       \/ ShutDownThen(s, "unborn") /\ UNCHANGED alive
    /\ UNCHANGED <<tables, lock>>

(* Chromium answers with a page target, or it does not and is shut down, or  *)
(* the CDP connection raises: nobody shuts down then, and the lock file is   *)
(* closed with the runtime object.                                           *)
Ready(s) ==
    /\ pc[s] = "ready"
    /\ \/ Goto(s, "register") /\ UNCHANGED <<after, lock>>
       \/ ShutDownThen(s, "unborn") /\ UNCHANGED lock
       \/ /\ flock' = [flock EXCEPT ![fd[s]] = None]
          /\ fd' = [fd EXCEPT ![s] = None]
          /\ Goto(s, "unborn")
          /\ UNCHANGED <<after, path>>
    /\ UNCHANGED <<tables, alive>>

Register(s) ==
    /\ pc[s] = "register"
    /\ live' = live \cup {s}
    /\ Goto(s, "navigate")
    /\ UNCHANGED <<after, registry, idle, alive, lock>>

(* A navigation that raises ends open_session before the service registers   *)
(* the session that the provider has.                                        *)
Navigate(s) ==
    /\ pc[s] = "navigate"
    /\ \/ registry' = registry \cup {s} /\ Goto(s, "in")
       \/ UNCHANGED registry /\ Goto(s, "lost")
    /\ UNCHANGED <<after, idle, live, alive, lock>>

-----------------------------------------------------------------------------
(* A call on a session that has run for longer than workflow_timeout_sec:    *)
(* check_watchdog shuts the runtime down; the session stays in both tables.  *)
Watchdog(s) ==
    /\ pc[s] = "in"
    /\ s \in (registry \cap live) \ idle
    /\ ShutDownThen(s, "ended")
    /\ UNCHANGED <<tables, alive, lock>>

(* Nobody called for idle_session_ttl_sec. *)
GoIdle(s) ==
    /\ s \in registry \ idle
    /\ idle' = idle \cup {s}
    /\ UNCHANGED <<pc, after, registry, live, alive, lock>>

(* Any other call on the session, even on one that was closed for idling,    *)
(* makes it active again.                                                    *)
Touch(s) ==
    /\ s \in registry \cap idle
    /\ s \notin live
    /\ idle' = idle \ {s}
    /\ UNCHANGED <<pc, after, registry, live, alive, lock>>

(* close_session: the provider's session, if it still has one, and the entry *)
(* of the service, even while another call shuts the session down.  (A       *)
(* session that idled is closed by the clean-up first.)                      *)
Close(s) ==
    /\ s \in registry
    /\ s \notin idle \cap live
    /\ IF s \in live /\ pc[s] \in {"in", "ended"}
       THEN ShutDownThen(s, "closed")
       ELSE IF pc[s] = "ended" THEN Goto(s, "closed") /\ UNCHANGED after
       ELSE after' = [after EXCEPT ![s] = "closed"] /\ UNCHANGED pc
    /\ live' = live \ {s}
    /\ registry' = registry \ {s}
    /\ idle' = idle \ {s}
    /\ UNCHANGED <<alive, lock>>

(* shutdown kills its process group, and two seconds later every Chromium    *)
(* that is left on the device, ...                                           *)
Kill(s) ==
    /\ pc[s] = "kill"
    /\ alive' = {}
    /\ Goto(s, "unflock")
    /\ UNCHANGED <<after, tables, lock>>

(* ... unlocks and closes the lock file if this runtime has it open, ... *)
Unflock(s) ==
    /\ pc[s] = "unflock"
    /\ flock' = IF Holds(s) THEN [flock EXCEPT ![fd[s]] = None] ELSE flock
    /\ fd' = [fd EXCEPT ![s] = None]
    /\ Goto(s, "unlink")
    /\ UNCHANGED <<after, tables, alive, path>>

(* ... and removes the path in any case. *)
Unlink(s) ==
    /\ pc[s] = "unlink"
    /\ path' = None
    /\ Goto(s, after[s])
    /\ UNCHANGED <<after, tables, alive, fd, flock>>

(* A Chromium may end by itself. *)
Die(s) ==
    /\ s \in alive
    /\ alive' = alive \ {s}
    /\ UNCHANGED <<pc, after, tables, lock>>

-----------------------------------------------------------------------------
Init ==
    /\ pc = [s \in Sessions |-> "unborn"]
    /\ after = [s \in Sessions |-> "unborn"]
    /\ registry = {} /\ idle = {} /\ live = {} /\ alive = {}
    /\ path = None
    /\ fd = [s \in Sessions |-> None]
    /\ flock = [i \in Inodes |-> None]

(* What a request that is under way does. *)
Server(s) ==
    \/ Sweep(s) \/ Admit(s) \/ OpenLock(s) \/ Flock(s) \/ GiveUp(s) \/ Spawn(s)
    \/ Ready(s) \/ Register(s) \/ Navigate(s) \/ Kill(s) \/ Unflock(s) \/ Unlink(s)

(* What the agent asks for, or does not ask for. *)
Agent(s) == Open(s) \/ CloseIdle(s) \/ Watchdog(s) \/ Touch(s) \/ Close(s)

Next == \E s \in Sessions : Server(s) \/ Agent(s) \/ GoIdle(s) \/ Die(s)

Spec == Init /\ [][Next]_vars

(* Threads of the web server are scheduled; agents need not call. *)
FairSpec == Spec /\ \A s \in Sessions : WF_vars(Server(s))

-----------------------------------------------------------------------------
(* Every variable keeps its type, and the tables hold only sessions that     *)
(* were opened: the provider's table those that are or were being served.    *)
TypeOK ==
    /\ pc \in [Sessions -> Steps]
    /\ after \in [Sessions -> {"unborn", "ended", "closed"}]
    /\ registry \subseteq Sessions /\ idle \subseteq registry
    /\ live \subseteq Sessions /\ alive \subseteq Sessions
    /\ path \in Inodes \cup {None}
    /\ fd \in [Sessions -> Inodes \cup {None}]
    /\ flock \in [Inodes -> Sessions \cup {None}]

(* A lock can be released again: who has locked an inode still has it open,  *)
(* and either a request of its own is at work on it, or its session is in    *)
(* both tables, where close_session and the clean-up of idle sessions find   *)
(* it.  The exception is a session that open_session lost when a navigation  *)
(* raised: nobody has its id, and it keeps the lock (LostHoldsNothing).      *)
LockIsReleasable ==
    \A i \in Inodes : flock[i] # None =>
        LET s == flock[i] IN
        /\ fd[s] = i
        /\ \/ pc[s] \in (Serving \ {"in", "lost"}) \cup {"spawn", "kill", "unflock"}
           \/ pc[s] = "in" /\ s \in registry \cap live
           \/ pc[s] = "lost"

(* Chromium runs only under a lock: shutdown releases the lock last.  (The   *)
(* one exception is what a raising CDP connection leaves behind, until the   *)
(* next launch sweeps it away.)                                              *)
RunsUnderLock == \A s \in alive : Holds(s) \/ pc[s] \in {"unborn", "sweep"}

(* The provider keeps no session that was closed: it would report the device *)
(* busy for ever.                                                            *)
ClosedIsForgotten == \A s \in Sessions : pc[s] = "closed" => s \notin live \cup registry

(* A request to open a session is answered, however the others interleave.   *)
EveryOpenIsAnswered == \A s \in Sessions : pc[s] \in Opening ~> pc[s] \in Resting

(* "Max 1 active instance" (EphemeralChromiumRuntime) and "enforcing         *)
(* MAX_BROWSER_JOBS=1" (SingleFlightLock).                                   *)
AtMostOneChromium == Cardinality(alive) <= 1

(* The clean-up before a launch kills "lingering orphan Chromium processes   *)
(* from previous runs": a session in service that holds the lock keeps its   *)
(* Chromium while other sessions are launched.                               *)
SweepSparesSessions ==
    [][\A s, r \in Sessions : Sweep(r) /\ pc[s] = "in" /\ Holds(s) /\ s \in alive
                                => s \in alive']_vars

(* "zero orphaned processes": a Chromium belongs to a session that is being  *)
(* opened, in service or being shut down.                                    *)
NoOrphan == \A s \in alive : pc[s] \notin {"unborn", "closed", "ended"}

(* "Releases abandoned sessions exceeding idle TTL.": an entry of the        *)
(* registry has a session in the provider, and counts against the limit for  *)
(* that reason.                                                              *)
IdleIsReleased ==
    \A s \in registry : pc[s] \in Resting => s \in live \/ s \notin idle

(* "Releases abandoned sessions exceeding idle TTL.", and so also the one    *)
(* that open_session abandoned when its navigation raised: it holds no lock. *)
LostHoldsNothing == \A s \in Sessions : pc[s] = "lost" => ~Holds(s)

(* "Hard timeout watchdog": a Chromium does not run for ever.                *)
HardTimeout == \A s \in Sessions : s \in alive ~> s \notin alive
=============================================================================

----------------------- MODULE BrowserSessions_proof ------------------------
(* What the lock file does guarantee, for any number of sessions: whoever    *)
(* locked it still can unlock it, the sessions lost by a failed navigation   *)
(* excepted, and no Chromium is in service without it.                       *)
EXTENDS BrowserSessions, TLAPS

(* A runtime between its flock and its shutdown holds its inode; Chromium    *)
(* runs from its spawn to the first step of a shutdown, which finds it only  *)
(* if the lock is held still.                                                *)
ServesUnderLock == \A s \in Sessions : pc[s] \in Serving \cup {"spawn"} => Holds(s)
DiesInTime ==
    \A s \in alive : /\ pc[s] \in Serving \cup {"kill", "unborn", "sweep"}
                     /\ pc[s] = "kill" => Holds(s)

(* Who has locked an inode has it open, and is between its flock and its     *)
(* unlock.                                                                   *)
LockHasOwner ==
    \A i \in Inodes : flock[i] # None
        => fd[flock[i]] = i /\ pc[flock[i]] \in Serving \cup {"spawn", "kill", "unflock"}

OpensFirst == \A s \in Sessions : pc[s] = "flock" => fd[s] \in Inodes

IInv == TypeOK /\ LockHasOwner /\ ServesUnderLock /\ DiesInTime /\ OpensFirst

LEMMA InitIInv == Init => IInv
  BY SessionsAssumption
  DEF Init, IInv, TypeOK, LockHasOwner, ServesUnderLock, DiesInTime, OpensFirst, Steps, Resting, Serving

(* A step that leaves the lock and Chromium alone and moves one session to a *)
(* step that asks for no more than the one before keeps all of it.           *)
LEMMA MoveKeepsIInv ==
    ASSUME IInv, UNCHANGED lock, alive' \subseteq alive, TypeOK',
           NEW s \in Sessions, NEW step \in Steps, Goto(s, step), step # "flock",
           step \in Serving \cup {"spawn"} => pc[s] \in Serving \cup {"spawn"},
           Holds(s) => step \in Serving \cup {"spawn", "kill", "unflock"},
           s \in alive' => \/ step \in Serving \cup {"unborn", "sweep"}
                           \/ step = "kill" /\ pc[s] \in Serving
    PROVE  IInv'
<1> USE DEF IInv, TypeOK
<1>1. \A r \in Sessions : pc'[r] = IF r = s THEN step ELSE pc[r]
    BY DEF Goto
<1>2. \A r \in Sessions : Holds(r)' = Holds(r)
    BY DEF Holds, lock
<1>3. LockHasOwner'
  <2> SUFFICES ASSUME NEW i \in Inodes, flock'[i] # None
               PROVE  /\ fd'[flock'[i]] = i
                      /\ pc'[flock'[i]] \in Serving \cup {"spawn", "kill", "unflock"}
      BY DEF LockHasOwner
  <2>1. flock'[i] = flock[i] /\ fd' = fd /\ flock[i] \in Sessions
      BY DEF lock
  <2>2. fd[flock[i]] = i /\ pc[flock[i]] \in Serving \cup {"spawn", "kill", "unflock"}
      BY <2>1 DEF LockHasOwner
  <2>3. CASE flock[i] = s
    <3>1. Holds(s)
        BY <2>1, <2>2, <2>3, SessionsAssumption DEF Holds
    <3> QED
        BY <1>1, <2>1, <2>2, <2>3, <3>1
  <2>4. CASE flock[i] # s
      BY <1>1, <2>1, <2>2, <2>4
  <2> QED
      BY <2>3, <2>4
<1>4. ServesUnderLock'
    BY <1>1, <1>2 DEF ServesUnderLock
<1>5. DiesInTime'
    BY <1>1, <1>2 DEF DiesInTime, ServesUnderLock
<1>6. OpensFirst'
    BY <1>1 DEF OpensFirst, lock
<1> QED
    BY <1>3, <1>4, <1>5, <1>6

LEMMA NextTypes == IInv /\ [Next]_vars => TypeOK'
<1> SUFFICES ASSUME IInv, [Next]_vars PROVE TypeOK'
    OBVIOUS
<1> USE SessionsAssumption DEF IInv, TypeOK, Steps, Opening, Serving, ShuttingDown, Resting,
        Goto, ShutDownThen, tables, lock, Holds
<1>1. ASSUME NEW s \in Sessions, Server(s) PROVE TypeOK'
  <2>1. CASE Sweep(s)    BY <2>1 DEF Sweep
  <2>2. CASE Admit(s)    BY <2>2 DEF Admit
  <2>3. CASE OpenLock(s) BY <2>3 DEF OpenLock
  <2>4. CASE Flock(s)    BY <2>4 DEF Flock
  <2>5. CASE GiveUp(s)   BY <2>5 DEF GiveUp
  <2>6. CASE Spawn(s)    BY <2>6 DEF Spawn
  <2>7. CASE Ready(s)    BY <2>7 DEF Ready
  <2>8. CASE Register(s) BY <2>8 DEF Register
  <2>9. CASE Navigate(s) BY <2>9 DEF Navigate
  <2>10. CASE Kill(s)    BY <2>10 DEF Kill
  <2>11. CASE Unflock(s) BY <2>11 DEF Unflock
  <2>12. CASE Unlink(s)  BY <2>12 DEF Unlink
  <2> QED
      BY <1>1, <2>1, <2>2, <2>3, <2>4, <2>5, <2>6, <2>7, <2>8, <2>9, <2>10, <2>11, <2>12
      DEF Server
<1>2. ASSUME NEW s \in Sessions, Agent(s) PROVE TypeOK'
  <2>1. CASE Open(s)      BY <2>1 DEF Open
  <2>2. CASE CloseIdle(s) BY <2>2 DEF CloseIdle
  <2>3. CASE Watchdog(s)  BY <2>3 DEF Watchdog
  <2>4. CASE Touch(s)     BY <2>4 DEF Touch
  <2>5. CASE Close(s)     BY <2>5 DEF Close
  <2> QED
      BY <1>2, <2>1, <2>2, <2>3, <2>4, <2>5 DEF Agent
<1>3. ASSUME NEW s \in Sessions, GoIdle(s) \/ Die(s) PROVE TypeOK'
    BY <1>3 DEF GoIdle, Die
<1>4. CASE UNCHANGED vars
    BY <1>4 DEF vars
<1> QED
    BY <1>1, <1>2, <1>3, <1>4 DEF Next

(* The steps that touch the lock: one session changes its own descriptor,    *)
(* and an inode changes hands only from nobody to a session that has it open *)
(* or from its owner to nobody.                                              *)
LEMMA LockStepKeepsIInv ==
    ASSUME IInv, TypeOK', UNCHANGED alive, NEW s \in Sessions, NEW step \in Steps, Goto(s, step),
           \A r \in Sessions : r # s => fd'[r] = fd[r],
           \A i \in Inodes : /\ flock'[i] \in {flock[i], None, s}
                             /\ flock'[i] = None => flock[i] \in {None, s}
                             /\ flock'[i] = s => /\ flock[i] \in {None, s} /\ fd'[s] = i
                                                /\ step \in Serving \cup {"spawn", "kill", "unflock"},
           step \in Serving \cup {"spawn"} => Holds(s)',
           step = "flock" => fd'[s] \in Inodes,
           s \in alive => step \in {"unborn", "sweep"}
    PROVE  IInv'
<1> USE SessionsAssumption DEF IInv, TypeOK
<1>1. \A r \in Sessions : pc'[r] = IF r = s THEN step ELSE pc[r]
    BY DEF Goto
<1>2. \A r \in Sessions : r # s /\ Holds(r) => Holds(r)'
  <2> SUFFICES ASSUME NEW r \in Sessions, r # s, Holds(r) PROVE Holds(r)'
      OBVIOUS
  <2>1. fd[r] \in Inodes /\ flock[fd[r]] = r /\ fd'[r] = fd[r]
      BY DEF Holds
  <2>2. flock'[fd[r]] = r
      BY <2>1
  <2> QED
      BY <2>1, <2>2 DEF Holds
<1>3. LockHasOwner'
  <2> SUFFICES ASSUME NEW i \in Inodes, flock'[i] # None
               PROVE  /\ fd'[flock'[i]] = i
                      /\ pc'[flock'[i]] \in Serving \cup {"spawn", "kill", "unflock"}
      BY DEF LockHasOwner
  <2>1. CASE flock'[i] = s
      BY <1>1, <2>1
  <2>2. CASE flock'[i] # s
    <3>1. flock'[i] = flock[i] /\ flock[i] \in Sessions
        BY <2>2
    <3> QED
        BY <1>1, <2>2, <3>1 DEF LockHasOwner
  <2> QED
      BY <2>1, <2>2
<1>4. ServesUnderLock'
    BY <1>1, <1>2 DEF ServesUnderLock
<1>5. DiesInTime'
    BY <1>1, <1>2 DEF DiesInTime
<1>6. OpensFirst'
    BY <1>1 DEF OpensFirst
<1> QED
    BY <1>3, <1>4, <1>5, <1>6

(* Outside its time in service a session neither holds the lock nor, but for *)
(* the leftover of a raising connection, has a Chromium.                     *)
LEMMA WithoutLock ==
    ASSUME IInv, NEW s \in Sessions,
           pc[s] \notin Serving \cup {"spawn", "kill", "unflock"}
    PROVE  ~Holds(s) /\ \A i \in Inodes : flock[i] # s
  BY SessionsAssumption DEF IInv, TypeOK, LockHasOwner, Holds

LEMMA WithoutChromium ==
    ASSUME IInv, NEW s \in Sessions,
           pc[s] \notin Serving \cup {"kill", "unborn", "sweep"}
    PROVE  s \notin alive
  BY DEF IInv, DiesInTime

LEMMA ServerKeepsIInv ==
    ASSUME IInv, TypeOK', NEW s \in Sessions, Server(s) PROVE IInv'
<1> USE DEF Steps, Opening, Serving, ShuttingDown, Resting, lock, tables
<1>1. CASE Sweep(s)
    BY <1>1, MoveKeepsIInv, WithoutLock DEF Sweep
<1>2. ASSUME NEW step \in {"open", "unborn"}, Admit(s), Goto(s, step) PROVE IInv'
    BY <1>2, MoveKeepsIInv, WithoutLock, WithoutChromium DEF Admit
<1>3. CASE OpenLock(s)
  <2>1. s \notin alive /\ \A i \in Inodes : flock[i] # s
      BY <1>3, WithoutLock, WithoutChromium DEF OpenLock
  <2> QED
      BY <1>3, <2>1, LockStepKeepsIInv DEF OpenLock, IInv, TypeOK
<1>4. CASE Flock(s)
  <2>1. s \notin alive /\ \A i \in Inodes : flock[i] # s
      BY <1>4, WithoutLock, WithoutChromium DEF Flock
  <2>2. CASE Goto(s, "spawn") /\ flock[fd[s]] = None /\ flock' = [flock EXCEPT ![fd[s]] = s] /\ fd' = fd
    <3>1. fd[s] \in Inodes
        BY <1>4 DEF Flock, IInv, OpensFirst
    <3>2. \A i \in Inodes : flock'[i] = IF i = fd[s] THEN s ELSE flock[i]
        BY <2>2 DEF IInv, TypeOK
    <3>3. Holds(s)'
        BY <2>2, <3>1, <3>2, SessionsAssumption DEF Holds
    <3> QED
        BY <1>4, <2>1, <2>2, <3>1, <3>2, <3>3, SessionsAssumption, LockStepKeepsIInv
        DEF Flock, IInv, TypeOK
  <2>3. CASE Goto(s, "giveup") /\ fd' = [fd EXCEPT ![s] = None] /\ flock' = flock
      BY <1>4, <2>1, <2>3, LockStepKeepsIInv DEF Flock, IInv, TypeOK
  <2> QED
      BY <1>4, <2>2, <2>3 DEF Flock
<1>5. CASE GiveUp(s)
  <2>1. s \notin alive /\ \A i \in Inodes : flock[i] # s
      BY <1>5, WithoutLock, WithoutChromium DEF GiveUp
  <2> QED
      BY <1>5, <2>1, LockStepKeepsIInv DEF GiveUp, IInv, TypeOK
<1>6. CASE Spawn(s)
  <2>1. Holds(s) /\ s \notin alive
      BY <1>6 DEF Spawn, IInv, ServesUnderLock, DiesInTime
  <2>2. CASE ShutDownThen(s, "unborn") /\ alive' = alive
      BY <1>6, <2>1, <2>2, MoveKeepsIInv DEF Spawn, ShutDownThen, IInv
  <2>3. CASE Goto(s, "ready") /\ alive' = alive \cup {s}
    <3>1. \A r \in Sessions : pc'[r] = IF r = s THEN "ready" ELSE pc[r]
        BY <2>3 DEF Goto, IInv, TypeOK
    <3>2. \A r \in Sessions : Holds(r)' = Holds(r)
        BY <1>6 DEF Spawn, Holds
    <3>3. LockHasOwner'
        BY <1>6, <3>1 DEF Spawn, LockHasOwner, IInv, TypeOK
    <3>4. ServesUnderLock'
        BY <2>1, <3>1, <3>2 DEF ServesUnderLock, IInv
    <3>5. DiesInTime'
        BY <2>3, <3>1, <3>2 DEF DiesInTime, IInv, TypeOK
    <3>6. OpensFirst'
        BY <1>6, <3>1 DEF Spawn, OpensFirst, IInv, lock
    <3> QED
        BY <3>3, <3>4, <3>5, <3>6 DEF IInv
  <2> QED
      BY <1>6, <2>2, <2>3 DEF Spawn
<1>7. CASE Ready(s)
  <2>1. Holds(s)
      BY <1>7 DEF Ready, IInv, ServesUnderLock
  <2>2. CASE Goto(s, "register") /\ UNCHANGED lock
      BY <1>7, <2>1, <2>2, MoveKeepsIInv DEF Ready, IInv
  <2>3. CASE ShutDownThen(s, "unborn") /\ UNCHANGED lock
      BY <1>7, <2>1, <2>3, MoveKeepsIInv DEF Ready, ShutDownThen, IInv
  <2>4. CASE /\ Goto(s, "unborn")
             /\ flock' = [flock EXCEPT ![fd[s]] = None] /\ fd' = [fd EXCEPT ![s] = None]
    <3>1. \A i \in Inodes : flock[i] = s => i = fd[s]
        BY SessionsAssumption DEF IInv, LockHasOwner
    <3>2. \A i \in Inodes : flock'[i] = IF i = fd[s] THEN None ELSE flock[i]
        BY <2>4 DEF IInv, TypeOK
    <3>3. \A r \in Sessions : r # s => fd'[r] = fd[r]
        BY <2>4 DEF IInv, TypeOK
    <3> QED
        BY <1>7, <2>1, <2>4, <3>1, <3>2, <3>3, SessionsAssumption, LockStepKeepsIInv
        DEF Ready, IInv, TypeOK, Holds
  <2> QED
      BY <1>7, <2>2, <2>3, <2>4 DEF Ready
<1>8. CASE Register(s)
    BY <1>8, MoveKeepsIInv DEF Register, IInv
<1>9. CASE Navigate(s)
  <2>1. PICK step \in {"in", "lost"} : Goto(s, step)
      BY <1>9 DEF Navigate
  <2> QED
      BY <1>9, <2>1, MoveKeepsIInv DEF Navigate, IInv
<1>10. CASE Kill(s)
    BY <1>10, MoveKeepsIInv DEF Kill, IInv
<1>11. CASE Unflock(s)
  <2>1. s \notin alive
      BY <1>11, WithoutChromium DEF Unflock
  <2>2. \A i \in Inodes : flock[i] = s => i = fd[s] /\ Holds(s)
      BY SessionsAssumption DEF IInv, LockHasOwner, Holds
  <2>3. \A i \in Inodes : flock'[i] = IF flock[i] = s THEN None ELSE flock[i]
      BY <1>11, <2>2, SessionsAssumption DEF Unflock, IInv, TypeOK, Holds
  <2>4. \A r \in Sessions : r # s => fd'[r] = fd[r]
      BY <1>11 DEF Unflock, IInv, TypeOK
  <2> QED
      BY <1>11, <2>1, <2>3, <2>4, SessionsAssumption, LockStepKeepsIInv DEF Unflock, IInv, TypeOK
<1>12. CASE Unlink(s)
  <2>1. s \notin alive /\ \A i \in Inodes : flock[i] # s
      BY <1>12, WithoutLock, WithoutChromium DEF Unlink
  <2>2. after[s] \in {"unborn", "ended", "closed"}
      BY DEF IInv, TypeOK
  <2> QED
      BY <1>12, <2>1, <2>2, LockStepKeepsIInv DEF Unlink, IInv, TypeOK
<1> QED
    BY <1>1, <1>2, <1>3, <1>4, <1>5, <1>6, <1>7, <1>8, <1>9, <1>10, <1>11, <1>12 DEF Server, Admit

LEMMA AgentKeepsIInv ==
    ASSUME IInv, TypeOK', NEW s \in Sessions, Agent(s) PROVE IInv'
<1> USE DEF Steps, Opening, Serving, ShuttingDown, Resting, lock, tables
<1>1. CASE Open(s)
    BY <1>1, MoveKeepsIInv, WithoutLock DEF Open
<1>2. CASE ShutDownThen(s, "ended") /\ UNCHANGED <<alive, lock>> /\ pc[s] = "in"
    BY <1>2, MoveKeepsIInv DEF ShutDownThen
<1>3. CASE ShutDownThen(s, "ended") /\ UNCHANGED <<alive, lock>> /\ pc[s] = "ended"
    BY <1>3, MoveKeepsIInv, WithoutChromium DEF ShutDownThen
<1>4. CASE ShutDownThen(s, "closed") /\ UNCHANGED <<alive, lock>> /\ pc[s] = "in"
    BY <1>4, MoveKeepsIInv DEF ShutDownThen
<1>5. CASE ShutDownThen(s, "closed") /\ UNCHANGED <<alive, lock>> /\ pc[s] = "ended"
    BY <1>5, MoveKeepsIInv, WithoutChromium DEF ShutDownThen
<1>6. CASE Goto(s, "closed") /\ UNCHANGED <<alive, lock>> /\ pc[s] = "ended"
    BY <1>6, MoveKeepsIInv, WithoutChromium, WithoutLock
<1>7. CASE UNCHANGED <<pc, alive, lock>>
    BY <1>7 DEF IInv, LockHasOwner, ServesUnderLock, DiesInTime, OpensFirst, Holds
<1> QED
    BY <1>1, <1>2, <1>3, <1>4, <1>5, <1>6, <1>7
    DEF Agent, CloseIdle, Watchdog, Touch, Close

LEMMA NextIInv == IInv /\ [Next]_vars => IInv'
<1> SUFFICES ASSUME IInv, [Next]_vars PROVE IInv'
    OBVIOUS
<1>1. TypeOK'
    BY NextTypes
<1>2. ASSUME NEW s \in Sessions, GoIdle(s) \/ Die(s) PROVE IInv'
    BY <1>1, <1>2
    DEF GoIdle, Die, IInv, LockHasOwner, ServesUnderLock, DiesInTime, OpensFirst, Holds, lock
<1>3. CASE UNCHANGED vars
    BY <1>1, <1>3
    DEF vars, IInv, LockHasOwner, ServesUnderLock, DiesInTime, OpensFirst, Holds, lock
<1> QED
    BY <1>1, <1>2, <1>3, ServerKeepsIInv, AgentKeepsIInv DEF Next

(* A session in service is in both tables, and no request that closes it     *)
(* leaves it in one of them only before it is shut down.                     *)
TablesAgree ==
    \A s \in Sessions :
        /\ pc[s] \in {"navigate", "in"} => s \in live
        /\ pc[s] = "in" => s \in registry
        /\ s \in registry => pc[s] \in {"in", "ended"} \cup ShuttingDown
        /\ s \in registry /\ pc[s] \in ShuttingDown => after[s] = "ended"

LEMMA InitTables == Init => TablesAgree
  BY DEF Init, TablesAgree

LEMMA NextTables == TypeOK /\ TablesAgree /\ [Next]_vars => TablesAgree'
<1> SUFFICES ASSUME TypeOK, TablesAgree, [Next]_vars PROVE TablesAgree'
    OBVIOUS
<1> USE DEF TypeOK, TablesAgree, ShuttingDown, Goto, ShutDownThen, tables
<1>1. ASSUME NEW s \in Sessions, Server(s) PROVE TablesAgree'
  <2>1. CASE Sweep(s)    BY <2>1 DEF Sweep
  <2>2. CASE Admit(s)    BY <2>2 DEF Admit
  <2>3. CASE OpenLock(s) BY <2>3 DEF OpenLock
  <2>4. CASE Flock(s)    BY <2>4 DEF Flock
  <2>5. CASE GiveUp(s)   BY <2>5 DEF GiveUp
  <2>6. CASE Spawn(s)    BY <2>6 DEF Spawn
  <2>7. CASE Ready(s)    BY <2>7 DEF Ready
  <2>8. CASE Register(s) BY <2>8 DEF Register
  <2>9. CASE Navigate(s) BY <2>9 DEF Navigate
  <2>10. CASE Kill(s)    BY <2>10 DEF Kill
  <2>11. CASE Unflock(s) BY <2>11 DEF Unflock
  <2>12. CASE Unlink(s)  BY <2>12 DEF Unlink
  <2> QED
      BY <1>1, <2>1, <2>2, <2>3, <2>4, <2>5, <2>6, <2>7, <2>8, <2>9, <2>10, <2>11, <2>12
      DEF Server
<1>2. ASSUME NEW s \in Sessions, Agent(s) PROVE TablesAgree'
  <2>1. CASE Open(s)      BY <2>1 DEF Open
  <2>2. CASE CloseIdle(s) BY <2>2 DEF CloseIdle
  <2>3. CASE Watchdog(s)  BY <2>3 DEF Watchdog
  <2>4. CASE Touch(s)     BY <2>4 DEF Touch
  <2>5. CASE Close(s)     BY <2>5 DEF Close
  <2> QED
      BY <1>2, <2>1, <2>2, <2>3, <2>4, <2>5 DEF Agent
<1>3. ASSUME NEW s \in Sessions, GoIdle(s) \/ Die(s) PROVE TablesAgree'
    BY <1>3 DEF GoIdle, Die
<1>4. CASE UNCHANGED vars
    BY <1>4 DEF vars
<1> QED
    BY <1>1, <1>2, <1>3, <1>4 DEF Next

(* Every variable of BrowserSessions keeps its type.                         *)
THEOREM TypeCorrect == Spec => []TypeOK
<1>1. IInv => TypeOK
    BY DEF IInv
<1> QED
    BY <1>1, InitIInv, NextIInv, PTL DEF Spec

(* Whoever has locked an inode has it open, and either a request is at work  *)
(* on it, or close_session and the clean-up of idle sessions find it in both *)
(* tables, or a navigation of open_session raised and nobody finds it.       *)
THEOREM LockNotForgotten == Spec => []LockIsReleasable
<1>1. IInv /\ TablesAgree => LockIsReleasable
  <2> SUFFICES ASSUME IInv, TablesAgree, NEW i \in Inodes, flock[i] # None
               PROVE  LET s == flock[i] IN
                      /\ fd[s] = i
                      /\ \/ pc[s] \in (Serving \ {"in", "lost"}) \cup {"spawn", "kill", "unflock"}
                         \/ pc[s] = "in" /\ s \in registry \cap live
                         \/ pc[s] = "lost"
      BY DEF LockIsReleasable
  <2>1. flock[i] \in Sessions
      BY DEF IInv, TypeOK
  <2>2. fd[flock[i]] = i /\ pc[flock[i]] \in Serving \cup {"spawn", "kill", "unflock"}
      BY DEF IInv, LockHasOwner
  <2>3. pc[flock[i]] = "in" => flock[i] \in registry \cap live
      BY <2>1 DEF TablesAgree
  <2> QED
      BY <2>2, <2>3
<1>2. IInv => TypeOK
    BY DEF IInv
<1> QED
    BY <1>1, <1>2, InitIInv, NextIInv, InitTables, NextTables, PTL DEF Spec

(* A Chromium in service, however many there are, belongs to a session that  *)
(* holds a lock.                                                             *)
THEOREM ChromiumUnderLock == Spec => []RunsUnderLock
<1>1. IInv => RunsUnderLock
  <2> SUFFICES ASSUME IInv, NEW s \in alive PROVE Holds(s) \/ pc[s] \in {"unborn", "sweep"}
      BY DEF RunsUnderLock
  <2>1. s \in Sessions
      BY DEF IInv, TypeOK
  <2> QED
      BY <2>1 DEF IInv, DiesInTime, ServesUnderLock
<1> QED
    BY <1>1, InitIInv, NextIInv, PTL DEF Spec
=============================================================================

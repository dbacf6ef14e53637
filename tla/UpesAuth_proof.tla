--------------------------- MODULE UpesAuth_proof ---------------------------
(* What holds of UpesAuth for any number of calls and users, any lifetimes   *)
(* and any cooldown: the types, the single flight, the silence of the open   *)
(* breaker and where a password may be sent.                                 *)
EXTENDS UpesAuth, TLAPS

(* Every part of InFlight is a step of a call. *)
LEMMA StepNames ==
    /\ InFlight \subseteq Steps
    /\ Upstream \subseteq InFlight /\ Saving \subseteq InFlight
    /\ Upstream \cap Saving = {}
    /\ {"load", "settle", "release", "refresh", "idp", "login",
        "saveRefresh", "saveIdp", "saveLogin"} \subseteq InFlight
    /\ {"unborn", "fast", "enter", "ended"} \subseteq Steps \ InFlight
  BY DEF InFlight, Steps, Upstream, Saving

(* A call that goes to a step keeps the types. *)
LEMMA GotoType ==
    ASSUME TypeOK, NEW c \in Calls, NEW s \in Steps, Goto(c, s)
    PROVE  /\ pc' \in [Calls -> Steps]
           /\ UnderWay(c) /\ user' = user => \A d \in Calls : UnderWay(d)' => user'[d] \in Users
  BY DEF Goto, TypeOK, UnderWay

(* The end of a call keeps the types. *)
LEMMA EndType ==
    ASSUME TypeOK, NEW c \in Calls, End(c)
    PROVE  /\ pc' \in [Calls -> Steps]
           /\ user' \in [Calls -> Users \cup {None}]
           /\ force' \in [Calls -> BOOLEAN]
           /\ since' \in [Calls -> Nat]
           /\ bundle' \in [Calls -> Sessions \cup {None}]
           /\ \A d \in Calls : UnderWay(d)' => user'[d] \in Users
<1>1. pc' \in [Calls -> Steps]
  BY GotoType, StepNames DEF End
<1>2. \A d \in Calls : UnderWay(d)' => user'[d] \in Users
  BY DEF End, Goto, UnderWay, TypeOK
<1> QED BY <1>1, <1>2 DEF End, TypeOK

(* An answer keeps the types. *)
LEMMA AnswerType ==
    ASSUME TypeOK, NEW c \in Calls, NEW a \in Answers, Answer(c, a)
    PROVE  answer' \in [Calls -> Answers]
  BY DEF Answer, TypeOK

BreakerType == [count : Nat, reason : Reasons \cup {"none"}, at : Nat]

(* What is recorded in the breaker keeps the types. *)
LEMMA BreakerTypes ==
    ASSUME TypeOK
    PROVE  /\ \A r \in Reasons : \A n \in Nat : Failure(r, n) => breaker' \in BreakerType
           /\ Success => breaker' \in BreakerType
<1>1. breaker.count \in Nat /\ breaker.at \in Nat /\ clock \in Nat /\ breaker \in BreakerType
  BY DEF TypeOK, BreakerType
<1>2. ASSUME NEW r \in Reasons, NEW n \in Nat, Failure(r, n) PROVE breaker' \in BreakerType
  <2>1. breaker.count + n \in Nat
    BY <1>1
  <2> QED BY <1>1, <1>2, <2>1 DEF Failure, BreakerType
<1>3. ASSUME Success PROVE breaker' \in BreakerType
  BY <1>1, <1>3 DEF Success, BreakerType
<1> QED BY <1>2, <1>3

(* A renewed session is a session. *)
LEMMA RenewedType ==
    ASSUME TypeOK, NEW c \in Calls
    PROVE  Renewed(c) \subseteq Sessions
<1>1. \A l \in Lifetimes : clock + l \in Nat
  BY UpesAssumption DEF TypeOK
<1> QED BY <1>1 DEF Renewed, Sessions

(* The initial states are of the types. *)
LEMMA TypeInit == Init => TypeOK
<1> SUFFICES ASSUME Init PROVE TypeOK
  OBVIOUS
<1>1. [expires : Lifetimes, refresh : BOOLEAN, cookies : BOOLEAN] \subseteq Sessions
  BY UpesAssumption DEF Sessions
<1>2. row \in [Users -> Sessions \cup {None}]
  BY <1>1 DEF Init
<1>3. breaker \in [count : Nat, reason : Reasons \cup {"none"}, at : Nat]
  BY DEF Init, Closed
<1>4. pc \in [Calls -> Steps] /\ answer \in [Calls -> Answers]
  BY StepNames DEF Init, Answers
<1> QED BY <1>2, <1>3, <1>4 DEF Init, TypeOK, UnderWay

(* Every step keeps the types. *)
LEMMA TypeStep == TypeOK /\ [Next]_vars => TypeOK'
<1> SUFFICES ASSUME TypeOK, [Next]_vars PROVE TypeOK'
  OBVIOUS
<1> USE DEF locals, UnderWay
<1>1. ASSUME NEW c \in Calls, Begin(c) PROVE TypeOK'
  <2>1. PICK u \in Users, f \in BOOLEAN :
            /\ user' = [user EXCEPT ![c] = u]
            /\ force' = [force EXCEPT ![c] = f]
            /\ Goto(c, IF f THEN "enter" ELSE "fast")
            /\ out' = out \ {u}
    BY <1>1 DEF Begin
  <2>2. pc' \in [Calls -> Steps]
    BY <2>1, GotoType, StepNames
  <2>3. \A d \in Calls : UnderWay(d)' => user'[d] \in Users
    BY <1>1, <2>1 DEF Begin, Goto, TypeOK
  <2> QED BY <1>1, <2>1, <2>2, <2>3 DEF Begin, TypeOK
<1>2. ASSUME NEW c \in Calls, FastPath(c) PROVE TypeOK'
  <2>1. CASE Comfortable(row[user[c]], since[c])
    BY <1>2, <2>1, EndType, AnswerType DEF FastPath, TypeOK, Answers
  <2>2. CASE ~Comfortable(row[user[c]], since[c])
    BY <1>2, <2>2, GotoType, StepNames DEF FastPath, TypeOK
  <2> QED BY <2>1, <2>2
<1>3. ASSUME NEW c \in Calls, Enter(c) PROVE TypeOK'
  <2>1. CASE End(c) /\ Answer(c, "stored") /\ UNCHANGED busy
    BY <1>3, <2>1, EndType, AnswerType DEF Enter, TypeOK, Answers
  <2>2. CASE End(c) /\ Answer(c, "refused") /\ UNCHANGED busy
    BY <1>3, <2>2, EndType, AnswerType DEF Enter, TypeOK, Answers
  <2>3. CASE busy' = TRUE /\ Goto(c, "load") /\ UNCHANGED <<locals, answer>>
    BY <1>3, <2>3, GotoType, StepNames DEF Enter, TypeOK
  <2> QED BY <1>3, <2>1, <2>2, <2>3 DEF Enter
<1>4. ASSUME NEW c \in Calls, Load(c) PROVE TypeOK'
  <2> DEFINE first == CASE force[c] -> "login"
                        [] ~force[c] /\ row[user[c]] = None -> "settle"
                        [] ~force[c] /\ row[user[c]] # None ->
                              IF row[user[c]].refresh THEN "refresh"
                              ELSE IF row[user[c]].cookies THEN "idp" ELSE "settle"
  <2>1. first \in Steps
    BY StepNames DEF TypeOK
  <2>2. pc' \in [Calls -> Steps] /\ \A d \in Calls : UnderWay(d)' => user'[d] \in Users
    BY <1>4, <2>1, GotoType DEF Load
  <2>3. row[user[c]] \in Sessions \cup {None}
    BY <1>4 DEF Load, TypeOK
  <2> QED BY <1>4, <2>2, <2>3 DEF Load, TypeOK
<1>5. ASSUME NEW c \in Calls, Refresh(c) PROVE TypeOK'
  <2>1. pc' \in [Calls -> Steps] /\ \A d \in Calls : UnderWay(d)' => user'[d] \in Users
    BY <1>5, GotoType, StepNames DEF Refresh, Saving, AfterRefresh
  <2>2. answer' \in [Calls -> Answers]
    BY <1>5, AnswerType DEF Refresh, Answers, TypeOK
  <2>3. breaker' \in BreakerType
    BY <1>5, BreakerTypes DEF Refresh, TypeOK, BreakerType, Reasons
  <2> QED BY <1>5, <2>1, <2>2, <2>3 DEF Refresh, TypeOK, BreakerType
<1>6. ASSUME NEW c \in Calls, RenewByIdp(c) PROVE TypeOK'
  BY <1>6, GotoType, StepNames DEF RenewByIdp, TypeOK
<1>7. ASSUME NEW c \in Calls, Settle(c) PROVE TypeOK'
  <2>1. pc' \in [Calls -> Steps] /\ \A d \in Calls : UnderWay(d)' => user'[d] \in Users
    BY <1>7, GotoType, StepNames DEF Settle, Saving
  <2>2. answer' \in [Calls -> Answers]
    BY <1>7, AnswerType DEF Settle, Answers, TypeOK
  <2>3. breaker' \in BreakerType
    BY <1>7, BreakerTypes DEF Settle, TypeOK, BreakerType, Reasons, Immediate
  <2> QED BY <1>7, <2>1, <2>2, <2>3 DEF Settle, TypeOK, BreakerType
<1>8. ASSUME NEW c \in Calls, Login(c) PROVE TypeOK'
  <2>1. pc' \in [Calls -> Steps] /\ \A d \in Calls : UnderWay(d)' => user'[d] \in Users
    BY <1>8, GotoType, StepNames DEF Login, Saving
  <2>2. answer' \in [Calls -> Answers]
    BY <1>8, AnswerType DEF Login, Answers, TypeOK
  <2>3. breaker' \in BreakerType
    BY <1>8, BreakerTypes DEF Login, TypeOK, BreakerType, Reasons, Immediate
  <2>4. rejected' \in [Users -> Nat \cup {None}]
    BY <1>8 DEF Login, TypeOK
  <2> QED BY <1>8, <2>1, <2>2, <2>3, <2>4 DEF Login, TypeOK, BreakerType
<1>9. ASSUME NEW c \in Calls, Save(c) PROVE TypeOK'
  <2>1. row' \in [Users -> Sessions \cup {None}]
    BY <1>9, RenewedType DEF Save, TypeOK
  <2>2. /\ pc' \in [Calls -> Steps] /\ answer' \in [Calls -> Answers]
        /\ \A d \in Calls : UnderWay(d)' => user'[d] \in Users
    BY <1>9, GotoType, AnswerType, StepNames DEF Save, Answers, Saving
  <2>3. breaker' \in BreakerType
    BY <1>9, BreakerTypes DEF Save
  <2>4. rejected' \in [Users -> Nat \cup {None}]
    BY <1>9 DEF Save, TypeOK
  <2> QED BY <1>9, <2>1, <2>2, <2>3, <2>4 DEF Save, TypeOK, BreakerType
<1>10. ASSUME NEW c \in Calls, SaveFails(c) PROVE TypeOK'
  <2>1. pc' \in [Calls -> Steps] /\ \A d \in Calls : UnderWay(d)' => user'[d] \in Users
    BY <1>10, GotoType, StepNames DEF SaveFails, Saving, AfterRefresh
  <2>2. answer' \in [Calls -> Answers]
    BY <1>10, AnswerType DEF SaveFails, Answers, TypeOK
  <2>3. breaker' \in BreakerType
    BY <1>10, BreakerTypes DEF SaveFails, TypeOK, BreakerType, Reasons
  <2> QED BY <1>10, <2>1, <2>2, <2>3 DEF SaveFails, TypeOK, BreakerType
<1>11. ASSUME NEW c \in Calls, Release(c) PROVE TypeOK'
  BY <1>11, EndType DEF Release, TypeOK
<1>12. ASSUME NEW u \in Users, Logout(u) PROVE TypeOK'
  BY <1>12 DEF Logout, TypeOK
<1>13. ASSUME NEW u \in Users, Import(u) PROVE TypeOK'
  <2>1. \A l \in Lifetimes : clock + l \in Nat
    BY UpesAssumption DEF TypeOK
  <2>2. row' \in [Users -> Sessions \cup {None}]
    BY <1>13, <2>1 DEF Import, TypeOK, Sessions
  <2>3. breaker' \in BreakerType
    BY <1>13, BreakerTypes DEF Import
  <2>4. rejected' \in [Users -> Nat \cup {None}]
    BY <1>13 DEF Import, TypeOK
  <2> QED BY <1>13, <2>2, <2>3, <2>4 DEF Import, TypeOK, BreakerType
<1>14. CASE Tick
  BY <1>14 DEF Tick, TypeOK
<1>15. CASE UNCHANGED vars
  BY <1>15 DEF vars, TypeOK
<1> QED BY <1>1, <1>2, <1>3, <1>4, <1>5, <1>6, <1>7, <1>8, <1>9, <1>10, <1>11, <1>12,
           <1>13, <1>14, <1>15 DEF Next, Step

(* Every variable keeps its type, whatever calls, users and lifetimes there  *)
(* are (upes/auth.py, ensure_authenticated, import and logout).              *)
THEOREM TypeCorrect == Spec => []TypeOK
  BY TypeInit, TypeStep, PTL DEF Spec

-----------------------------------------------------------------------------
(* The inductive invariant.  That nobody else is in flight follows from the  *)
(* flag, which is raised as long as somebody is; and since the breaker is    *)
(* told of a failure by the one call in flight only, nobody else is waiting  *)
(* for UPES when it opens.                                                   *)
Flight == (\A c \in Calls : pc[c] \in InFlight => busy) /\ OneFlight

Spared(c) == pc[c] \in InFlight \ {"release"} /\ ~force[c] => ~Open
Bootstraps(c) == pc[c] \in {"login", "saveLogin"} /\ ~force[c] => bundle[c] = None

IInv == TypeOK /\ Flight /\ \A c \in Calls : Spared(c) /\ Bootstraps(c)

(* A step of call c only. *)
Only(c) == \A d \in Calls \ {c} : pc'[d] = pc[d] /\ force'[d] = force[d] /\ bundle'[d] = bundle[d]

(* The part of the invariant that a step of c has to show for c itself. *)
Own(c) == /\ pc[c] \in InFlight => busy
          /\ Spared(c) /\ Bootstraps(c)

LEMMA OwnSteps ==
    ASSUME TypeOK, NEW c \in Calls
    PROVE  /\ \A s \in Steps : Goto(c, s) => pc'[c] = s /\ \A d \in Calls \ {c} : pc'[d] = pc[d]
           /\ End(c) => pc'[c] = "ended" /\ Only(c)
  BY StepNames DEF TypeOK, Goto, End, Only

(* A step of the call in flight, or of one that enters while nobody is,      *)
(* disturbs nobody else.                                                     *)
LEMMA AloneInFlight ==
    ASSUME IInv, TypeOK', NEW c \in Calls, Only(c), pc[c] \in InFlight \/ ~busy, Own(c)'
    PROVE  IInv'
<1>1. \A d \in Calls \ {c} : pc'[d] \notin InFlight
  BY DEF IInv, Flight, OneFlight, Only
<1>2. Flight'
  BY <1>1 DEF Own, Flight, OneFlight
<1>3. \A d \in Calls \ {c} : pc'[d] \notin {"login", "saveLogin"}
  BY <1>1, StepNames
<1>4. \A d \in Calls : (Spared(d) /\ Bootstraps(d))'
  BY <1>1, <1>3 DEF Own, Spared, Bootstraps
<1> QED BY <1>2, <1>4 DEF IInv

(* A step of a call that is not in flight, before and after, disturbs nobody *)
(* if it leaves the flag and the breaker alone.                              *)
LEMMA NotInFlight ==
    ASSUME IInv, TypeOK', NEW c \in Calls, Only(c), pc[c] \notin InFlight, pc'[c] \notin InFlight,
           UNCHANGED <<busy, breaker, clock>>
    PROVE  IInv'
<1>1. Flight'
  BY DEF IInv, Flight, OneFlight, Only
<1>2. pc'[c] \notin {"login", "saveLogin"}
  BY StepNames
<1>3. \A d \in Calls \ {c} : (Spared(d) /\ Bootstraps(d))'
  BY DEF IInv, Only, Spared, Bootstraps, Open
<1>4. (Spared(c) /\ Bootstraps(c))'
  BY <1>2 DEF Spared, Bootstraps
<1> QED BY <1>1, <1>3, <1>4 DEF IInv

(* What happens outside the calls does not open the breaker. *)
LEMMA Outside ==
    ASSUME IInv, TypeOK', UNCHANGED <<busy, pc, force, bundle>>, Open' => Open
    PROVE  IInv'
  BY DEF IInv, Flight, OneFlight, Spared, Bootstraps

(* A step of the call in flight goes on to another step in flight: to the    *)
(* release, whatever it records in the breaker, or, leaving that alone, to a *)
(* step that asks for the password only if the call could before.            *)
LEMMA OnwardInFlight ==
    ASSUME IInv, TypeOK', NEW c \in Calls, NEW s \in InFlight, Goto(c, s),
           pc[c] \in InFlight \ {"release"}, UNCHANGED <<busy, force, clock>>,
           \A d \in Calls \ {c} : bundle'[d] = bundle[d],
           \/ s = "release"
           \/ /\ breaker' = breaker
              /\ s \in {"login", "saveLogin"} =>
                    force[c] \/ (bundle'[c] = bundle[c] /\ (pc[c] = "login" \/ bundle[c] = None))
    PROVE  IInv'
<1>1. pc'[c] = s /\ Only(c)
  BY StepNames DEF IInv, TypeOK, Goto, Only
<1>2. busy'
  BY DEF IInv, Flight
<1>3. CASE s = "release"
  BY <1>1, <1>2, <1>3, AloneInFlight DEF Own, Spared, Bootstraps
<1>4. CASE s # "release"
  <2>1. Spared(c)'
    BY <1>1, <1>4 DEF IInv, Spared, Open
  <2>2. Bootstraps(c)'
    BY <1>1, <1>4 DEF IInv, Bootstraps
  <2> QED BY <1>1, <1>2, <2>1, <2>2, AloneInFlight DEF Own
<1> QED BY <1>3, <1>4

LEMMA Inductive == IInv /\ [Next]_vars => IInv'
<1> SUFFICES ASSUME IInv, [Next]_vars PROVE IInv'
  OBVIOUS
<1>1. TypeOK
  BY DEF IInv
<1>2. TypeOK'
  BY <1>1, TypeStep
<1> USE DEF locals
<1>3. ASSUME NEW c \in Calls, Begin(c) PROVE IInv'
  <2>1. pc[c] \notin InFlight /\ pc'[c] \notin InFlight /\ Only(c)
    BY <1>1, <1>3, StepNames DEF Begin, Goto, Only, TypeOK
  <2> QED BY <1>2, <1>3, <2>1, NotInFlight DEF Begin
<1>4. ASSUME NEW c \in Calls, FastPath(c) PROVE IInv'
  <2>1. pc[c] \notin InFlight /\ pc'[c] \notin InFlight /\ Only(c)
    BY <1>1, <1>4, StepNames, OwnSteps DEF FastPath, Only
  <2> QED BY <1>2, <1>4, <2>1, NotInFlight DEF FastPath
<1>5. ASSUME NEW c \in Calls, Enter(c) PROVE IInv'
  <2>1. CASE End(c)
    <3>1. pc[c] \notin InFlight /\ pc'[c] \notin InFlight /\ Only(c)
      BY <1>1, <1>5, <2>1, StepNames, OwnSteps DEF Enter
    <3>2. busy' = busy
      BY <1>1, <1>5, <2>1, OwnSteps, StepNames DEF Enter
    <3> QED BY <1>2, <1>5, <3>1, <3>2, NotInFlight DEF Enter
  <2>2. CASE ~End(c)
    <3>1. busy' = TRUE /\ pc'[c] = "load" /\ Only(c) /\ ~busy
      BY <1>1, <1>5, <2>2, StepNames, OwnSteps DEF Enter, Only
    <3>2. force'[c] \/ ~Open'
      BY <1>5, <2>2 DEF Enter, Open
    <3>3. Own(c)'
      BY <3>1, <3>2 DEF Own, Spared, Bootstraps
    <3> QED BY <1>2, <3>1, <3>3, AloneInFlight
  <2> QED BY <2>1, <2>2
<1>6. ASSUME NEW c \in Calls, Load(c) PROVE IInv'
  <2>1. PICK s \in {"login", "settle", "refresh", "idp"} : Goto(c, s) /\ (s = "login" => force[c])
    BY <1>1, <1>6 DEF Load, TypeOK
  <2>2. s \in InFlight /\ pc[c] \in InFlight \ {"release"}
    BY <1>6, StepNames DEF Load
  <2>3. \A d \in Calls \ {c} : bundle'[d] = bundle[d]
    BY <1>1, <1>6 DEF Load, TypeOK
  <2>4. s # "saveLogin" /\ UNCHANGED <<busy, force, clock, breaker>>
    BY <1>6, <2>1 DEF Load
  <2> QED BY <1>2, <2>1, <2>2, <2>3, <2>4, OnwardInFlight
<1>7. ASSUME NEW c \in Calls, Refresh(c) PROVE IInv'
  BY <1>2, <1>7, StepNames, OnwardInFlight DEF Refresh, AfterRefresh
<1>8. ASSUME NEW c \in Calls, RenewByIdp(c) PROVE IInv'
  BY <1>2, <1>8, StepNames, OnwardInFlight DEF RenewByIdp
<1>9. ASSUME NEW c \in Calls, Settle(c) PROVE IInv'
  BY <1>2, <1>9, StepNames, OnwardInFlight DEF Settle
<1>10. ASSUME NEW c \in Calls, Login(c) PROVE IInv'
  BY <1>2, <1>10, StepNames, OnwardInFlight DEF Login
<1>11. ASSUME NEW c \in Calls, Save(c) PROVE IInv'
  BY <1>2, <1>11, StepNames, OnwardInFlight DEF Save, Saving
<1>12. ASSUME NEW c \in Calls, SaveFails(c) PROVE IInv'
  BY <1>2, <1>12, StepNames, OnwardInFlight DEF SaveFails, AfterRefresh, Saving
<1>13. ASSUME NEW c \in Calls, Release(c) PROVE IInv'
  <2>1. pc[c] \in InFlight /\ pc'[c] = "ended" /\ Only(c)
    BY <1>1, <1>13, StepNames, OwnSteps DEF Release
  <2>2. Own(c)'
    BY <2>1, StepNames DEF Own, Spared, Bootstraps
  <2> QED BY <1>2, <2>1, <2>2, AloneInFlight
<1>14. ASSUME NEW u \in Users, Logout(u) PROVE IInv'
  BY <1>2, <1>14, Outside DEF Logout, Open
<1>15. ASSUME NEW u \in Users, Import(u) PROVE IInv'
  <2>1. ~Open'
    BY <1>1, <1>15 DEF Import, Success, Open, TypeOK
  <2> QED BY <1>2, <1>15, <2>1, Outside DEF Import
<1>16. CASE Tick
  <2>1. Open' => Open
    BY <1>1, <1>16, UpesAssumption DEF Tick, Open, TypeOK
  <2> QED BY <1>2, <1>16, <2>1, Outside DEF Tick
<1>17. CASE UNCHANGED vars
  BY <1>2, <1>17, Outside DEF vars, Open
<1> QED BY <1>3, <1>4, <1>5, <1>6, <1>7, <1>8, <1>9, <1>10, <1>11, <1>12, <1>13, <1>14, <1>15,
           <1>16, <1>17 DEF Next, Step

LEMMA Always == Spec => []IInv
<1>1. Init => IInv
  BY TypeInit, StepNames DEF Init, IInv, Flight, OneFlight, Spared, Bootstraps
<1> QED BY <1>1, Inductive, PTL DEF Spec

(* At most one call at a time renews a session, for any number of calls.     *)
THEOREM SingleFlight == Spec => []OneFlight
<1>1. IInv => OneFlight
  BY DEF IInv, Flight
<1> QED BY <1>1, Always, PTL

(* While the breaker is open UPES hears of nobody but those who force a      *)
(* login, whoever waited and whatever fails.                                 *)
THEOREM SilentWhileOpen == Spec => []NoCallWhileOpen
<1>1. IInv => NoCallWhileOpen
  BY StepNames DEF IInv, Spared, NoCallWhileOpen, Upstream
<1> QED BY <1>1, Always, PTL

(* A password is sent unasked only for a user who had no session.            *)
THEOREM PasswordOnlyAtFirst == Spec => []PasswordOnlyToBootstrap
<1>1. IInv => PasswordOnlyToBootstrap
  BY DEF IInv, Bootstraps, PasswordOnlyToBootstrap
<1> QED BY <1>1, Always, PTL

-----------------------------------------------------------------------------
(* A call judges the stored session by the time at which it began, which is  *)
(* not ahead of the clock: a session that is no longer comfortable by that   *)
(* time is not comfortable now.                                              *)
NotAhead == \A c \in Calls : since[c] <= clock

LEMMA NotAheadStep == TypeOK /\ NotAhead /\ [Next]_vars => NotAhead'
<1> SUFFICES ASSUME TypeOK, NotAhead, [Next]_vars PROVE NotAhead'
  OBVIOUS
<1>1. ASSUME NEW c \in Calls, Begin(c) PROVE NotAhead'
  BY <1>1 DEF Begin, NotAhead, TypeOK
<1>2. ASSUME NEW c \in Calls, since' = since \/ End(c), clock' = clock PROVE NotAhead'
  BY <1>2 DEF End, NotAhead, TypeOK
<1>3. ASSUME NEW c \in Calls, Step(c) PROVE NotAhead'
  <2>1. (since' = since \/ End(c)) /\ clock' = clock
    BY <1>3 DEF Step, FastPath, Enter, Load, Refresh, RenewByIdp, Settle, Login, Save,
       SaveFails, Release, locals
  <2> QED BY <1>2, <2>1
<1>4. ASSUME NEW u \in Users, Logout(u) \/ Import(u) PROVE NotAhead'
  BY <1>4 DEF Logout, Import, locals, NotAhead
<1>5. CASE Tick
  BY <1>5 DEF Tick, locals, NotAhead, TypeOK
<1>6. CASE UNCHANGED vars
  BY <1>6 DEF vars, locals, NotAhead
<1> QED BY <1>1, <1>3, <1>4, <1>5, <1>6 DEF Next

(* Nothing but Enter lets a call in. *)
LEMMA LetIn ==
    ASSUME TypeOK, [Next]_vars, NEW c \in Calls, pc[c] = "enter", pc'[c] = "load"
    PROVE  Enter(c)
<1>1. ASSUME NEW d \in Calls, Begin(d) \/ Step(d) PROVE d = c
  <2>1. (\E s \in Steps : Goto(d, s)) \/ End(d) \/ pc' = [pc EXCEPT ![d] = pc'[d]]
    BY <1>1 DEF Begin, Step, FastPath, Enter, Load, Refresh, RenewByIdp, Settle, Login, Save,
       SaveFails, Release, Goto, AfterRefresh, TypeOK
  <2> QED BY <2>1, OwnSteps DEF Only, TypeOK
<1>2. ~Begin(c)
  BY DEF Begin
<1>3. Step(c) => Enter(c)
  BY StepNames DEF Step, FastPath, Load, Refresh, RenewByIdp, Settle, Login, Save, SaveFails,
     Release, Saving
<1>4. ASSUME NEW u \in Users, Logout(u) \/ Import(u) PROVE FALSE
  BY <1>4 DEF Logout, Import
<1>5. ~Tick /\ ~UNCHANGED vars
  BY DEF Tick, vars
<1> QED BY <1>1, <1>2, <1>3, <1>4, <1>5 DEF Next

(* Nobody begins a renewal while the stored token is comfortable by the      *)
(* clock: _ensure_authenticated looks again after the wait, and the time it  *)
(* judges by can only make a token look fresher than it is.                  *)
THEOREM RenewsWhenDue == Spec => NoRedundantRenewal
<1>1. ASSUME Init PROVE NotAhead
  <2> SUFFICES ASSUME NEW c \in Calls PROVE since[c] <= clock
    BY DEF NotAhead
  <2>1. since[c] = 0 /\ clock = 0
    BY <1>1 DEF Init
  <2> QED BY <2>1
<1>2. ASSUME TypeOK, NotAhead, [Next]_vars, NEW c \in Calls,
             pc[c] = "enter", pc'[c] = "load", ~force[c]
      PROVE  ~Comfortable(row[user[c]], clock)
  <2>1. Enter(c)
    BY <1>2, LetIn
  <2>2. ~Comfortable(row[user[c]], since[c])
    <3>1. ~End(c)
      BY <1>2, OwnSteps
    <3> QED BY <1>2, <2>1, <3>1 DEF Enter
  <2>3. SUFFICES ASSUME row[user[c]] # None
                 PROVE  ~(clock + Margin < row[user[c]].expires)
    BY DEF Comfortable
  <2>4. user[c] \in Users
    BY <1>2 DEF TypeOK, UnderWay
  <2>5. row[user[c]].expires \in Nat
    BY <1>2, <2>3, <2>4 DEF TypeOK, Sessions
  <2>6. ~(since[c] + Margin < row[user[c]].expires)
    BY <2>2, <2>3 DEF Comfortable
  <2> QED BY <1>2, <2>5, <2>6, UpesAssumption DEF NotAhead, TypeOK
<1>3. TypeOK /\ NotAhead /\ [Next]_vars
        => [\A c \in Calls : pc[c] = "enter" /\ pc'[c] = "load" /\ ~force[c]
              => ~Comfortable(row[user[c]], clock)]_vars
  BY <1>2
<1> QED BY <1>1, <1>3, TypeInit, TypeStep, NotAheadStep, PTL DEF Spec, NoRedundantRenewal
=============================================================================

--------------------- MODULE ConsequentialActions_proof ---------------------
(***************************************************************************)
(* Proofs about ConsequentialActions, for any number of threads, actions,  *)
(* plans, assignments and restarts and any lifetimes.                      *)
(***************************************************************************)
EXTENDS ConsequentialActions, TLAPS

-----------------------------------------------------------------------------
(* What the helpers the actions share do to the variables they assign.     *)

(* The labels used by the actions are steps. *)
LEMMA StepNames ==
    /\ FlightSteps \subseteq Steps
    /\ {"idle", "dropPlan", "dedupe", "create", "approve", "claim", "deny"} \subseteq Steps
    /\ {"load", "expire", "grant", "inspect", "consume", "recover", "verify", "precheck",
        "click", "confirm", "evidence", "submitted", "finish", "release"} \subseteq FlightSteps
  BY DEF Steps, FlightSteps, EntrySteps, PipelineSteps

(* Goto keeps the program counters typed. *)
LEMMA GotoType ==
    ASSUME TypeOK, NEW r \in Threads, NEW s \in Steps, Goto(r, s)
    PROVE  pc' \in [Threads -> Steps]
  BY DEF Goto, TypeOK

(* Return keeps the program counters and the locals typed. *)
LEMMA ReturnType ==
    ASSUME TypeOK, NEW r \in Threads, Return(r)
    PROVE  /\ pc' \in [Threads -> Steps]
           /\ act' \in [Threads -> Actions \cup {NoAction}]
           /\ req' \in [Threads -> Plans \cup {NoPlan}]
           /\ since' \in [Threads -> 0..MaxTime]
           /\ result' \in [Threads -> Results]
<1>1. pc' \in [Threads -> Steps]
  BY StepNames, GotoType DEF Return
<1>2. result' \in [Threads -> Results]
  BY DEF Return, Results, TypeOK
<1>3. since' \in [Threads -> 0..MaxTime]
  BY ConstantsAssumption DEF Return, TypeOK
<1> QED BY <1>1, <1>2, <1>3 DEF Return, TypeOK

(* Finish keeps the program counters and the results typed. *)
LEMMA FinishType ==
    ASSUME TypeOK, NEW r \in Threads, NEW res \in Results, Finish(r, res)
    PROVE  pc' \in [Threads -> Steps] /\ result' \in [Threads -> Results]
  BY StepNames, GotoType DEF Finish, TypeOK

(* SetAction and SetApproval keep their tables typed. *)
LEMMA TableTypes ==
    ASSUME TypeOK, NEW a
    PROVE  /\ \A s \in ActionStates : SetAction(a, s) =>
                action' \in [Actions -> [state : ActionStates, plan : Plans \cup {NoPlan},
                                         expires : Nat]]
           /\ \A s \in ApprovalStates : SetApproval(a, s) =>
                approval' \in [Actions -> ApprovalStates]
<1>1. ASSUME NEW s \in ActionStates, SetAction(a, s)
      PROVE  action' \in [Actions -> [state : ActionStates, plan : Plans \cup {NoPlan},
                                      expires : Nat]]
  <2> DEFINE Rows == [state : ActionStates, plan : Plans \cup {NoPlan}, expires : Nat]
  <2>1. action \in [Actions -> Rows] /\ action' = [action EXCEPT ![a].state = s]
    BY <1>1 DEF SetAction, TypeOK
  <2>2. a \in Actions => [action[a] EXCEPT !.state = s] \in Rows
    BY <2>1
  <2> HIDE DEF Rows
  <2>3. action' = [action EXCEPT ![a] = [action[a] EXCEPT !.state = s]]
    BY <2>1
  <2>4. action' \in [Actions -> Rows]
    BY <2>1, <2>2, <2>3
  <2> QED BY <2>4 DEF Rows
<1>2. ASSUME NEW s \in ApprovalStates, SetApproval(a, s)
      PROVE  approval' \in [Actions -> ApprovalStates]
  BY <1>2 DEF SetApproval, TypeOK
<1> QED BY <1>1, <1>2

(* Setting the state of a plan keeps its table typed. *)
LEMMA PlanType ==
    ASSUME TypeOK, NEW p, NEW s \in PlanStates, plan' = [plan EXCEPT ![p].state = s]
    PROVE  plan' \in [Plans -> [state : PlanStates, files : Versions, expires : Nat]]
<1> DEFINE Rows == [state : PlanStates, files : Versions, expires : Nat]
<1>1. plan \in [Plans -> Rows]
  BY DEF TypeOK
<1>2. p \in Plans => [plan[p] EXCEPT !.state = s] \in Rows
  BY <1>1
<1> HIDE DEF Rows
<1>3. plan' = [plan EXCEPT ![p] = [plan[p] EXCEPT !.state = s]]
  OBVIOUS
<1>4. plan' \in [Plans -> Rows]
  BY <1>1, <1>2, <1>3
<1> QED BY <1>4 DEF Rows

(* The outcome persisted at the end of an execution is a state, and neither *)
(* of the two states that wait for something.                               *)
LEMMA FinalStateType ==
    ASSUME NEW a, NEW res
    PROVE  /\ FinalState(a, res) \in {"INVALIDATED", "SUCCEEDED", "UNCERTAIN", "FAILED"}
           /\ FinalState(a, res) \in ActionStates
           /\ FinalState(a, res) = "INVALIDATED" <=> action[a].state = "INVALIDATED"
           /\ FinalState(a, res) = "SUCCEEDED" => res = "verified"
  BY DEF FinalState, ActionStates

-----------------------------------------------------------------------------
(* Every variable stays in its type, whatever requests overlap and wherever *)
(* the server restarts.                                                     *)
THEOREM TypeCorrect == Spec => []TypeOK
<1>1. Init => TypeOK
  BY ConstantsAssumption DEF Init, TypeOK, PlanStates, ActionStates, ApprovalStates,
     GrantStates, Steps, Results
<1>2. TypeOK /\ [Next]_vars => TypeOK'
  <2> SUFFICES ASSUME TypeOK, [Next]_vars PROVE TypeOK'
    OBVIOUS
  <2> USE DEF world, locals, tables
  <2>1. CASE Tick
    BY <2>1, ConstantsAssumption DEF Tick, TypeOK
  <2>2. CASE EditVault
    BY <2>2 DEF EditVault, TypeOK
  <2>3. CASE Crash
    BY <2>3, StepNames, ConstantsAssumption DEF Crash, Results, TypeOK
  <2>4. ASSUME NEW r \in Threads, NewRequest(r) PROVE TypeOK'
    <3>1. ASSUME NEW p \in Plans, PreparePlan(r, p) PROVE TypeOK'
      <4>1. now + PlanTtl \in Nat
        BY ConstantsAssumption DEF TypeOK
      <4>2. plan' \in [Plans -> [state : PlanStates, files : Versions, expires : Nat]]
        BY <3>1, <4>1 DEF PreparePlan, PlanStates, TypeOK
      <4> QED BY <3>1, <4>2 DEF PreparePlan, TypeOK
    <3>2. ASSUME NEW p \in Plans, SubmitAssignment(r, p) PROVE TypeOK'
      <4>1. pc' \in [Threads -> Steps]
        BY <3>2, StepNames, GotoType DEF SubmitAssignment
      <4> QED BY <3>2, <4>1 DEF SubmitAssignment, TypeOK
    <3>3. ASSUME NEW a \in Actions, ApproveRead(r, a) \/ DenyRead(r, a) PROVE TypeOK'
      <4>1. pc' \in [Threads -> Steps]
        BY <3>3, StepNames, GotoType DEF ApproveRead, DenyRead
      <4> QED BY <3>3, <4>1 DEF ApproveRead, DenyRead, TypeOK
    <3> QED BY <2>4, <3>1, <3>2, <3>3 DEF NewRequest
  <2>5. ASSUME NEW r \in Threads, RequestStep(r) PROVE TypeOK'
    <3>1. CASE DropPlan(r)
      <4>1. plan' \in [Plans -> [state : PlanStates, files : Versions, expires : Nat]]
        BY <3>1, PlanType DEF DropPlan, PlanStates
      <4> QED BY <3>1, <4>1, ReturnType DEF DropPlan, TypeOK
    <3>2. CASE DedupeHit(r) \/ NoIdentifierLeft(r) \/ ApproveRollback(r)
      <4>1. Return(r) /\ UNCHANGED <<tables, world, active, dispatched>>
        BY <3>2 DEF DedupeHit, NoIdentifierLeft, ApproveRollback
      <4> QED BY <4>1, ReturnType DEF TypeOK
    <3>3. CASE DedupeMiss(r)
      <4>1. pc' \in [Threads -> Steps]
        BY <3>3, StepNames, GotoType DEF DedupeMiss
      <4> QED BY <3>3, <4>1 DEF DedupeMiss, TypeOK
    <3>4. CASE CreateAction(r)
      <4>1. since[r] + ActionTtl \in Nat
        BY ConstantsAssumption DEF TypeOK
      <4>2. action' \in [Actions -> [state : ActionStates, plan : Plans \cup {NoPlan},
                                     expires : Nat]]
        BY <3>4, <4>1 DEF CreateAction, ActionStates, TypeOK
      <4>3. approval' \in [Actions -> ApprovalStates]
        BY <3>4, TableTypes DEF CreateAction, ApprovalStates
      <4> QED BY <3>4, <4>2, <4>3, ReturnType DEF CreateAction, TypeOK
    <3>5. CASE ApproveCommit(r)
      <4>1. /\ action' \in [Actions -> [state : ActionStates, plan : Plans \cup {NoPlan},
                                        expires : Nat]]
            /\ approval' \in [Actions -> ApprovalStates]
        BY <3>5, TableTypes DEF ApproveCommit, ActionStates, ApprovalStates
      <4>2. grant' \in [Actions -> GrantStates]
        BY <3>5 DEF ApproveCommit, GrantStates, TypeOK
      <4>3. pc' \in [Threads -> Steps]
        BY <3>5, StepNames, GotoType DEF ApproveCommit
      <4> QED BY <3>5, <4>1, <4>2, <4>3 DEF ApproveCommit, TypeOK
    <3>6. CASE DenyCommit(r)
      <4>1. /\ action' \in [Actions -> [state : ActionStates, plan : Plans \cup {NoPlan},
                                        expires : Nat]]
            /\ approval' \in [Actions -> ApprovalStates]
        BY <3>6, TableTypes DEF DenyCommit, ActionStates, ApprovalStates
      <4> QED BY <3>6, <4>1, ReturnType DEF DenyCommit, TypeOK
    <3> QED BY <2>5, <3>1, <3>2, <3>3, <3>4, <3>5, <3>6 DEF RequestStep
  <2>6. ASSUME NEW r \in Threads, ExecutionStep(r) PROVE TypeOK'
    <3>1. CASE Claim(r) \/ Load(r) \/ ReadGrant(r) \/ Inspect(r) \/ VerifyFiles(r)
      <4>1. /\ active' \subseteq active \cup {act[r]}
            /\ act[r] \in active' \/ active' = active
            /\ \E s \in Steps : Goto(r, s)
            /\ UNCHANGED <<tables, world, dispatched, locals>>
        BY <3>1, StepNames DEF Claim, Load, ReadGrant, Inspect, VerifyFiles
      <4>2. pc' \in [Threads -> Steps]
        BY <4>1, GotoType
      <4> QED BY <4>1, <4>2 DEF TypeOK
    <3>2. CASE ClaimRefused(r) \/ Release(r)
      <4>1. Return(r) /\ active' \subseteq active /\ UNCHANGED <<tables, world, dispatched>>
        BY <3>2 DEF ClaimRefused, Release
      <4> QED BY <4>1, ReturnType DEF TypeOK
    <3>3. CASE ExpireAction(r)
      <4>1. /\ action' \in [Actions -> [state : ActionStates, plan : Plans \cup {NoPlan},
                                        expires : Nat]]
            /\ approval' \in [Actions -> ApprovalStates]
        BY <3>3, TableTypes DEF ExpireAction, Invalidate, ActionStates, ApprovalStates
      <4>2. pc' \in [Threads -> Steps]
        BY <3>3, StepNames, GotoType DEF ExpireAction
      <4> QED BY <3>3, <4>1, <4>2 DEF ExpireAction, TypeOK
    <3>4. CASE Recover(r) \/ Consume(r)
      <4>1. action' \in [Actions -> [state : ActionStates, plan : Plans \cup {NoPlan},
                                     expires : Nat]]
        BY <3>4, TableTypes DEF Recover, Consume, ActionStates
      <4>2. grant' \in [Actions -> GrantStates]
        BY <3>4 DEF Recover, Consume, GrantStates, TypeOK
      <4>3. pc' \in [Threads -> Steps]
        BY <3>4, StepNames, GotoType DEF Recover, Consume
      <4> QED BY <3>4, <4>1, <4>2, <4>3 DEF Recover, Consume, TypeOK
    <3>5. CASE RejectFiles(r)
      <4>1. /\ action' \in [Actions -> [state : ActionStates, plan : Plans \cup {NoPlan},
                                        expires : Nat]]
            /\ approval' \in [Actions -> ApprovalStates]
        BY <3>5, TableTypes DEF RejectFiles, Invalidate, ActionStates, ApprovalStates
      <4>2. pc' \in [Threads -> Steps] /\ result' \in [Threads -> Results]
        BY <3>5, FinishType DEF RejectFiles, Results
      <4> QED BY <3>5, <4>1, <4>2 DEF RejectFiles, TypeOK
    <3>6. CASE Precheck(r) \/ Evidence(r)
      <4>1. \/ (\E s \in Steps : Goto(r, s)) /\ UNCHANGED result
            \/ \E res \in Results : Finish(r, res)
        <5>1. "submitted" \in Steps /\ "click" \in Steps
          BY StepNames
        <5>2. {"unverified", "uncertain", "failed"} \subseteq Results
          BY DEF Results
        <5>3. CASE Precheck(r)
          BY <5>1, <5>2, <5>3 DEF Precheck
        <5>4. CASE Evidence(r)
          BY <5>1, <5>2, <5>4 DEF Evidence
        <5> QED BY <3>6, <5>3, <5>4
      <4>2. pc' \in [Threads -> Steps] /\ result' \in [Threads -> Results]
        BY <4>1, GotoType, FinishType DEF TypeOK
      <4>3. UNCHANGED <<tables, world, active, dispatched, act, req, since>>
        BY <3>6 DEF Precheck, Evidence
      <4> QED BY <4>2, <4>3 DEF TypeOK
    <3>9. CASE Click(r) \/ Confirm(r)
      <4>1. \/ (\E s \in Steps : Goto(r, s)) /\ UNCHANGED result
            \/ Finish(r, "failed")
        <5>1. "confirm" \in Steps /\ "evidence" \in Steps
          BY StepNames
        <5> QED BY <3>9, <5>1 DEF Click, Confirm
      <4>2. "failed" \in Results
        BY DEF Results
      <4>3. pc' \in [Threads -> Steps] /\ result' \in [Threads -> Results]
        BY <4>1, <4>2, GotoType, FinishType DEF TypeOK
      <4>4. dispatched' \in [Actions -> Nat]
        BY <3>9 DEF Click, Confirm, TypeOK
      <4>6. remote' \in [Targets -> {"draft", "submitted"}]
        <5>1. \/ remote' = [remote EXCEPT ![Target(act[r])] = "submitted"]
              \/ remote' = remote
          BY <3>9 DEF Click, Confirm
        <5> QED BY <5>1 DEF TypeOK
      <4>5. UNCHANGED <<tables, now, vault, crashes, active, act, req, since>>
        BY <3>9 DEF Click, Confirm
      <4> QED BY <4>3, <4>4, <4>5, <4>6 DEF TypeOK
    <3>7. CASE MarkSubmitted(r)
      <4>1. pc' \in [Threads -> Steps] /\ result' \in [Threads -> Results]
        BY <3>7, FinishType DEF MarkSubmitted, Results
      <4>2. plan' \in [Plans -> [state : PlanStates, files : Versions, expires : Nat]]
        BY <3>7, PlanType DEF MarkSubmitted, PlanStates
      <4> QED BY <3>7, <4>1, <4>2 DEF MarkSubmitted, TypeOK
    <3>8. CASE PersistOutcome(r)
      <4>1. action' \in [Actions -> [state : ActionStates, plan : Plans \cup {NoPlan},
                                     expires : Nat]]
        BY <3>8, TableTypes, FinalStateType DEF PersistOutcome
      <4>2. pc' \in [Threads -> Steps]
        BY <3>8, StepNames, GotoType DEF PersistOutcome
      <4> QED BY <3>8, <4>1, <4>2 DEF PersistOutcome, TypeOK
    <3> QED BY <2>6, <3>1, <3>2, <3>3, <3>4, <3>5, <3>6, <3>7, <3>8, <3>9
            DEF ExecutionStep
  <2>7. CASE UNCHANGED vars
    BY <2>7 DEF vars, TypeOK
  <2> QED BY <2>1, <2>2, <2>3, <2>4, <2>5, <2>6, <2>7 DEF Next
<1> QED BY <1>1, <1>2, PTL DEF Spec

-----------------------------------------------------------------------------
(* Steps that leave the grants alone.                                      *)

(* Setting a state other than APPROVED approves nothing. *)
LEMMA NotApproving ==
    ASSUME TypeOK, NEW x, NEW s, s # "APPROVED", SetAction(x, s)
    PROVE  \A a \in Actions : action'[a].state = "APPROVED" => action[a].state = "APPROVED"
  BY DEF SetAction, TypeOK

(* A thread moves to a step whose demands its action already meets. *)
LEMMA MoveKeepsDiscipline ==
    ASSUME TypeOK, GrantDiscipline, NEW r \in Threads, NEW s \in Steps, Goto(r, s),
           UNCHANGED <<grant, dispatched, active, act>>,
           \A a \in Actions : action'[a].state = "APPROVED" => action[a].state = "APPROVED",
           s \in FlightSteps => InFlight(r),
           s \in FlightSteps \/ s \in {"approve", "claim", "deny"} => act[r] \in Actions,
           s \in FreshSteps => grant[act[r]] = "FRESH",
           s \in PipelineSteps => grant[act[r]] = "CONSUMED",
           s \in BeforeClick => dispatched[act[r]] = 0
    PROVE  GrantDiscipline'
<1>1. pc' = [pc EXCEPT ![r] = s]
  BY DEF Goto
<1>2. \A q \in Threads : pc'[q] = IF q = r THEN s ELSE pc[q]
  BY <1>1 DEF TypeOK
<1>3. \A q \in Threads : InFlight(q)' => InFlight(q)
  BY <1>2 DEF InFlight
<1>4. SingleFlight'
  BY <1>3 DEF SingleFlight, GrantDiscipline
<1>5. ApprovedIsFresh' /\ DispatchSpendsGrant' /\ AtMostOneDispatch'
  BY DEF ApprovedIsFresh, DispatchSpendsGrant, AtMostOneDispatch, GrantDiscipline
<1>6. \A q \in Threads : HandlesAction(q)' => act'[q] \in Actions
  BY <1>2 DEF HandlesAction, InFlight, GrantDiscipline
<1>7. /\ \A q \in Threads : pc'[q] \in FreshSteps => grant'[act'[q]] = "FRESH"
      /\ \A q \in Threads : pc'[q] \in PipelineSteps => grant'[act'[q]] = "CONSUMED"
      /\ \A q \in Threads : pc'[q] \in BeforeClick => dispatched'[act'[q]] = 0
  BY <1>2 DEF GrantDiscipline
<1> QED BY <1>4, <1>5, <1>6, <1>7 DEF GrantDiscipline

(* A thread returns, and gives up the flight entry if it has one. *)
LEMMA ReturnKeepsDiscipline ==
    ASSUME TypeOK, GrantDiscipline, NEW r \in Threads, Return(r),
           UNCHANGED <<grant, dispatched>>,
           \A a \in Actions : action'[a].state = "APPROVED" => action[a].state = "APPROVED",
           active' = active \/ (InFlight(r) /\ active' = active \ {act[r]})
    PROVE  GrantDiscipline'
<1>1. "idle" \notin FlightSteps /\ "idle" \notin {"approve", "claim", "deny"}
  BY DEF FlightSteps, EntrySteps, PipelineSteps
<1>2. FreshSteps \cup PipelineSteps \cup BeforeClick \subseteq FlightSteps
  BY DEF FlightSteps, FreshSteps, BeforeClick, EntrySteps, PipelineSteps
<1>3. \A q \in Threads : /\ pc'[q] = IF q = r THEN "idle" ELSE pc[q]
                         /\ q # r => act'[q] = act[q]
  BY DEF Return, Goto, TypeOK
<1>4. \A q \in Threads : InFlight(q)' => InFlight(q) /\ q # r
  BY <1>1, <1>3 DEF InFlight
<1>5. SingleFlight'
  BY <1>3, <1>4 DEF SingleFlight, GrantDiscipline
<1>6. ApprovedIsFresh' /\ DispatchSpendsGrant' /\ AtMostOneDispatch'
  BY DEF ApprovedIsFresh, DispatchSpendsGrant, AtMostOneDispatch, GrantDiscipline
<1>7. \A q \in Threads : HandlesAction(q)' => act'[q] \in Actions
  BY <1>1, <1>3 DEF HandlesAction, InFlight, GrantDiscipline
<1>8. /\ \A q \in Threads : pc'[q] \in FreshSteps => grant'[act'[q]] = "FRESH"
      /\ \A q \in Threads : pc'[q] \in PipelineSteps => grant'[act'[q]] = "CONSUMED"
      /\ \A q \in Threads : pc'[q] \in BeforeClick => dispatched'[act'[q]] = 0
  BY <1>1, <1>2, <1>3 DEF GrantDiscipline
<1> QED BY <1>5, <1>6, <1>7, <1>8 DEF GrantDiscipline

(* Nothing the discipline speaks of changes. *)
LEMMA FrameKeepsDiscipline ==
    ASSUME GrantDiscipline, UNCHANGED <<action, grant, dispatched, active, pc, act>>
    PROVE  GrantDiscipline'
  BY DEF GrantDiscipline, HandlesAction, InFlight, SingleFlight, ApprovedIsFresh,
         DispatchSpendsGrant, AtMostOneDispatch

-----------------------------------------------------------------------------
(* Steps that issue, spend or use a grant, or enter the flight.            *)

(* The transaction of approve_action: no grant existed, so no thread in the *)
(* flight depends on it and nothing was dispatched.                         *)
LEMMA ApproveKeepsDiscipline ==
    ASSUME TypeOK, GrantDiscipline, NEW r \in Threads, ApproveCommit(r)
    PROVE  GrantDiscipline'
<1> DEFINE a == act[r]
<1>1. a \in Actions
  BY DEF ApproveCommit, GrantDiscipline, HandlesAction
<1>2. /\ grant[a] = "ABSENT"
      /\ grant' = [grant EXCEPT ![a] = "FRESH"]
      /\ pc' = [pc EXCEPT ![r] = "claim"]
      /\ UNCHANGED <<dispatched, active, act>>
  BY DEF ApproveCommit, Goto, locals
<1>3. "claim" \notin FlightSteps
  BY DEF FlightSteps, EntrySteps, PipelineSteps
<1>4. FreshSteps \cup PipelineSteps \cup BeforeClick \subseteq FlightSteps
  BY DEF FlightSteps, FreshSteps, BeforeClick, EntrySteps, PipelineSteps
<1>5. \A q \in Threads : pc'[q] = IF q = r THEN "claim" ELSE pc[q]
  BY <1>2 DEF TypeOK
<1>6. \A b \in Actions : grant'[b] = IF b = a THEN "FRESH" ELSE grant[b]
  BY <1>2 DEF TypeOK
<1>7. \A b \in Actions : action'[b].state = "APPROVED" => b = a \/ action[b].state = "APPROVED"
  BY DEF ApproveCommit, SetAction, TypeOK
<1>8. SingleFlight'
  BY <1>2, <1>3, <1>5 DEF InFlight, SingleFlight, GrantDiscipline
<1>9. \A q \in Threads : HandlesAction(q)' => act'[q] \in Actions
  BY <1>1, <1>2, <1>5 DEF HandlesAction, InFlight, GrantDiscipline
<1>10. /\ \A q \in Threads : pc'[q] \in FreshSteps => grant'[act'[q]] = "FRESH"
       /\ \A q \in Threads : pc'[q] \in PipelineSteps => grant'[act'[q]] = "CONSUMED"
       /\ \A q \in Threads : pc'[q] \in BeforeClick => dispatched'[act'[q]] = 0
  BY <1>2, <1>3, <1>4, <1>5, <1>6, <1>9 DEF GrantDiscipline, HandlesAction, InFlight
<1>11. ApprovedIsFresh'
  BY <1>6, <1>7 DEF ApprovedIsFresh, GrantDiscipline
<1>12. DispatchSpendsGrant' /\ AtMostOneDispatch'
  BY <1>2, <1>6 DEF DispatchSpendsGrant, AtMostOneDispatch, GrantDiscipline
<1> QED BY <1>8, <1>9, <1>10, <1>11, <1>12 DEF GrantDiscipline

(* Entering ACTIVE_EXECUTIONS: the entry was free, so no other thread is in *)
(* the flight of this action.                                               *)
LEMMA ClaimKeepsDiscipline ==
    ASSUME TypeOK, GrantDiscipline, NEW r \in Threads, Claim(r)
    PROVE  GrantDiscipline'
<1>1. /\ act[r] \notin active
      /\ active' = active \cup {act[r]}
      /\ pc' = [pc EXCEPT ![r] = "load"]
      /\ UNCHANGED <<action, grant, dispatched, act>>
      /\ act[r] \in Actions
  BY DEF Claim, Goto, locals, tables, GrantDiscipline, HandlesAction
<1>2. \A q \in Threads : pc'[q] = IF q = r THEN "load" ELSE pc[q]
  BY <1>1 DEF TypeOK
<1>3. \A q \in Threads : InFlight(q)' => q = r \/ InFlight(q)
  BY <1>2 DEF InFlight
<1>4. SingleFlight'
  BY <1>1, <1>3 DEF SingleFlight, GrantDiscipline
<1>5. \A q \in Threads : HandlesAction(q)' => act'[q] \in Actions
  BY <1>1, <1>2 DEF HandlesAction, InFlight, GrantDiscipline
<1>6. "load" \notin FreshSteps \cup PipelineSteps \cup BeforeClick
  BY DEF FreshSteps, BeforeClick, EntrySteps, PipelineSteps
<1>7. /\ \A q \in Threads : pc'[q] \in FreshSteps => grant'[act'[q]] = "FRESH"
      /\ \A q \in Threads : pc'[q] \in PipelineSteps => grant'[act'[q]] = "CONSUMED"
      /\ \A q \in Threads : pc'[q] \in BeforeClick => dispatched'[act'[q]] = 0
  BY <1>1, <1>2, <1>6 DEF GrantDiscipline
<1>8. ApprovedIsFresh' /\ DispatchSpendsGrant' /\ AtMostOneDispatch'
  BY <1>1 DEF ApprovedIsFresh, DispatchSpendsGrant, AtMostOneDispatch, GrantDiscipline
<1> QED BY <1>4, <1>5, <1>7, <1>8 DEF GrantDiscipline

(* Spending the grant: only this thread is in the flight of the action. *)
LEMMA SpendKeepsDiscipline ==
    ASSUME TypeOK, GrantDiscipline, NEW r \in Threads, Recover(r) \/ Consume(r)
    PROVE  GrantDiscipline'
<1> DEFINE a == act[r]
           s == IF Recover(r) THEN "release" ELSE "verify"
<1>1. pc[r] \in {"recover", "consume"}
  BY DEF Recover, Consume
<1>2. InFlight(r) /\ pc[r] \in FreshSteps
  BY <1>1 DEF InFlight, FlightSteps, EntrySteps, FreshSteps
<1>3. a \in Actions /\ grant[a] = "FRESH" /\ dispatched[a] = 0
  BY <1>2 DEF GrantDiscipline, HandlesAction, DispatchSpendsGrant, TypeOK
<1>4. /\ grant' = [grant EXCEPT ![a] = "CONSUMED"]
      /\ pc' = [pc EXCEPT ![r] = s]
      /\ UNCHANGED <<dispatched, active, act>>
  BY DEF Recover, Consume, Goto, locals
<1>5. s \in FlightSteps /\ s \notin FreshSteps
  BY DEF FlightSteps, EntrySteps, PipelineSteps, FreshSteps
<1>6. \A q \in Threads : pc'[q] = IF q = r THEN s ELSE pc[q]
  BY <1>4 DEF TypeOK
<1>7. \A b \in Actions : grant'[b] = IF b = a THEN "CONSUMED" ELSE grant[b]
  BY <1>4 DEF TypeOK
<1>8. \A q \in Threads : InFlight(q)' => InFlight(q)
  BY <1>2, <1>6 DEF InFlight
<1>9. SingleFlight'
  BY <1>4, <1>8 DEF SingleFlight, GrantDiscipline
<1>10. \A q \in Threads : HandlesAction(q)' => act'[q] \in Actions
  BY <1>3, <1>4, <1>6 DEF HandlesAction, InFlight, GrantDiscipline
<1>11. FreshSteps \cup PipelineSteps \cup BeforeClick \subseteq FlightSteps
  BY DEF FlightSteps, FreshSteps, BeforeClick, EntrySteps, PipelineSteps
<1>12. \A q \in Threads : q # r /\ InFlight(q) => act[q] # a
  BY <1>2 DEF GrantDiscipline, SingleFlight
<1>13. /\ \A q \in Threads : pc'[q] \in FreshSteps => grant'[act'[q]] = "FRESH"
       /\ \A q \in Threads : pc'[q] \in PipelineSteps => grant'[act'[q]] = "CONSUMED"
       /\ \A q \in Threads : pc'[q] \in BeforeClick => dispatched'[act'[q]] = 0
  <2> SUFFICES ASSUME NEW q \in Threads
               PROVE  /\ pc'[q] \in FreshSteps => grant'[act'[q]] = "FRESH"
                      /\ pc'[q] \in PipelineSteps => grant'[act'[q]] = "CONSUMED"
                      /\ pc'[q] \in BeforeClick => dispatched'[act'[q]] = 0
    OBVIOUS
  <2>1. CASE q = r
    BY <2>1, <1>3, <1>4, <1>5, <1>6, <1>7
  <2>2. CASE q # r /\ InFlight(q)
    <3>1. act[q] \in Actions /\ act[q] # a
      BY <2>2, <1>12 DEF GrantDiscipline, HandlesAction
    <3> QED BY <2>2, <3>1, <1>4, <1>6, <1>7 DEF GrantDiscipline
  <2>3. CASE q # r /\ ~InFlight(q)
    BY <2>3, <1>6, <1>11 DEF InFlight
  <2> QED BY <2>1, <2>2, <2>3
<1>14. \A b \in Actions : action'[b].state = "APPROVED" => b # a /\ action[b].state = "APPROVED"
  BY <1>3 DEF Recover, Consume, SetAction, TypeOK
<1>15. ApprovedIsFresh'
  BY <1>7, <1>14 DEF ApprovedIsFresh, GrantDiscipline
<1>16. DispatchSpendsGrant' /\ AtMostOneDispatch'
  BY <1>4, <1>7 DEF DispatchSpendsGrant, AtMostOneDispatch, GrantDiscipline
<1> HIDE DEF s
<1> QED BY <1>9, <1>10, <1>13, <1>15, <1>16 DEF GrantDiscipline

(* The click: the grant is spent and nothing was dispatched before. *)
LEMMA ClickKeepsDiscipline ==
    ASSUME TypeOK, GrantDiscipline, NEW r \in Threads, Click(r), ClickBridge
    PROVE  GrantDiscipline'
<1> DEFINE a == act[r]
<1>1. pc[r] = "click" /\ UNCHANGED <<action, grant, active, act>>
  BY DEF Click, tables
<1>2. pc[r] \in PipelineSteps /\ pc[r] \in BeforeClick /\ InFlight(r)
  BY <1>1 DEF PipelineSteps, BeforeClick, InFlight, FlightSteps
<1>3. a \in Actions /\ grant[a] = "CONSUMED" /\ dispatched[a] = 0
  BY <1>2 DEF GrantDiscipline, HandlesAction
<1>4. dispatched' = [dispatched EXCEPT ![a] = 1]
  BY <1>3 DEF Click
<1>5. PICK s \in {"confirm", "finish"} : pc' = [pc EXCEPT ![r] = s]
  BY DEF Click, Goto, Finish
<1>6. s \in PipelineSteps /\ s \in FlightSteps /\ s \notin FreshSteps \cup BeforeClick
  BY <1>5 DEF PipelineSteps, FlightSteps, FreshSteps, EntrySteps, BeforeClick
<1>7. \A q \in Threads : pc'[q] = IF q = r THEN s ELSE pc[q]
  BY <1>5 DEF TypeOK
<1>8. \A b \in Actions : dispatched'[b] = IF b = a THEN 1 ELSE dispatched[b]
  BY <1>4 DEF TypeOK
<1>9. SingleFlight' /\ ApprovedIsFresh'
  BY <1>1, <1>2, <1>7 DEF GrantDiscipline, SingleFlight, ApprovedIsFresh, InFlight
<1>10. \A q \in Threads : HandlesAction(q)' => act'[q] \in Actions
  BY <1>1, <1>2, <1>7 DEF HandlesAction, InFlight, GrantDiscipline
<1>11. BeforeClick \subseteq FlightSteps
  BY DEF FlightSteps, BeforeClick, EntrySteps, PipelineSteps
<1>12. \A q \in Threads : pc'[q] \in BeforeClick => dispatched'[act'[q]] = 0
  <2> SUFFICES ASSUME NEW q \in Threads, pc'[q] \in BeforeClick
               PROVE  dispatched'[act'[q]] = 0
    OBVIOUS
  <2>1. q # r /\ pc[q] \in BeforeClick /\ InFlight(q)
    BY <1>6, <1>7, <1>11 DEF InFlight
  <2>2. act[q] \in Actions /\ act[q] # a /\ dispatched[act[q]] = 0
    BY <2>1, <1>2 DEF GrantDiscipline, SingleFlight, HandlesAction
  <2> QED BY <2>2, <1>1, <1>8
<1>13. /\ \A q \in Threads : pc'[q] \in FreshSteps => grant'[act'[q]] = "FRESH"
       /\ \A q \in Threads : pc'[q] \in PipelineSteps => grant'[act'[q]] = "CONSUMED"
  BY <1>1, <1>3, <1>6, <1>7 DEF GrantDiscipline
<1>14. DispatchSpendsGrant' /\ AtMostOneDispatch'
  BY <1>1, <1>3, <1>8 DEF DispatchSpendsGrant, AtMostOneDispatch, GrantDiscipline
<1> QED BY <1>9, <1>10, <1>12, <1>13, <1>14 DEF GrantDiscipline

-----------------------------------------------------------------------------
(* The discipline holds initially and after every step.                    *)

(* A request handler before the execution keeps the discipline. *)
LEMMA RequestKeepsDiscipline ==
    ASSUME TypeOK, GrantDiscipline, NEW r \in Threads, RequestStep(r)
    PROVE  GrantDiscipline'
<1> USE DEF tables, locals
<1>1. CASE DropPlan(r) \/ DedupeHit(r) \/ NoIdentifierLeft(r) \/ ApproveRollback(r)
  BY <1>1, ReturnKeepsDiscipline
     DEF DropPlan, DedupeHit, NoIdentifierLeft, ApproveRollback
<1>2. CASE DedupeMiss(r)
  <2>1. "create" \notin FlightSteps \cup FreshSteps \cup PipelineSteps \cup BeforeClick
    BY DEF FlightSteps, FreshSteps, BeforeClick, EntrySteps, PipelineSteps
  <2> QED BY <1>2, <2>1, StepNames, MoveKeepsDiscipline DEF DedupeMiss
<1>3. CASE CreateAction(r)
  <2>1. \A a \in Actions : action'[a].state = "APPROVED" => action[a].state = "APPROVED"
    BY <1>3 DEF CreateAction, TypeOK
  <2> QED BY <1>3, <2>1, ReturnKeepsDiscipline DEF CreateAction
<1>4. CASE ApproveCommit(r)
  BY <1>4, ApproveKeepsDiscipline
<1>5. CASE DenyCommit(r)
  BY <1>5, NotApproving, ReturnKeepsDiscipline DEF DenyCommit
<1> QED BY <1>1, <1>2, <1>3, <1>4, <1>5 DEF RequestStep

(* A step of an execution keeps the discipline. *)
LEMMA ExecutionKeepsDiscipline ==
    ASSUME TypeOK, GrantDiscipline, NEW r \in Threads, ExecutionStep(r)
    PROVE  GrantDiscipline'
<1> USE DEF tables, locals
<1>a. \A step \in FlightSteps : pc[r] = step => InFlight(r) /\ act[r] \in Actions
  BY DEF InFlight, HandlesAction, GrantDiscipline
<1>b. \A step \in FreshSteps : pc[r] = step => grant[act[r]] = "FRESH"
  BY DEF GrantDiscipline
<1>c. \A step \in PipelineSteps : pc[r] = step => grant[act[r]] = "CONSUMED"
  BY DEF GrantDiscipline
<1>d. \A step \in BeforeClick : pc[r] = step => dispatched[act[r]] = 0
  BY DEF GrantDiscipline
<1>e. /\ {"expire", "grant", "inspect", "consume", "recover"} = FreshSteps
      /\ {"verify", "precheck", "click"} = BeforeClick
      /\ {"verify", "precheck", "click", "confirm", "evidence", "submitted", "finish"}
            = PipelineSteps
      /\ FreshSteps \cup PipelineSteps \cup {"load", "release"} = FlightSteps
  BY DEF FreshSteps, EntrySteps, BeforeClick, PipelineSteps, FlightSteps
<1>1. CASE Claim(r)
  BY <1>1, ClaimKeepsDiscipline
<1>2. CASE ClaimRefused(r)
  BY <1>2, ReturnKeepsDiscipline DEF ClaimRefused
<1>3. CASE Load(r)
  <2>1. InFlight(r) /\ act[r] \in Actions
    BY <1>3, <1>a, <1>e DEF Load
  <2>2. CASE action[act[r]].state # "APPROVED"
    BY <1>3, <2>1, <2>2, <1>e, StepNames, MoveKeepsDiscipline DEF Load
  <2>3. CASE action[act[r]].state = "APPROVED"
    <3>1. grant[act[r]] = "FRESH"
      BY <2>1, <2>3 DEF GrantDiscipline, ApprovedIsFresh
    <3> QED BY <1>3, <2>1, <2>3, <3>1, <1>e, StepNames, MoveKeepsDiscipline DEF Load
  <2> QED BY <2>2, <2>3
<1>4. CASE ExpireAction(r)
  BY <1>4, <1>a, <1>e, StepNames, NotApproving, MoveKeepsDiscipline
     DEF ExpireAction, Invalidate
<1>5. CASE ReadGrant(r)
  BY <1>5, <1>a, <1>e, StepNames, MoveKeepsDiscipline DEF ReadGrant
<1>6. CASE Inspect(r)
  BY <1>6, <1>a, <1>b, <1>e, StepNames, MoveKeepsDiscipline DEF Inspect
<1>7. CASE Recover(r) \/ Consume(r)
  BY <1>7, SpendKeepsDiscipline
<1>8. CASE VerifyFiles(r)
  BY <1>8, <1>a, <1>c, <1>d, <1>e, StepNames, MoveKeepsDiscipline DEF VerifyFiles
<1>9. CASE RejectFiles(r)
  BY <1>9, <1>a, <1>c, <1>e, StepNames, NotApproving, MoveKeepsDiscipline
     DEF RejectFiles, Invalidate, Finish
<1>10. CASE Precheck(r)
  BY <1>10, <1>a, <1>c, <1>d, <1>e, StepNames, MoveKeepsDiscipline DEF Precheck, Finish
<1>11. CASE Click(r)
  <2>1. CASE ClickBridge
    BY <1>11, <2>1, ClickKeepsDiscipline
  <2>2. CASE ~ClickBridge
    BY <1>11, <2>2, <1>a, <1>c, <1>e, StepNames, MoveKeepsDiscipline DEF Click
  <2> QED BY <2>1, <2>2
<1>12. CASE Confirm(r)
  BY <1>12, <1>a, <1>c, <1>e, StepNames, MoveKeepsDiscipline DEF Confirm, Finish
<1>13. CASE Evidence(r)
  BY <1>13, <1>a, <1>c, <1>e, StepNames, MoveKeepsDiscipline DEF Evidence, Finish
<1>14. CASE MarkSubmitted(r)
  BY <1>14, <1>a, <1>c, <1>e, StepNames, MoveKeepsDiscipline DEF MarkSubmitted, Finish
<1>15. CASE PersistOutcome(r)
  <2>1. FinalState(act[r], result[r]) # "APPROVED"
    BY FinalStateType
  <2> QED BY <1>15, <2>1, <1>a, <1>e, StepNames, NotApproving, MoveKeepsDiscipline
          DEF PersistOutcome
<1>16. CASE Release(r)
  BY <1>16, <1>a, <1>e, ReturnKeepsDiscipline DEF Release
<1> QED BY <1>1, <1>2, <1>3, <1>4, <1>5, <1>6, <1>7, <1>8, <1>9, <1>10, <1>11, <1>12, <1>13,
           <1>14, <1>15, <1>16 DEF ExecutionStep

(* Every grant is carried from its issue to its only use as GrantDiscipline *)
(* says, in every interleaving of requests and restarts.                    *)
THEOREM GrantsDisciplined == Spec => []GrantDiscipline
<1>1. Init => GrantDiscipline
  <2> SUFFICES ASSUME Init PROVE GrantDiscipline
    OBVIOUS
  <2>1. \A r \in Threads : pc[r] = "idle"
    BY DEF Init
  <2>2. "idle" \notin FlightSteps \cup FreshSteps \cup PipelineSteps \cup BeforeClick
    BY DEF FlightSteps, FreshSteps, BeforeClick, EntrySteps, PipelineSteps
  <2>3. ApprovedIsFresh /\ DispatchSpendsGrant /\ AtMostOneDispatch
    BY DEF Init, ApprovedIsFresh, DispatchSpendsGrant, AtMostOneDispatch
  <2> QED BY <2>1, <2>2, <2>3 DEF GrantDiscipline, HandlesAction, InFlight, SingleFlight
<1>2. TypeOK /\ GrantDiscipline /\ [Next]_vars => GrantDiscipline'
  <2> SUFFICES ASSUME TypeOK, GrantDiscipline, [Next]_vars PROVE GrantDiscipline'
    OBVIOUS
  <2>1. CASE Tick \/ EditVault \/ UNCHANGED vars
    BY <2>1, FrameKeepsDiscipline DEF Tick, EditVault, vars, tables, locals
  <2>2. CASE Crash
    <3>1. \A r \in Threads : pc'[r] = "idle"
      BY <2>2 DEF Crash
    <3>2. "idle" \notin FlightSteps \cup FreshSteps \cup PipelineSteps \cup BeforeClick
      BY DEF FlightSteps, FreshSteps, BeforeClick, EntrySteps, PipelineSteps
    <3>3. UNCHANGED <<action, grant, dispatched>>
      BY <2>2 DEF Crash, tables
    <3> QED BY <3>1, <3>2, <3>3 DEF GrantDiscipline, HandlesAction, InFlight, SingleFlight,
               ApprovedIsFresh, DispatchSpendsGrant, AtMostOneDispatch
  <2>3. ASSUME NEW r \in Threads, NewRequest(r) PROVE GrantDiscipline'
    <3>1. ASSUME NEW p \in Plans, PreparePlan(r, p) PROVE GrantDiscipline'
      BY <3>1, FrameKeepsDiscipline DEF PreparePlan, locals
    <3>2. ASSUME NEW p \in Plans, SubmitAssignment(r, p) PROVE GrantDiscipline'
      <4>1. {"dedupe", "dropPlan"} \cap
            (FlightSteps \cup FreshSteps \cup PipelineSteps \cup BeforeClick) = {}
        BY DEF FlightSteps, FreshSteps, BeforeClick, EntrySteps, PipelineSteps
      <4> QED BY <3>2, <4>1, StepNames, MoveKeepsDiscipline DEF SubmitAssignment, tables
    <3>3. ASSUME NEW a \in Actions, ApproveRead(r, a) \/ DenyRead(r, a)
          PROVE  GrantDiscipline'
      <4>1. PICK s \in {"approve", "claim", "deny"} : pc' = [pc EXCEPT ![r] = s]
        BY <3>3 DEF ApproveRead, DenyRead, Goto
      <4>2. {"approve", "claim", "deny"} \cap
            (FlightSteps \cup FreshSteps \cup PipelineSteps \cup BeforeClick) = {}
        BY DEF FlightSteps, FreshSteps, BeforeClick, EntrySteps, PipelineSteps
      <4>3. UNCHANGED <<action, grant, dispatched, active>>
        BY <3>3 DEF ApproveRead, DenyRead, tables
      <4>4. \A q \in Threads : /\ pc'[q] = IF q = r THEN s ELSE pc[q]
                               /\ act'[q] = IF q = r THEN a ELSE act[q]
        BY <3>3, <4>1 DEF ApproveRead, DenyRead, TypeOK
      <4>5. \A q \in Threads : InFlight(q)' => InFlight(q) /\ q # r
        BY <4>2, <4>4 DEF InFlight
      <4>6. SingleFlight'
        BY <4>3, <4>4, <4>5 DEF SingleFlight, GrantDiscipline
      <4>7. \A q \in Threads : HandlesAction(q)' => act'[q] \in Actions
        BY <4>4 DEF HandlesAction, InFlight, GrantDiscipline
      <4>8. /\ \A q \in Threads : pc'[q] \in FreshSteps => grant'[act'[q]] = "FRESH"
            /\ \A q \in Threads : pc'[q] \in PipelineSteps => grant'[act'[q]] = "CONSUMED"
            /\ \A q \in Threads : pc'[q] \in BeforeClick => dispatched'[act'[q]] = 0
        BY <4>2, <4>3, <4>4 DEF GrantDiscipline
      <4>9. ApprovedIsFresh' /\ DispatchSpendsGrant' /\ AtMostOneDispatch'
        BY <4>3 DEF ApprovedIsFresh, DispatchSpendsGrant, AtMostOneDispatch, GrantDiscipline
      <4> QED BY <4>6, <4>7, <4>8, <4>9 DEF GrantDiscipline
    <3> QED BY <2>3, <3>1, <3>2, <3>3 DEF NewRequest
  <2>4. ASSUME NEW r \in Threads, RequestStep(r) \/ ExecutionStep(r) PROVE GrantDiscipline'
    BY <2>4, RequestKeepsDiscipline, ExecutionKeepsDiscipline
  <2> QED BY <2>1, <2>2, <2>3, <2>4 DEF Next
<1> QED BY <1>1, <1>2, TypeCorrect, PTL DEF Spec

(* The final submit is clicked at most once per action, for any number of   *)
(* approvals, retries and restarts.                                         *)
THEOREM SubmitsAtMostOnce == Spec => []AtMostOneDispatch
<1>1. GrantDiscipline => AtMostOneDispatch
  BY DEF GrantDiscipline
<1> QED BY <1>1, GrantsDisciplined, PTL

(* Two threads never execute the same action at the same time. *)
THEOREM ExecutesOneAtATime == Spec => []SingleFlight
<1>1. GrantDiscipline => SingleFlight
  BY DEF GrantDiscipline
<1> QED BY <1>1, GrantsDisciplined, PTL

-----------------------------------------------------------------------------
(* What the tables say of an action's outcome.                             *)

PlanSteps  == {"dropPlan", "dedupe", "create"}
Submitting == PipelineSteps \ {"finish"}

(* A thread has seen the submission of its action on Moodle. *)
Saw(r) == pc[r] \in {"recover", "submitted"} \/ (pc[r] = "finish" /\ result[r] = "verified")

(* The tables agree on which actions exist, and a grant was issued for a    *)
(* request that does not wait any more.                                     *)
TablesAgree ==
    \A a \in Actions :
        /\ Absent(a) <=> approval[a] = "ABSENT"
        /\ ~Absent(a) => action[a].plan \in Plans
        /\ grant[a] # "ABSENT" => approval[a] \notin {"ABSENT", "PENDING"}

(* The action and the plan a thread works on exist, and whoever executes has *)
(* a grant, fresh or spent.                                                  *)
ThreadsKnow ==
    \A r \in Threads :
        /\ HandlesAction(r) => approval[act[r]] # "ABSENT"
        /\ InFlight(r) \/ pc[r] = "claim" => grant[act[r]] # "ABSENT"
        /\ pc[r] \in PlanSteps => req[r] \in Plans

SawSubmitted == \A r \in Threads : Saw(r) => remote[Target(act[r])] = "submitted"

(* Whoever goes on to submit has an action that is not invalidated. *)
NotDropped == \A r \in Threads : pc[r] \in Submitting => action[act[r]].state # "INVALIDATED"

Tables  == TablesAgree /\ PendingTogether /\ SuccessIsProven /\ InvalidatedSubmitsNothing
Pursuit == ThreadsKnow /\ SawSubmitted /\ NotDropped

(* The steps a thread may be at, by what it has to know there. *)
LEMMA StepSets ==
    /\ FlightSteps = {"load", "expire", "grant", "inspect", "consume", "recover", "verify",
                      "precheck", "click", "confirm", "evidence", "submitted", "finish", "release"}
    /\ Submitting = {"verify", "precheck", "click", "confirm", "evidence", "submitted"}
    /\ PlanSteps = {"dropPlan", "dedupe", "create"}
    /\ Steps = FlightSteps \cup PlanSteps \cup {"idle", "approve", "claim", "deny"}
  BY DEF FlightSteps, EntrySteps, PipelineSteps, Submitting, PlanSteps, Steps

(* Records are never taken away: an action stays with its plan and its grant, *)
(* and Moodle with what was submitted.                                        *)
Grows ==
    /\ \A a \in Actions : approval[a] # "ABSENT" =>
           approval'[a] # "ABSENT" /\ action'[a].plan = action[a].plan
    /\ \A a \in Actions : grant[a] # "ABSENT" => grant'[a] # "ABSENT"
    /\ \A t \in Targets : remote[t] = "submitted" => remote'[t] = "submitted"

(* A thread moves on, the others stay where they are, and an action is      *)
(* invalidated by the thread in its flight only.                            *)
LEMMA PursuitGoesOn ==
    ASSUME TypeOK, GrantDiscipline, TablesAgree, Pursuit, Grows,
           NEW r \in Threads, NEW s \in Steps,
           \A q \in Threads : pc'[q] = IF q = r THEN s ELSE pc[q],
           \A q \in Threads : q # r => /\ act'[q] = act[q] /\ req'[q] = req[q]
                                       /\ result'[q] = result[q],
           \A a \in Actions : action'[a].state = "INVALIDATED" =>
               action[a].state = "INVALIDATED" \/ (InFlight(r) /\ act[r] = a),
           s \in FlightSteps \cup {"approve", "claim", "deny"} => approval'[act'[r]] # "ABSENT",
           s \in FlightSteps \cup {"claim"} => grant'[act'[r]] # "ABSENT",
           s \in PlanSteps => req'[r] \in Plans,
           Saw(r)' => remote'[Target(act[r])'] = "submitted",
           s \in Submitting => action'[act'[r]].state # "INVALIDATED"
    PROVE  Pursuit'
<1>1. ASSUME NEW q \in Threads, q # r, HandlesAction(q)
      PROVE  act[q] \in Actions /\ approval[act[q]] # "ABSENT" /\ approval'[act[q]] # "ABSENT"
  BY <1>1 DEF GrantDiscipline, Pursuit, ThreadsKnow, Grows
<1>2. ThreadsKnow'
  BY <1>1 DEF ThreadsKnow, HandlesAction, InFlight, Pursuit, Grows, GrantDiscipline
<1>3. SawSubmitted'
  <2> SUFFICES ASSUME NEW q \in Threads, q # r, Saw(q)'
               PROVE  remote'[Target(act[q])'] = "submitted"
    BY DEF SawSubmitted
  <2>1. Saw(q) /\ HandlesAction(q)
    BY StepSets DEF Saw, HandlesAction, InFlight
  <2>2. /\ action'[act[q]].plan = action[act[q]].plan
        /\ action[act[q]].plan \in Plans
        /\ remote[Target(act[q])] = "submitted"
    BY <2>1, <1>1 DEF Grows, Pursuit, SawSubmitted, TablesAgree
  <2> QED BY <2>2, ConstantsAssumption DEF Target, Grows
<1>4. NotDropped'
  <2> SUFFICES ASSUME NEW q \in Threads, q # r, pc'[q] \in Submitting
               PROVE  action'[act'[q]].state # "INVALIDATED"
    BY DEF NotDropped
  <2>1. pc[q] \in Submitting /\ InFlight(q) /\ act'[q] = act[q] /\ act[q] \in Actions
    BY StepSets DEF InFlight, GrantDiscipline, HandlesAction
  <2>2. action[act[q]].state # "INVALIDATED" /\ ~(InFlight(r) /\ act[r] = act[q])
    BY <2>1 DEF Pursuit, NotDropped, GrantDiscipline, SingleFlight
  <2> QED BY <2>1, <2>2
<1> QED BY <1>2, <1>3, <1>4 DEF Pursuit

(* No row is written. *)
LEMMA TablesStay ==
    ASSUME TypeOK, Tables, UNCHANGED <<tables, dispatched>>,
           \A t \in Targets : remote[t] = "submitted" => remote'[t] = "submitted"
    PROVE  Tables' /\ Grows
<1> USE DEF tables
<1>1. TablesAgree' /\ PendingTogether' /\ InvalidatedSubmitsNothing' /\ Grows
  BY DEF Tables, TablesAgree, PendingTogether, InvalidatedSubmitsNothing, Absent, Grows
<1>2. SuccessIsProven'
  <2>1. ASSUME NEW a \in Actions, action[a].state = "SUCCEEDED" PROVE Target(a) \in Targets
    BY <2>1, ConstantsAssumption DEF Tables, TablesAgree, Absent, Target
  <2>2. \A p \in Plans : TargetOf[p] \in Targets
    BY ConstantsAssumption
  <2> QED BY <2>1, <2>2 DEF Tables, SuccessIsProven, Target
<1> QED BY <1>1, <1>2 DEF Tables

(* A thread moves on and writes no row. *)
LEMMA MoveKeepsOutcome ==
    ASSUME TypeOK, GrantDiscipline, Tables, Pursuit,
           NEW r \in Threads, NEW s \in Steps, Goto(r, s),
           UNCHANGED <<tables, dispatched, act>>,
           \A q \in Threads : q # r => req'[q] = req[q] /\ result'[q] = result[q],
           \A t \in Targets : remote[t] = "submitted" => remote'[t] = "submitted",
           s \in FlightSteps => InFlight(r),
           s \notin {"approve", "claim", "deny"},
           s \in PlanSteps => req'[r] \in Plans,
           Saw(r)' => remote[Target(act[r])] = "submitted",
           s \in Submitting => action[act[r]].state # "INVALIDATED"
    PROVE  Tables' /\ Grows /\ Pursuit'
<1>1. Tables' /\ Grows
  BY TablesStay
<1>2. \A q \in Threads : pc'[q] = IF q = r THEN s ELSE pc[q]
  BY DEF Goto, TypeOK
<1>3. InFlight(r) => /\ act[r] \in Actions /\ approval[act[r]] # "ABSENT"
                     /\ grant[act[r]] # "ABSENT" /\ Target(act[r]) \in Targets
  BY ConstantsAssumption
     DEF Pursuit, ThreadsKnow, HandlesAction, GrantDiscipline, Tables, TablesAgree, Target
<1>4. Saw(r)' => s \in FlightSteps
  BY <1>2, StepSets DEF Saw
<1>5. Saw(r)' => remote'[Target(act[r])'] = "submitted"
  BY <1>3, <1>4 DEF Target, tables
<1>6. Pursuit'
  BY <1>1, <1>2, <1>3, <1>5, StepSets, PursuitGoesOn DEF tables, Tables
<1> QED BY <1>1, <1>6

(* A thread returns and writes no row of an action. *)
LEMMA ReturnKeepsPursuit ==
    ASSUME TypeOK, GrantDiscipline, TablesAgree, Pursuit, Grows, NEW r \in Threads, Return(r),
           \A a \in Actions : action'[a].state = "INVALIDATED" =>
               action[a].state = "INVALIDATED"
    PROVE  Pursuit'
<1>1. \A q \in Threads : /\ pc'[q] = IF q = r THEN "idle" ELSE pc[q]
                         /\ q # r => /\ act'[q] = act[q] /\ req'[q] = req[q]
                                     /\ result'[q] = result[q]
  BY DEF Return, Goto, TypeOK
<1>2. "idle" \in Steps /\ "idle" \notin FlightSteps \cup PlanSteps \cup Submitting
  BY StepSets
<1>3. ~Saw(r)'
  BY <1>1 DEF Saw
<1> QED BY <1>1, <1>2, <1>3, PursuitGoesOn

-----------------------------------------------------------------------------
(* The steps that write a row.                                             *)

LEMMA PrepareKeepsOutcome ==
    ASSUME TypeOK, GrantDiscipline, Tables, Pursuit,
           NEW r \in Threads, NEW p \in Plans, PreparePlan(r, p)
    PROVE  Tables' /\ Grows /\ Pursuit'
<1>1. /\ UNCHANGED <<action, approval, grant, remote, dispatched, pc, act, req, result>>
      /\ \A x \in Plans : plan'[x].state = "SUBMITTED" => plan[x].state = "SUBMITTED"
  BY DEF PreparePlan, world, locals, TypeOK
<1>2. Tables'
  BY <1>1 DEF Tables, TablesAgree, Absent, PendingTogether, SuccessIsProven, Target,
              InvalidatedSubmitsNothing
<1>3. Pursuit'
  BY <1>1 DEF Pursuit, ThreadsKnow, HandlesAction, InFlight, SawSubmitted, Saw, Target, NotDropped
<1>4. Grows
  BY <1>1 DEF Grows
<1> QED BY <1>2, <1>3, <1>4

LEMMA DropKeepsOutcome ==
    ASSUME TypeOK, GrantDiscipline, Tables, Pursuit, NEW r \in Threads, DropPlan(r)
    PROVE  Tables' /\ Grows /\ Pursuit'
<1>1. /\ UNCHANGED <<action, approval, grant, remote, dispatched>>
      /\ \A x \in Plans : plan'[x].state = "SUBMITTED" => plan[x].state = "SUBMITTED"
  BY DEF DropPlan, world, TypeOK
<1>2. Tables'
  BY <1>1 DEF Tables, TablesAgree, Absent, PendingTogether, SuccessIsProven, Target,
              InvalidatedSubmitsNothing
<1>3. Grows
  BY <1>1 DEF Grows
<1> QED BY <1>1, <1>2, <1>3, ReturnKeepsPursuit DEF DropPlan, Tables

(* A new action takes an identifier that nothing speaks of yet. *)
LEMMA CreateKeepsOutcome ==
    ASSUME TypeOK, GrantDiscipline, Tables, Pursuit, NEW r \in Threads, CreateAction(r)
    PROVE  Tables' /\ Grows /\ Pursuit'
<1>1. PICK a \in Actions :
        /\ Absent(a)
        /\ action' = [action EXCEPT ![a] = [state |-> "APPROVAL_REQUIRED", plan |-> req[r],
                                            expires |-> since[r] + ActionTtl]]
        /\ approval' = [approval EXCEPT ![a] = "PENDING"]
  BY DEF CreateAction, SetApproval
<1>2. UNCHANGED <<plan, grant, remote, dispatched>> /\ Return(r) /\ req[r] \in Plans
  BY StepSets DEF CreateAction, world, Pursuit, ThreadsKnow
<1>3. approval[a] = "ABSENT" /\ grant[a] = "ABSENT"
  BY <1>1 DEF Tables, TablesAgree
<1>4. \A b \in Actions : /\ action'[b].state = IF b = a THEN "APPROVAL_REQUIRED" ELSE action[b].state
                         /\ action'[b].plan = IF b = a THEN req[r] ELSE action[b].plan
                         /\ approval'[b] = IF b = a THEN "PENDING" ELSE approval[b]
  BY <1>1 DEF TypeOK
<1>5. Grows
  BY <1>2, <1>3, <1>4 DEF Grows
<1>6. TablesAgree' /\ PendingTogether' /\ InvalidatedSubmitsNothing'
  BY <1>2, <1>3, <1>4 DEF Tables, TablesAgree, Absent, PendingTogether, InvalidatedSubmitsNothing
<1>7. SuccessIsProven'
  BY <1>2, <1>4 DEF Tables, SuccessIsProven, Target
<1> QED BY <1>2, <1>4, <1>5, <1>6, <1>7, ReturnKeepsPursuit DEF Tables

(* What the state of an existing action and its request may be set to. *)
LEMMA WriteKeepsTables ==
    ASSUME TypeOK, Tables, NEW a \in Actions, approval[a] # "ABSENT",
           NEW s \in ActionStates, NEW v \in ApprovalStates,
           SetAction(a, s), SetApproval(a, v),
           s # "ABSENT", v # "ABSENT", s # "APPROVAL_REQUIRED", v # "PENDING",
           s = "INVALIDATED" => dispatched[a] = 0,
           s = "SUCCEEDED" => remote[Target(a)] = "submitted",
           \A b \in Actions : b # a => grant'[b] = grant[b],
           grant[a] # "ABSENT" => grant'[a] # "ABSENT",
           UNCHANGED <<plan, remote, dispatched>>
    PROVE  /\ Tables' /\ Grows
           /\ \A b \in Actions : /\ action'[b].state = IF b = a THEN s ELSE action[b].state
                                 /\ action'[b].plan = action[b].plan
                                 /\ approval'[b] = IF b = a THEN v ELSE approval[b]
<1>1. \A b \in Actions : /\ action'[b].state = IF b = a THEN s ELSE action[b].state
                         /\ action'[b].plan = action[b].plan
                         /\ approval'[b] = IF b = a THEN v ELSE approval[b]
  BY DEF SetAction, SetApproval, TypeOK
<1>2. Grows
  BY <1>1 DEF Grows
<1>3. TablesAgree' /\ PendingTogether' /\ InvalidatedSubmitsNothing'
  BY <1>1 DEF Tables, TablesAgree, Absent, PendingTogether, InvalidatedSubmitsNothing
<1>4. SuccessIsProven'
  BY <1>1 DEF Tables, SuccessIsProven, Target
<1> QED BY <1>1, <1>2, <1>3, <1>4 DEF Tables

(* An update of the action alone: its request keeps its state. *)
LEMMA SameApproval ==
    ASSUME TypeOK, NEW a \in Actions, UNCHANGED approval
    PROVE  SetApproval(a, approval[a])
  BY DEF TypeOK, SetApproval

LEMMA ApproveKeepsOutcome ==
    ASSUME TypeOK, GrantDiscipline, Tables, Pursuit, NEW r \in Threads, ApproveCommit(r)
    PROVE  Tables' /\ Grows /\ Pursuit'
<1> DEFINE a == act[r]
<1>1. a \in Actions /\ approval[a] # "ABSENT" /\ HandlesAction(r)
  BY DEF ApproveCommit, HandlesAction, GrantDiscipline, Pursuit, ThreadsKnow
<1>2. /\ grant[a] = "ABSENT" /\ grant' = [grant EXCEPT ![a] = "FRESH"]
      /\ SetAction(a, "APPROVED") /\ SetApproval(a, "APPROVED") /\ Goto(r, "claim")
      /\ UNCHANGED <<plan, remote, dispatched, act, req, result>>
  BY DEF ApproveCommit, world, locals
<1>3. grant'[a] = "FRESH" /\ \A b \in Actions : b # a => grant'[b] = grant[b]
  BY <1>1, <1>2 DEF TypeOK
<1>4. /\ Tables' /\ Grows
      /\ \A b \in Actions : action'[b].state = IF b = a THEN "APPROVED" ELSE action[b].state
      /\ approval'[a] # "ABSENT"
  <2>1. "APPROVED" \in ActionStates /\ "APPROVED" \in ApprovalStates
    BY DEF ActionStates, ApprovalStates
  <2> HIDE DEF a
  <2> QED BY <1>1, <1>2, <1>3, <2>1, WriteKeepsTables
<1>5. \A q \in Threads : pc'[q] = IF q = r THEN "claim" ELSE pc[q]
  BY <1>2 DEF Goto, TypeOK
<1>6. ~Saw(r)'
  BY <1>5 DEF Saw
<1>7. Pursuit'
  BY <1>2, <1>3, <1>4, <1>5, <1>6, StepSets, PursuitGoesOn DEF Tables
<1> QED BY <1>4, <1>7

LEMMA DenyKeepsOutcome ==
    ASSUME TypeOK, GrantDiscipline, Tables, Pursuit, NEW r \in Threads, DenyCommit(r)
    PROVE  Tables' /\ Grows /\ Pursuit'
<1>1. act[r] \in Actions /\ approval[act[r]] # "ABSENT"
  BY DEF DenyCommit, HandlesAction, GrantDiscipline, Pursuit, ThreadsKnow
<1>2. /\ SetAction(act[r], "DENIED") /\ SetApproval(act[r], "DENIED") /\ Return(r)
      /\ UNCHANGED <<plan, grant, remote, dispatched>>
  BY DEF DenyCommit, world
<1>3. /\ Tables' /\ Grows
      /\ \A b \in Actions : action'[b].state = IF b = act[r] THEN "DENIED" ELSE action[b].state
  <2>1. "DENIED" \in ActionStates /\ "DENIED" \in ApprovalStates
    BY DEF ActionStates, ApprovalStates
  <2> QED BY <1>1, <1>2, <2>1, WriteKeepsTables
<1> QED BY <1>2, <1>3, ReturnKeepsPursuit DEF Tables

(* A thread in the flight of an action records its state, and goes on in the *)
(* flight.                                                                   *)
LEMMA RecordKeepsOutcome ==
    ASSUME TypeOK, GrantDiscipline, Tables, Pursuit,
           NEW r \in Threads, InFlight(r), NEW s \in FlightSteps, Goto(r, s),
           NEW x \in ActionStates, NEW v \in ApprovalStates,
           SetAction(act[r], x), SetApproval(act[r], v),
           x \notin {"ABSENT", "APPROVAL_REQUIRED"}, v \notin {"ABSENT", "PENDING"},
           x = "INVALIDATED" => dispatched[act[r]] = 0 /\ s \notin Submitting,
           x = "SUCCEEDED" => remote[Target(act[r])] = "submitted",
           grant' = grant \/ grant' = [grant EXCEPT ![act[r]] = "CONSUMED"],
           UNCHANGED <<plan, remote, dispatched, act, req>>,
           \A q \in Threads : q # r => result'[q] = result[q],
           ~Saw(r)'
    PROVE  Tables' /\ Grows /\ Pursuit'
<1> DEFINE a == act[r]
<1>1. a \in Actions /\ approval[a] # "ABSENT" /\ grant[a] # "ABSENT"
  BY DEF HandlesAction, GrantDiscipline, Pursuit, ThreadsKnow
<1>2. grant'[a] # "ABSENT" /\ \A b \in Actions : b # a => grant'[b] = grant[b]
  BY <1>1 DEF TypeOK
<1>3. /\ Tables' /\ Grows
      /\ \A b \in Actions : /\ action'[b].state = IF b = a THEN x ELSE action[b].state
                            /\ approval'[b] = IF b = a THEN v ELSE approval[b]
  <2> HIDE DEF a
  <2>1. SetAction(a, x) /\ SetApproval(a, v) /\ (x = "INVALIDATED" => dispatched[a] = 0)
        /\ (x = "SUCCEEDED" => remote[Target(a)] = "submitted")
    BY DEF a
  <2> QED BY <1>1, <1>2, <2>1, WriteKeepsTables
<1>4. \A q \in Threads : pc'[q] = IF q = r THEN s ELSE pc[q]
  BY DEF Goto, TypeOK
<1>5. s \in Steps /\ s \notin PlanSteps
  BY StepSets
<1>6. Pursuit'
  BY <1>1, <1>2, <1>3, <1>4, <1>5, PursuitGoesOn DEF Tables
<1> QED BY <1>3, <1>6

(* The plan is marked submitted by a thread that saw the submission. *)
LEMMA MarkKeepsOutcome ==
    ASSUME TypeOK, GrantDiscipline, Tables, Pursuit, NEW r \in Threads, MarkSubmitted(r)
    PROVE  Tables' /\ Grows /\ Pursuit'
<1> DEFINE p == action[act[r]].plan
<1>1. /\ pc[r] = "submitted" /\ Goto(r, "finish") /\ result' = [result EXCEPT ![r] = "verified"]
      /\ plan' = [plan EXCEPT ![p].state = "SUBMITTED"]
      /\ UNCHANGED <<action, approval, grant, remote, dispatched, act, req>>
  BY DEF MarkSubmitted, Finish, world
<1>2. /\ act[r] \in Actions /\ approval[act[r]] # "ABSENT" /\ grant[act[r]] # "ABSENT"
      /\ p \in Plans /\ remote[TargetOf[p]] = "submitted"
  <2>1. InFlight(r) /\ Saw(r)
    BY <1>1, StepSets DEF InFlight, Saw
  <2>2. act[r] \in Actions /\ approval[act[r]] # "ABSENT" /\ grant[act[r]] # "ABSENT"
    BY <2>1 DEF HandlesAction, GrantDiscipline, Pursuit, ThreadsKnow
  <2> QED BY <2>1, <2>2 DEF Pursuit, SawSubmitted, Target, Tables, TablesAgree
<1>3. TablesAgree' /\ PendingTogether' /\ InvalidatedSubmitsNothing' /\ Grows
  BY <1>1 DEF Tables, TablesAgree, Absent, PendingTogether, InvalidatedSubmitsNothing, Grows
<1>4. \A x \in Plans : plan'[x].state = "SUBMITTED" => x = p \/ plan[x].state = "SUBMITTED"
  BY <1>1 DEF TypeOK
<1>5. SuccessIsProven'
  BY <1>1, <1>2, <1>4 DEF Tables, SuccessIsProven, Target
<1>6. \A q \in Threads : /\ pc'[q] = IF q = r THEN "finish" ELSE pc[q]
                         /\ q # r => result'[q] = result[q]
  BY <1>1 DEF Goto, TypeOK
<1>7. Target(act[r])' = TargetOf[p]
  BY <1>1 DEF Target
<1>8. Pursuit'
  <2>1. "finish" \in FlightSteps /\ "finish" \notin PlanSteps \cup Submitting
        /\ "finish" \in Steps
    BY StepSets
  <2>2. approval'[act'[r]] # "ABSENT" /\ grant'[act'[r]] # "ABSENT"
        /\ remote'[Target(act[r])'] = "submitted"
    BY <1>1, <1>2, <1>7
  <2>3. \A q \in Threads : q # r => act'[q] = act[q] /\ req'[q] = req[q]
    BY <1>1
  <2>4. TablesAgree /\ Grows /\ \A a \in Actions : action'[a].state = action[a].state
    BY <1>1, <1>3 DEF Tables
  <2> QED BY <1>6, <2>1, <2>2, <2>3, <2>4, PursuitGoesOn
<1> QED BY <1>3, <1>5, <1>8 DEF Tables

(* A click writes no row, and Moodle only ever learns of a submission. *)
LEMMA ClickKeepsOutcome ==
    ASSUME TypeOK, GrantDiscipline, Tables, Pursuit, NEW r \in Threads, Click(r), ClickBridge
    PROVE  Tables' /\ Grows /\ Pursuit'
<1> DEFINE a == act[r]
<1>1. /\ pc[r] = "click" /\ UNCHANGED <<tables, act, req>>
      /\ dispatched' = [dispatched EXCEPT ![a] = @ + 1]
      /\ remote' = [remote EXCEPT ![Target(a)] = "submitted"] \/ remote' = remote
  BY DEF Click
<1>2. /\ a \in Actions /\ approval[a] # "ABSENT" /\ grant[a] # "ABSENT"
      /\ action[a].state # "INVALIDATED" /\ InFlight(r)
  <2>1. InFlight(r) /\ pc[r] \in Submitting
    BY <1>1, StepSets DEF InFlight
  <2> QED BY <2>1 DEF HandlesAction, GrantDiscipline, Pursuit, ThreadsKnow, NotDropped
<1>3. \A t \in Targets : remote[t] = "submitted" => remote'[t] = "submitted"
  BY <1>1 DEF TypeOK
<1>4. \A b \in Actions : b # a => dispatched'[b] = dispatched[b]
  BY <1>1 DEF TypeOK
<1>5. TablesAgree' /\ PendingTogether' /\ InvalidatedSubmitsNothing' /\ Grows
  BY <1>1, <1>2, <1>3, <1>4 DEF tables, Tables, TablesAgree, Absent, PendingTogether,
     InvalidatedSubmitsNothing, Grows
<1>6. SuccessIsProven'
  <2>1. ASSUME NEW b \in Actions, action[b].state = "SUCCEEDED" PROVE Target(b) \in Targets
    BY <2>1, ConstantsAssumption DEF Tables, TablesAgree, Absent, Target
  <2>2. \A p \in Plans : TargetOf[p] \in Targets
    BY ConstantsAssumption
  <2> QED BY <1>1, <1>3, <2>1, <2>2 DEF tables, Tables, SuccessIsProven, Target
<1>7. PICK s \in {"confirm", "finish"} :
        /\ Goto(r, s) /\ \A q \in Threads : q # r => result'[q] = result[q]
        /\ s = "finish" => result' = [result EXCEPT ![r] = "failed"]
  BY DEF Click, Finish, TypeOK
<1>8. \A q \in Threads : pc'[q] = IF q = r THEN s ELSE pc[q]
  BY <1>7 DEF Goto, TypeOK
<1>9. ~Saw(r)'
  BY <1>7, <1>8 DEF Saw, TypeOK
<1>10. s \in Steps /\ s \in FlightSteps /\ s \notin PlanSteps
  BY StepSets
<1>11. action'[act'[r]].state # "INVALIDATED"
  BY <1>1, <1>2 DEF tables
<1>12. Pursuit'
  BY <1>1, <1>2, <1>5, <1>7, <1>8, <1>9, <1>10, <1>11, PursuitGoesOn DEF Tables, tables
<1> QED BY <1>5, <1>6, <1>12 DEF Tables

(* Reading a request for approval or denial: it exists, and with a grant     *)
(* only the execution is left.                                               *)
LEMMA ReadKeepsOutcome ==
    ASSUME TypeOK, GrantDiscipline, Tables, Pursuit, NEW r \in Threads, NEW a \in Actions,
           ApproveRead(r, a) \/ DenyRead(r, a)
    PROVE  Tables' /\ Grows /\ Pursuit'
<1>1. Tables' /\ Grows
  BY TablesStay DEF ApproveRead, DenyRead, world
<1>2. PICK s \in {"approve", "claim", "deny"} :
        Goto(r, s) /\ approval[a] # "ABSENT" /\ (s = "claim" => grant[a] # "ABSENT")
  BY DEF ApproveRead, DenyRead
<1>3. /\ UNCHANGED <<action, approval, grant, remote, req, result>>
      /\ act' = [act EXCEPT ![r] = a]
  BY DEF ApproveRead, DenyRead, tables, world
<1>4. \A q \in Threads : /\ pc'[q] = IF q = r THEN s ELSE pc[q]
                         /\ act'[q] = IF q = r THEN a ELSE act[q]
  BY <1>2, <1>3 DEF Goto, TypeOK
<1>5. ~Saw(r)' /\ s \in Steps /\ s \notin FlightSteps \cup PlanSteps \cup Submitting
  BY <1>4, StepSets DEF Saw
<1>6. Pursuit'
  BY <1>1, <1>2, <1>3, <1>4, <1>5, PursuitGoesOn DEF Tables
<1> QED BY <1>1, <1>6

-----------------------------------------------------------------------------
(* Every step keeps what the tables and the threads say of the outcomes.   *)

LEMMA RequestKeepsOutcome ==
    ASSUME TypeOK, GrantDiscipline, Tables, Pursuit, NEW r \in Threads, RequestStep(r)
    PROVE  Tables' /\ Grows /\ Pursuit'
<1>1. CASE DropPlan(r)
  BY <1>1, DropKeepsOutcome
<1>2. CASE DedupeHit(r) \/ NoIdentifierLeft(r) \/ ApproveRollback(r)
  <2>1. Return(r) /\ UNCHANGED <<tables, world, dispatched>>
    BY <1>2 DEF DedupeHit, NoIdentifierLeft, ApproveRollback
  <2>2. Tables' /\ Grows
    BY <2>1, TablesStay DEF world
  <2> QED BY <2>1, <2>2, ReturnKeepsPursuit DEF Tables, tables
<1>3. CASE DedupeMiss(r)
  <2>1. /\ Goto(r, "create") /\ UNCHANGED <<tables, world, dispatched, act, req, result>>
        /\ req[r] \in Plans
    BY <1>3, StepSets DEF DedupeMiss, Pursuit, ThreadsKnow
  <2>2. ~Saw(r)'
    BY <2>1 DEF Saw, Goto, TypeOK
  <2> QED BY <2>1, <2>2, StepSets, MoveKeepsOutcome DEF world
<1>4. CASE CreateAction(r)
  BY <1>4, CreateKeepsOutcome
<1>5. CASE ApproveCommit(r)
  BY <1>5, ApproveKeepsOutcome
<1>6. CASE DenyCommit(r)
  BY <1>6, DenyKeepsOutcome
<1> QED BY <1>1, <1>2, <1>3, <1>4, <1>5, <1>6 DEF RequestStep

LEMMA ExecutionKeepsOutcome ==
    ASSUME TypeOK, GrantDiscipline, Tables, Pursuit, NEW r \in Threads, ExecutionStep(r)
    PROVE  Tables' /\ Grows /\ Pursuit'
<1>a. InFlight(r) => /\ act[r] \in Actions /\ approval[act[r]] \in ApprovalStates
                     /\ approval[act[r]] \notin {"ABSENT", "PENDING"}
                     /\ action[act[r]].state # "APPROVAL_REQUIRED"
                     /\ Target(act[r]) \in Targets
  <2> SUFFICES ASSUME InFlight(r)
               PROVE  /\ act[r] \in Actions /\ approval[act[r]] \in ApprovalStates
                      /\ approval[act[r]] \notin {"ABSENT", "PENDING"}
                      /\ action[act[r]].state # "APPROVAL_REQUIRED"
                      /\ Target(act[r]) \in Targets
    OBVIOUS
  <2>1. act[r] \in Actions /\ grant[act[r]] # "ABSENT"
    BY DEF GrantDiscipline, HandlesAction, Pursuit, ThreadsKnow
  <2>2. approval[act[r]] \notin {"ABSENT", "PENDING"} /\ approval[act[r]] \in ApprovalStates
    BY <2>1 DEF Tables, TablesAgree, TypeOK
  <2>3. action[act[r]].state # "APPROVAL_REQUIRED" /\ action[act[r]].plan \in Plans
    BY <2>1, <2>2 DEF Tables, TablesAgree, PendingTogether
  <2> QED BY <2>1, <2>2, <2>3, ConstantsAssumption DEF Target
<1>b. \A s : Goto(r, s) => pc'[r] = s
  BY DEF Goto, TypeOK
<1>1. CASE Claim(r)
  <2>1. /\ Goto(r, "load") /\ UNCHANGED <<tables, remote, dispatched, act, req, result>>
        /\ act[r] \in Actions /\ grant[act[r]] # "ABSENT" /\ approval[act[r]] # "ABSENT"
    BY <1>1 DEF Claim, world, locals, GrantDiscipline, HandlesAction, Pursuit, ThreadsKnow
  <2>2. Tables' /\ Grows
    BY <2>1, TablesStay
  <2>3. ~Saw(r)' /\ \A q \in Threads : pc'[q] = IF q = r THEN "load" ELSE pc[q]
    BY <2>1 DEF Saw, Goto, TypeOK
  <2>4. Pursuit'
    BY <2>1, <2>2, <2>3, StepSets, PursuitGoesOn DEF Tables, tables
  <2> QED BY <2>2, <2>4
<1>2. CASE ClaimRefused(r) \/ Release(r)
  <2>1. Return(r) /\ UNCHANGED <<tables, world, dispatched>>
    BY <1>2 DEF ClaimRefused, Release
  <2>2. Tables' /\ Grows
    BY <2>1, TablesStay DEF world
  <2> QED BY <2>1, <2>2, ReturnKeepsPursuit DEF Tables, tables
<1>3. CASE Load(r) \/ ReadGrant(r)
  <2>1. PICK s \in {"release", "expire", "grant", "inspect"} : Goto(r, s)
    BY <1>3 DEF Load, ReadGrant
  <2>2. UNCHANGED <<tables, remote, dispatched, act, req, result>> /\ InFlight(r)
    BY <1>3, StepSets DEF Load, ReadGrant, world, locals, InFlight
  <2>3. ~Saw(r)'
    BY <2>1, <1>b DEF Saw
  <2> QED BY <2>1, <2>2, <2>3, StepSets, MoveKeepsOutcome
<1>4. CASE ExpireAction(r)
  <2>1. /\ SetAction(act[r], "INVALIDATED") /\ SetApproval(act[r], "INVALIDATED")
        /\ Goto(r, "release") /\ UNCHANGED <<plan, grant, remote, dispatched, act, req, result>>
    BY <1>4 DEF ExpireAction, Invalidate, world, locals
  <2>2. InFlight(r) /\ pc[r] \in FreshSteps
    BY <1>4, StepSets DEF ExpireAction, InFlight, FreshSteps, EntrySteps
  <2>3. dispatched[act[r]] = 0
    BY <2>2, <1>a DEF GrantDiscipline, DispatchSpendsGrant, TypeOK
  <2>4. ~Saw(r)'
    BY <2>1, <1>b DEF Saw
  <2>5. "INVALIDATED" \in ActionStates /\ "INVALIDATED" \in ApprovalStates
    BY DEF ActionStates, ApprovalStates
  <2> QED BY <2>1, <2>2, <2>3, <2>4, <2>5, StepSets, RecordKeepsOutcome
<1>5. CASE Inspect(r)
  <2>1. PICK s \in {"recover", "consume", "release"} :
          Goto(r, s) /\ (s = "recover" => remote[Target(act[r])] = "submitted")
    BY <1>5 DEF Inspect
  <2>2. UNCHANGED <<tables, remote, dispatched, act, req, result>> /\ InFlight(r)
    BY <1>5, StepSets DEF Inspect, world, locals, InFlight
  <2>3. Saw(r)' => s = "recover"
    BY <2>1, <1>b DEF Saw
  <2> QED BY <2>1, <2>2, <2>3, StepSets, MoveKeepsOutcome
<1>6. CASE Recover(r) \/ Consume(r)
  <2>1. PICK x \in {"SUCCEEDED", "EXECUTING"}, s \in {"release", "verify"} :
          /\ SetAction(act[r], x) /\ Goto(r, s)
          /\ x = "SUCCEEDED" => pc[r] = "recover"
    BY <1>6 DEF Recover, Consume
  <2>2. /\ grant' = [grant EXCEPT ![act[r]] = "CONSUMED"]
        /\ UNCHANGED <<plan, approval, remote, dispatched, act, req, result>> /\ InFlight(r)
    BY <1>6, StepSets DEF Recover, Consume, world, locals, InFlight
  <2>3. SetApproval(act[r], approval[act[r]])
    BY <2>2, <1>a, SameApproval
  <2>4. pc[r] = "recover" => remote[Target(act[r])] = "submitted"
    BY DEF Saw, Pursuit, SawSubmitted
  <2>5. ~Saw(r)'
    BY <2>1, <1>b DEF Saw
  <2>6. x \in ActionStates
    BY DEF ActionStates
  <2> QED BY <2>1, <2>2, <2>3, <2>4, <2>5, <2>6, <1>a, StepSets, RecordKeepsOutcome
<1>7. CASE VerifyFiles(r) \/ Precheck(r) \/ Confirm(r) \/ Evidence(r) \/ (Click(r) /\ ~ClickBridge)
  <2>1. PICK s \in {"precheck", "click", "evidence", "submitted", "finish"} :
          /\ Goto(r, s)
          /\ s = "submitted" => remote[Target(act[r])] = "submitted"
          /\ s = "finish" => \E res \in {"unverified", "uncertain", "failed"} :
                                 result' = [result EXCEPT ![r] = res]
          /\ s # "finish" => UNCHANGED result
    <3>1. CASE VerifyFiles(r)
      BY <3>1 DEF VerifyFiles, locals
    <3>2. CASE Precheck(r)
      BY <3>2 DEF Precheck, Finish
    <3>3. CASE Confirm(r) \/ (Click(r) /\ ~ClickBridge)
      BY <3>3 DEF Confirm, Click, Finish
    <3>4. CASE Evidence(r)
      BY <3>4 DEF Evidence, Finish
    <3> QED BY <1>7, <3>1, <3>2, <3>3, <3>4
  <2>2. /\ pc[r] \in Submitting /\ InFlight(r)
        /\ UNCHANGED <<tables, dispatched, act, req>>
        /\ remote' = remote \/ remote' = [remote EXCEPT ![Target(act[r])] = "submitted"]
    BY <1>7, StepSets DEF VerifyFiles, Precheck, Confirm, Evidence, Click, world, locals, InFlight
  <2>3. \A q \in Threads : q # r => result'[q] = result[q]
    BY <2>1 DEF TypeOK
  <2>4. \A t \in Targets : remote[t] = "submitted" => remote'[t] = "submitted"
    BY <2>2 DEF TypeOK
  <2>5. Saw(r)' => s = "submitted"
    BY <2>1, <1>b DEF Saw, TypeOK
  <2>6. action[act[r]].state # "INVALIDATED"
    BY <2>2 DEF Pursuit, NotDropped
  <2> QED BY <2>1, <2>2, <2>3, <2>4, <2>5, <2>6, StepSets, MoveKeepsOutcome
<1>8. CASE RejectFiles(r)
  <2>1. /\ SetAction(act[r], "INVALIDATED") /\ SetApproval(act[r], "INVALIDATED")
        /\ Goto(r, "finish") /\ result' = [result EXCEPT ![r] = "failed"]
        /\ UNCHANGED <<plan, grant, remote, dispatched, act, req>>
    BY <1>8 DEF RejectFiles, Invalidate, Finish, world
  <2>2. InFlight(r) /\ dispatched[act[r]] = 0
    BY <1>8, StepSets DEF RejectFiles, InFlight, BeforeClick, GrantDiscipline
  <2>3. ~Saw(r)' /\ \A q \in Threads : q # r => result'[q] = result[q]
    BY <2>1, <1>b DEF Saw, TypeOK
  <2>4. "INVALIDATED" \in ActionStates /\ "INVALIDATED" \in ApprovalStates
    BY DEF ActionStates, ApprovalStates
  <2> QED BY <2>1, <2>2, <2>3, <2>4, StepSets, RecordKeepsOutcome
<1>9. CASE Click(r) /\ ClickBridge
  BY <1>9, ClickKeepsOutcome
<1>10. CASE MarkSubmitted(r)
  BY <1>10, MarkKeepsOutcome
<1>11. CASE PersistOutcome(r)
  <2> DEFINE x == FinalState(act[r], result[r])
  <2>1. /\ SetAction(act[r], x) /\ Goto(r, "release")
        /\ UNCHANGED <<plan, approval, grant, remote, dispatched, act, req, result>>
        /\ pc[r] = "finish" /\ InFlight(r)
    BY <1>11, StepSets DEF PersistOutcome, world, locals, InFlight
  <2>2. /\ x \in ActionStates /\ x \notin {"ABSENT", "APPROVAL_REQUIRED"}
        /\ x = "INVALIDATED" => action[act[r]].state = "INVALIDATED"
        /\ x = "SUCCEEDED" => result[r] = "verified"
    BY FinalStateType
  <2>3. SetApproval(act[r], approval[act[r]])
    BY <2>1, <1>a, SameApproval
  <2>4. x = "SUCCEEDED" => remote[Target(act[r])] = "submitted"
    BY <2>1, <2>2 DEF Saw, Pursuit, SawSubmitted
  <2>5. x = "INVALIDATED" => dispatched[act[r]] = 0
    BY <2>1, <2>2, <1>a DEF Tables, InvalidatedSubmitsNothing
  <2>6. ~Saw(r)'
    BY <2>1, <1>b DEF Saw
  <2> HIDE DEF x
  <2> QED BY <2>1, <2>2, <2>3, <2>4, <2>5, <2>6, <1>a, StepSets, RecordKeepsOutcome
<1> QED BY <1>1, <1>2, <1>3, <1>4, <1>5, <1>6, <1>7, <1>8, <1>9, <1>10, <1>11 DEF ExecutionStep

(* A step of the clock, the owner or the server keeps it too. *)
LEMMA StepKeepsOutcome ==
    ASSUME TypeOK, GrantDiscipline, Tables, Pursuit, [Next]_vars
    PROVE  Tables' /\ Grows /\ Pursuit'
<1>1. CASE Tick \/ EditVault \/ UNCHANGED vars
  <2>1. UNCHANGED <<tables, remote, dispatched, pc, act, req, result>>
    BY <1>1 DEF Tick, EditVault, vars, world, locals
  <2>2. Pursuit'
    BY <2>1 DEF tables, Pursuit, ThreadsKnow, HandlesAction, InFlight, SawSubmitted, Saw,
                Target, NotDropped
  <2> QED BY <2>1, <2>2, TablesStay
<1>2. CASE Crash
  <2>1. UNCHANGED <<tables, remote, dispatched>> /\ \A q \in Threads : pc'[q] = "idle"
    BY <1>2 DEF Crash
  <2>2. Pursuit'
    BY <2>1, StepSets DEF Pursuit, ThreadsKnow, HandlesAction, InFlight, SawSubmitted, Saw,
                          NotDropped
  <2> QED BY <2>1, <2>2, TablesStay
<1>3. ASSUME NEW r \in Threads, NewRequest(r) PROVE Tables' /\ Grows /\ Pursuit'
  <2>1. ASSUME NEW p \in Plans, PreparePlan(r, p) PROVE Tables' /\ Grows /\ Pursuit'
    BY <2>1, PrepareKeepsOutcome
  <2>2. ASSUME NEW p \in Plans, SubmitAssignment(r, p) PROVE Tables' /\ Grows /\ Pursuit'
    <3>1. PICK s \in {"dedupe", "dropPlan"} : Goto(r, s)
      BY <2>2 DEF SubmitAssignment
    <3>2. /\ req' = [req EXCEPT ![r] = p]
          /\ UNCHANGED <<tables, remote, dispatched, act, result>>
      BY <2>2 DEF SubmitAssignment, world
    <3>3. ~Saw(r)' /\ req'[r] \in Plans /\ \A q \in Threads : q # r => req'[q] = req[q]
      BY <3>1, <3>2 DEF Saw, Goto, TypeOK
    <3> QED BY <3>1, <3>2, <3>3, StepSets, MoveKeepsOutcome
  <2>3. ASSUME NEW a \in Actions, ApproveRead(r, a) \/ DenyRead(r, a)
        PROVE  Tables' /\ Grows /\ Pursuit'
    BY <2>3, ReadKeepsOutcome
  <2> QED BY <1>3, <2>1, <2>2, <2>3 DEF NewRequest
<1> QED BY <1>1, <1>2, <1>3, RequestKeepsOutcome, ExecutionKeepsOutcome DEF Next

(* What the tables say of an outcome, and what the threads at work on it     *)
(* know, holds in every interleaving and over every restart.                 *)
THEOREM OutcomesSound == Spec => [](Tables /\ Pursuit)
<1>1. Init => Tables /\ Pursuit
  BY StepSets DEF Init, Tables, TablesAgree, Absent, PendingTogether, SuccessIsProven,
     InvalidatedSubmitsNothing, Pursuit, ThreadsKnow, HandlesAction, InFlight, SawSubmitted,
     Saw, NotDropped
<1>2. TypeOK /\ GrantDiscipline /\ (Tables /\ Pursuit) /\ [Next]_vars => (Tables /\ Pursuit)'
  BY StepKeepsOutcome
<1> QED BY <1>1, <1>2, TypeCorrect, GrantsDisciplined, PTL DEF Spec

(* An action waits for its owner exactly while its approval is pending:     *)
(* every handler moves the two tables together, or neither.                 *)
THEOREM PendingAgree == Spec => []PendingTogether
<1>1. Tables => PendingTogether
  BY DEF Tables
<1> QED BY <1>1, OutcomesSound, PTL

(* SUCCEEDED and SUBMITTED are recorded only for what Moodle holds.         *)
THEOREM SuccessProven == Spec => []SuccessIsProven
<1>1. Tables => SuccessIsProven
  BY DEF Tables
<1> QED BY <1>1, OutcomesSound, PTL

(* An action that expired or whose files changed was never clicked.         *)
THEOREM InvalidatedUntouched == Spec => []InvalidatedSubmitsNothing
<1>1. Tables => InvalidatedSubmitsNothing
  BY DEF Tables
<1> QED BY <1>1, OutcomesSound, PTL

-----------------------------------------------------------------------------
(* Once submitted, never clicked again.                                    *)

(* A thread comes to the click only from a look at the page of a draft. *)
LEMMA ClickAfterDraft ==
    ASSUME TypeOK, [Next]_vars, NEW r \in Threads, pc'[r] = "click"
    PROVE  /\ act'[r] = act[r]
           /\ pc[r] = "click" \/ (pc[r] = "precheck" /\ remote[Target(act[r])] = "draft")
<1> USE DEF locals
<1>1. CASE Tick \/ EditVault \/ UNCHANGED vars
  BY <1>1 DEF Tick, EditVault, vars
<1>2. CASE Crash
  BY <1>2 DEF Crash
<1>3. ASSUME NEW q \in Threads, NewRequest(q) PROVE act'[r] = act[r] /\ pc[r] = "click"
  <2>1. ASSUME NEW p \in Plans, PreparePlan(q, p) \/ SubmitAssignment(q, p)
        PROVE  act'[r] = act[r] /\ pc[r] = "click"
    BY <2>1 DEF PreparePlan, SubmitAssignment, Goto, TypeOK
  <2>2. ASSUME NEW a \in Actions, ApproveRead(q, a) \/ DenyRead(q, a)
        PROVE  act'[r] = act[r] /\ pc[r] = "click"
    BY <2>2 DEF ApproveRead, DenyRead, Goto, TypeOK
  <2> QED BY <1>3, <2>1, <2>2 DEF NewRequest
<1>4. ASSUME NEW q \in Threads, RequestStep(q) PROVE act'[r] = act[r] /\ pc[r] = "click"
  BY <1>4 DEF RequestStep, DropPlan, DedupeHit, DedupeMiss, CreateAction, NoIdentifierLeft,
              ApproveCommit, ApproveRollback, DenyCommit, Return, Goto, TypeOK
<1>5. ASSUME NEW q \in Threads, ExecutionStep(q), ~Precheck(q)
      PROVE  act'[r] = act[r] /\ pc[r] = "click"
  <2>1. CASE ClaimRefused(q) \/ Release(q)
    BY <2>1 DEF ClaimRefused, Release, Return, Goto, TypeOK
  <2>2. ASSUME ~ClaimRefused(q), ~Release(q)
        PROVE  UNCHANGED act /\ \E s : Goto(q, s) /\ s # "click"
    <3>1. CASE Claim(q) \/ Load(q) \/ ExpireAction(q) \/ ReadGrant(q) \/ Inspect(q)
      BY <3>1 DEF Claim, Load, ExpireAction, ReadGrant, Inspect
    <3>2. CASE Recover(q) \/ Consume(q) \/ VerifyFiles(q) \/ RejectFiles(q) \/ PersistOutcome(q)
      BY <3>2 DEF Recover, Consume, VerifyFiles, RejectFiles, Finish, PersistOutcome
    <3>3. CASE Click(q) \/ Confirm(q) \/ Evidence(q) \/ MarkSubmitted(q)
      BY <3>3 DEF Click, Confirm, Evidence, MarkSubmitted, Finish
    <3> QED BY <1>5, <2>2, <3>1, <3>2, <3>3 DEF ExecutionStep
  <2>3. ASSUME UNCHANGED act, NEW s, Goto(q, s), s # "click"
        PROVE  act'[r] = act[r] /\ pc[r] = "click"
    BY <2>3 DEF Goto, TypeOK
  <2> QED BY <2>1, <2>2, <2>3
<1>6. ASSUME NEW q \in Threads, Precheck(q)
      PROVE  /\ act'[r] = act[r]
             /\ pc[r] = "click" \/ (pc[r] = "precheck" /\ remote[Target(act[r])] = "draft")
  BY <1>6 DEF Precheck, Finish, Goto, TypeOK
<1> QED BY <1>1, <1>2, <1>3, <1>4, <1>5, <1>6 DEF Next

(* Once Moodle holds the submission and no click is under way for it, no     *)
(* request, approval, retry or restart ever clicks for the assignment again. *)
THEOREM SettledForever == Spec => SettledStays
<1>1. TypeOK /\ GrantDiscipline /\ Tables /\ Pursuit /\ [Next]_vars
        => \A t \in Targets : Settled(t) => Settled(t)'
  <2> SUFFICES ASSUME TypeOK, GrantDiscipline, Tables, Pursuit, [Next]_vars,
                      NEW t \in Targets, Settled(t)
               PROVE  Settled(t)'
    OBVIOUS
  <2>1. Grows
    BY StepKeepsOutcome
  <2>2. ASSUME NEW r \in Threads, pc'[r] = "click" PROVE Target(act[r])' # t
    <3>1. /\ act'[r] = act[r]
          /\ pc[r] = "click" \/ (pc[r] = "precheck" /\ remote[Target(act[r])] = "draft")
      BY <2>2, ClickAfterDraft
    <3>2. act[r] \in Actions /\ approval[act[r]] # "ABSENT"
      BY <3>1, StepSets DEF HandlesAction, InFlight, GrantDiscipline, Pursuit, ThreadsKnow
    <3>3. Target(act[r])' = Target(act[r])
      BY <3>1, <3>2, <2>1 DEF Grows, Target
    <3> QED BY <3>1, <3>3 DEF Settled
  <2> QED BY <2>1, <2>2 DEF Settled, Grows
<1> QED BY <1>1, TypeCorrect, GrantsDisciplined, OutcomesSound, PTL DEF Spec, SettledStays

-----------------------------------------------------------------------------
(* Refinement                                                              *)

(* A step either leaves grants and clicks alone or is one of four actions. *)
LEMMA AuthoritySteps ==
    ASSUME [Next]_vars
    PROVE  \/ UNCHANGED <<grant, dispatched>>
           \/ \E r \in Threads : \/ ApproveCommit(r) \/ Recover(r) \/ Consume(r)
                                 \/ Click(r) /\ ClickBridge
<1> USE DEF tables
<1>1. CASE Tick \/ EditVault \/ Crash \/ UNCHANGED vars
  BY <1>1 DEF Tick, EditVault, Crash, vars
<1>2. ASSUME NEW r \in Threads, NewRequest(r) PROVE UNCHANGED <<grant, dispatched>>
  BY <1>2 DEF NewRequest, PreparePlan, SubmitAssignment, ApproveRead, DenyRead
<1>3. ASSUME NEW r \in Threads, RequestStep(r), ~ApproveCommit(r)
      PROVE  UNCHANGED <<grant, dispatched>>
  BY <1>3 DEF RequestStep, DropPlan, DedupeHit, DedupeMiss, CreateAction, NoIdentifierLeft,
              ApproveRollback, DenyCommit
<1>4. ASSUME NEW r \in Threads, ExecutionStep(r), ~Recover(r), ~Consume(r),
             ~(Click(r) /\ ClickBridge)
      PROVE  UNCHANGED <<grant, dispatched>>
  BY <1>4 DEF ExecutionStep, Claim, ClaimRefused, Load, ExpireAction, ReadGrant, Inspect,
              VerifyFiles, RejectFiles, Precheck, Click, Confirm, Evidence, MarkSubmitted,
              PersistOutcome, Release
<1> QED BY <1>1, <1>2, <1>3, <1>4 DEF Next

(* The handlers, the executor and the submission pipeline implement         *)
(* SingleUseAuthority: in no interleaving is a grant issued or spent twice, *)
(* or the submission clicked twice or without a spent grant.                *)
THEOREM Refinement == Spec => ImplementsAuthority
<1> DEFINE authorityOf == [a \in Actions |-> AuthorityOf(grant[a])]
<1>1. Init => Authority!Init
  BY DEF Init, Authority!Init, AuthorityOf
<1>2. TypeOK /\ GrantDiscipline /\ [Next]_vars
        => [Authority!Next]_<<authorityOf, dispatched>>
  <2> SUFFICES ASSUME TypeOK, GrantDiscipline, [Next]_vars
               PROVE  Authority!Next \/ UNCHANGED <<authorityOf, dispatched>>
    OBVIOUS
  <2>1. CASE UNCHANGED <<grant, dispatched>>
    BY <2>1
  <2>2. ASSUME NEW r \in Threads, ApproveCommit(r) PROVE Authority!Next
    <3>1. act[r] \in Actions /\ grant[act[r]] = "ABSENT"
      BY <2>2 DEF ApproveCommit, GrantDiscipline, HandlesAction
    <3>2. /\ grant' = [grant EXCEPT ![act[r]] = "FRESH"]
          /\ UNCHANGED dispatched
      BY <2>2 DEF ApproveCommit
    <3>3. Authority!Issue(act[r])
      BY <3>1, <3>2 DEF Authority!Issue, AuthorityOf, TypeOK
    <3> QED BY <3>1, <3>3 DEF Authority!Next
  <2>3. ASSUME NEW r \in Threads, Recover(r) \/ Consume(r) PROVE Authority!Next
    <3>1. act[r] \in Actions /\ grant[act[r]] = "FRESH"
      BY <2>3 DEF Recover, Consume, GrantDiscipline, HandlesAction, InFlight, FlightSteps,
                  FreshSteps, EntrySteps
    <3>2. /\ grant' = [grant EXCEPT ![act[r]] = "CONSUMED"]
          /\ UNCHANGED dispatched
      BY <2>3 DEF Recover, Consume
    <3>3. Authority!Spend(act[r])
      BY <3>1, <3>2 DEF Authority!Spend, AuthorityOf, TypeOK
    <3> QED BY <3>1, <3>3 DEF Authority!Next
  <2>4. ASSUME NEW r \in Threads, Click(r), ClickBridge PROVE Authority!Next
    <3>1. act[r] \in Actions /\ grant[act[r]] = "CONSUMED" /\ dispatched[act[r]] = 0
      BY <2>4 DEF Click, GrantDiscipline, HandlesAction, InFlight, FlightSteps,
                  PipelineSteps, BeforeClick
    <3>2. /\ dispatched' = [dispatched EXCEPT ![act[r]] = 1]
          /\ UNCHANGED grant
      BY <2>4, <3>1 DEF Click, tables
    <3>3. Authority!TakeEffect(act[r])
      BY <3>1, <3>2 DEF Authority!TakeEffect, AuthorityOf, TypeOK
    <3> QED BY <3>1, <3>3 DEF Authority!Next
  <2> QED BY <2>1, <2>2, <2>3, <2>4, AuthoritySteps
<1> QED
  BY <1>1, <1>2, TypeCorrect, GrantsDisciplined, PTL
     DEF Spec, ImplementsAuthority, Authority!Spec
=============================================================================

------------------------ MODULE ConsequentialActions ------------------------
(***************************************************************************)
(* The lifecycle of a consequential action (agent/consequential.py) with   *)
(* the submission pipeline it guards (agent/lms_service.py and             *)
(* lms/moodle.py) and the REST handlers that drive it (app.py).            *)
(*                                                                         *)
(* Every request runs in a thread of the web server.  SQLite commits each  *)
(* transaction atomically, but a handler reads a row in one statement and  *)
(* writes it in a later transaction whose WHERE clause names only the      *)
(* identifier, so other requests interleave between the read and the       *)
(* write.  A label of `pc' names the next such step of a thread.           *)
(*                                                                         *)
(* An action and its approval request are created together and refer to    *)
(* each other, so one identifier stands for both; a grant is UNIQUE per    *)
(* approval, so it is indexed by the same identifier.  Requests of a user  *)
(* who does not own the plan or the approval change nothing and are left   *)
(* out.                                                                    *)
(***************************************************************************)
EXTENDS Naturals

CONSTANTS
    Threads,      \* request threads of the web server
    Actions,      \* identifiers of action + approval request
    Plans,        \* identifiers of submission plans
    Targets,      \* Moodle assignments
    Versions,     \* contents the vault files can have
    TargetOf,     \* the assignment a plan was prepared for
    ActionTtl,    \* lifetime of an approval request (900 s in the code)
    PlanTtl,      \* lifetime of a plan (3600 s in the code)
    MaxTime,      \* bound on the clock
    MaxCrashes,   \* bound on server restarts
    ClickBridge,  \* does the browser service expose a `pinchtab' client?
    NoAction,     \* no action is being handled by the thread
    NoPlan        \* no plan is being handled by the thread

ASSUME ConstantsAssumption ==
    /\ TargetOf \in [Plans -> Targets]
    /\ ActionTtl \in Nat /\ PlanTtl \in Nat /\ MaxTime \in Nat /\ MaxCrashes \in Nat
    /\ ClickBridge \in BOOLEAN
    /\ NoAction \notin Actions
    /\ NoPlan \notin Plans

VARIABLES
    now,         \* time.time()
    vault,       \* current content of the vault files
    plan,        \* table submission_plans
    action,      \* table consequential_actions
    approval,    \* column state of table approval_requests
    grant,       \* table approval_grants
    active,      \* ACTIVE_EXECUTIONS, kept in memory
    remote,      \* submission status of each assignment on Moodle
    dispatched,  \* how many final submits each action has clicked
    pc,          \* next step of each thread
    act,         \* the action a thread is handling
    req,         \* the plan a thread is requesting the submission of
    since,       \* the time.time() a thread captured at the start of its call
    result,      \* what the pipeline returned to execute_action
    crashes      \* server restarts so far

tables == <<plan, action, approval, grant>>
world  == <<now, vault, remote, crashes>>
locals == <<act, req, since, result>>
vars   == <<tables, world, active, dispatched, pc, locals>>

-----------------------------------------------------------------------------
ActionStates ==
    {"ABSENT", "APPROVAL_REQUIRED", "APPROVED", "EXECUTING", "SUCCEEDED",
     "FAILED", "UNCERTAIN", "DENIED", "INVALIDATED"}

ApprovalStates == {"ABSENT", "PENDING", "APPROVED", "DENIED", "INVALIDATED"}

GrantStates == {"ABSENT", "FRESH", "CONSUMED"}

PlanStates == {"ABSENT", "READY_FOR_REVIEW", "SUBMITTED", "INVALIDATED"}

Results == {"none", "verified", "unverified", "uncertain", "failed"}

\* Steps of execute_action after it entered ACTIVE_EXECUTIONS.
EntrySteps    == {"load", "expire", "grant", "inspect", "consume", "recover"}
PipelineSteps == {"verify", "precheck", "click", "confirm", "evidence",
                  "submitted", "finish"}
FlightSteps   == EntrySteps \cup PipelineSteps \cup {"release"}

Steps == FlightSteps \cup
         {"idle", "dropPlan", "dedupe", "create", "approve", "claim", "deny"}

Absent(a)  == action[a].state = "ABSENT"
Expired(a) == now > action[a].expires
Intact(p)  == plan[p].files = vault
Target(a)  == TargetOf[action[a].plan]

Goto(r, step) == pc' = [pc EXCEPT ![r] = step]

\* The end of a request: the thread forgets its locals.
Return(r) ==
    /\ Goto(r, "idle")
    /\ act' = [act EXCEPT ![r] = NoAction]
    /\ req' = [req EXCEPT ![r] = NoPlan]
    /\ since' = [since EXCEPT ![r] = 0]
    /\ result' = [result EXCEPT ![r] = "none"]

SetAction(a, s)   == action' = [action EXCEPT ![a].state = s]
SetApproval(a, s) == approval' = [approval EXCEPT ![a] = s]

\* ConsequentialActionManager.invalidate_action
Invalidate(a) == SetAction(a, "INVALIDATED") /\ SetApproval(a, "INVALIDATED")

-----------------------------------------------------------------------------
(* Variants that stand for plausible slips in the code; no behaviour uses  *)
(* them.  Each violates a property below when put in place of its original.*)

\* The approval row is denied, the action row forgotten.
Slip_DenyApprovalOnly(r) ==
    /\ pc[r] = "deny"
    /\ SetApproval(act[r], "DENIED")
    /\ Return(r)
    /\ UNCHANGED <<plan, action, grant, world, active, dispatched>>

\* No UNIQUE(approval_id): a second approval issues the grant again.
Slip_ApproveAgain(r) ==
    /\ pc[r] = "approve"
    /\ SetApproval(act[r], "APPROVED")
    /\ SetAction(act[r], "APPROVED")
    /\ grant' = [grant EXCEPT ![act[r]] = "FRESH"]
    /\ Goto(r, "claim")
    /\ UNCHANGED <<plan, world, active, dispatched, locals>>

\* ACTIVE_EXECUTIONS is not consulted.
Slip_ClaimUnchecked(r) ==
    /\ pc[r] = "claim"
    /\ active' = active \cup {act[r]}
    /\ Goto(r, "load")
    /\ UNCHANGED <<tables, world, dispatched, locals>>

\* The expiry is tested before the state.
Slip_ExpiryFirst(r) ==
    /\ pc[r] = "load"
    /\ Goto(r, IF Expired(act[r]) THEN "expire"
               ELSE IF action[act[r]].state # "APPROVED" THEN "release" ELSE "grant")
    /\ UNCHANGED <<tables, world, active, dispatched, locals>>

\* The grant is left unconsumed.
Slip_ConsumeNothing(r) ==
    /\ pc[r] = "consume"
    /\ SetAction(act[r], "EXECUTING")
    /\ Goto(r, "verify")
    /\ UNCHANGED <<plan, approval, grant, world, active, dispatched, locals>>

\* The page is not inspected before the click.
Slip_NoPrecheck(r) ==
    /\ pc[r] = "precheck"
    /\ Goto(r, "click")
    /\ UNCHANGED <<tables, world, active, dispatched, locals>>

\* Whatever was dispatched counts as success.
Slip_UnverifiedSucceeds(a, res) ==
    IF res \in {"verified", "unverified"} THEN "SUCCEEDED" ELSE "FAILED"

\* The outcome of the pipeline is written as it is.
Slip_RawOutcome(a, res) == res

\* The final UPDATE is lost.
Slip_OutcomeLost(r) ==
    /\ pc[r] = "finish"
    /\ Goto(r, "release")
    /\ UNCHANGED <<tables, world, active, dispatched, locals>>

\* The entry of ACTIVE_EXECUTIONS is not removed.
Slip_EntryKept(r) ==
    /\ pc[r] = "release"
    /\ Return(r)
    /\ UNCHANGED <<tables, world, active, dispatched>>

-----------------------------------------------------------------------------
Init ==
    /\ now = 0
    /\ vault \in Versions
    /\ plan = [p \in Plans |-> [state |-> "ABSENT", files |-> vault, expires |-> 0]]
    /\ action = [a \in Actions |-> [state |-> "ABSENT", plan |-> NoPlan, expires |-> 0]]
    /\ approval = [a \in Actions |-> "ABSENT"]
    /\ grant = [a \in Actions |-> "ABSENT"]
    /\ active = {}
    /\ remote = [t \in Targets |-> "draft"]
    /\ dispatched = [a \in Actions |-> 0]
    /\ pc = [r \in Threads |-> "idle"]
    /\ act = [r \in Threads |-> NoAction]
    /\ req = [r \in Threads |-> NoPlan]
    /\ since = [r \in Threads |-> 0]
    /\ result = [r \in Threads |-> "none"]
    /\ crashes = 0

-----------------------------------------------------------------------------
(* The environment: time passes, the owner edits the vault files.          *)

Tick ==
    /\ now < MaxTime
    /\ now' = now + 1
    /\ UNCHANGED <<tables, vault, remote, crashes, active, dispatched, pc, locals>>

EditVault ==
    /\ \E v \in Versions \ {vault} : vault' = v
    /\ UNCHANGED <<tables, now, remote, crashes, active, dispatched, pc, locals>>

-----------------------------------------------------------------------------
(* lms.prepare_submission and lms.submit_assignment                        *)

\* The plan records the hashes of the vault files and its expiry.
PreparePlan(r, p) ==
    /\ pc[r] = "idle"
    /\ plan[p].state = "ABSENT"
    /\ plan' = [plan EXCEPT ![p] = [state |-> "READY_FOR_REVIEW", files |-> vault,
                                    expires |-> now + PlanTtl]]
    /\ UNCHANGED <<action, approval, grant, world, active, dispatched, pc, locals>>

\* Reads the plan and rehashes the files; an expired or already submitted
\* plan is refused.
SubmitAssignment(r, p) ==
    /\ pc[r] = "idle"
    /\ plan[p].state = "READY_FOR_REVIEW"
    /\ plan[p].expires >= now
    /\ req' = [req EXCEPT ![r] = p]
    /\ Goto(r, IF Intact(p) THEN "dedupe" ELSE "dropPlan")
    /\ UNCHANGED <<tables, world, active, dispatched, act, since, result>>

\* The UPDATE that invalidates a plan whose files changed names only the plan.
DropPlan(r) ==
    /\ pc[r] = "dropPlan"
    /\ plan' = [plan EXCEPT ![req[r]].state = "INVALIDATED"]
    /\ Return(r)
    /\ UNCHANGED <<action, approval, grant, world, active, dispatched>>

\* A pending, unexpired request with the same parameters.
Duplicate(p, a) ==
    /\ action[a].state = "APPROVAL_REQUIRED"
    /\ action[a].plan = p
    /\ action[a].expires > now
    /\ approval[a] = "PENDING"

\* request_consequential_action: the deduplicating SELECT.
DedupeHit(r) ==
    /\ pc[r] = "dedupe"
    /\ \E a \in Actions : Duplicate(req[r], a)
    /\ Return(r)
    /\ UNCHANGED <<tables, world, active, dispatched>>

DedupeMiss(r) ==
    /\ pc[r] = "dedupe"
    /\ \A a \in Actions : ~Duplicate(req[r], a)
    /\ since' = [since EXCEPT ![r] = now]
    /\ Goto(r, "create")
    /\ UNCHANGED <<tables, world, active, dispatched, act, req, result>>

\* ... and the INSERT of a fresh action and approval, in one transaction.
CreateAction(r) ==
    /\ pc[r] = "create"
    /\ \E a \in Actions :
          /\ Absent(a)
          /\ action' = [action EXCEPT ![a] = [state |-> "APPROVAL_REQUIRED",
                                              plan |-> req[r],
                                              expires |-> since[r] + ActionTtl]]
          /\ SetApproval(a, "PENDING")
    /\ Return(r)
    /\ UNCHANGED <<plan, grant, world, active, dispatched>>

\* Bound: no identifier is left, the request is abandoned.
NoIdentifierLeft(r) ==
    /\ pc[r] = "create"
    /\ \A a \in Actions : ~Absent(a)
    /\ Return(r)
    /\ UNCHANGED <<tables, world, active, dispatched>>

-----------------------------------------------------------------------------
(* POST /api/approvals/<id>/approve and /deny                              *)

\* approve_action reads the request.  One already approved returns its grant
\* and goes on to the execution; a denied, invalidated or expired one raises.
ApproveRead(r, a) ==
    /\ pc[r] = "idle"
    /\ \/ approval[a] = "PENDING" /\ action[a].expires > now /\ Goto(r, "approve")
       \/ approval[a] = "APPROVED" /\ grant[a] # "ABSENT" /\ Goto(r, "claim")
    /\ act' = [act EXCEPT ![r] = a]
    /\ UNCHANGED <<tables, world, active, dispatched, req, since, result>>

\* One transaction: two unguarded UPDATEs and the INSERT of the grant.
ApproveCommit(r) ==
    /\ pc[r] = "approve"
    /\ grant[act[r]] = "ABSENT"
    /\ SetApproval(act[r], "APPROVED")
    /\ SetAction(act[r], "APPROVED")
    /\ grant' = [grant EXCEPT ![act[r]] = "FRESH"]
    /\ Goto(r, "claim")
    /\ UNCHANGED <<plan, world, active, dispatched, locals>>

\* A second grant for the approval violates UNIQUE: all is rolled back.
ApproveRollback(r) ==
    /\ pc[r] = "approve"
    /\ grant[act[r]] # "ABSENT"
    /\ Return(r)
    /\ UNCHANGED <<tables, world, active, dispatched>>

\* deny_action reads the request; a denied one returns, an approved one raises.
DenyRead(r, a) ==
    /\ pc[r] = "idle"
    /\ approval[a] \in {"PENDING", "INVALIDATED"}
    /\ act' = [act EXCEPT ![r] = a]
    /\ Goto(r, "deny")
    /\ UNCHANGED <<tables, world, active, dispatched, req, since, result>>

DenyCommit(r) ==
    /\ pc[r] = "deny"
    /\ SetApproval(act[r], "DENIED")
    /\ SetAction(act[r], "DENIED")
    /\ Return(r)
    /\ UNCHANGED <<plan, grant, world, active, dispatched>>

-----------------------------------------------------------------------------
(* ConsequentialExecutor.execute_action: entry, under the flight lock      *)

Claim(r) ==
    /\ pc[r] = "claim"
    /\ act[r] \notin active
    /\ active' = active \cup {act[r]}
    /\ Goto(r, "load")
    /\ UNCHANGED <<tables, world, dispatched, locals>>

\* RuntimeError: the action is already executing.
ClaimRefused(r) ==
    /\ pc[r] = "claim"
    /\ act[r] \in active
    /\ Return(r)
    /\ UNCHANGED <<tables, world, active, dispatched>>

\* Only an APPROVED action goes on; an expired one is invalidated first.
Load(r) ==
    /\ pc[r] = "load"
    /\ Goto(r, IF action[act[r]].state # "APPROVED" THEN "release"
               ELSE IF Expired(act[r]) THEN "expire" ELSE "grant")
    /\ UNCHANGED <<tables, world, active, dispatched, locals>>

ExpireAction(r) ==
    /\ pc[r] = "expire"
    /\ Invalidate(act[r])
    /\ Goto(r, "release")
    /\ UNCHANGED <<plan, grant, world, active, dispatched, locals>>

\* A missing, consumed or expired grant raises.
ReadGrant(r) ==
    /\ pc[r] = "grant"
    /\ Goto(r, IF grant[act[r]] = "FRESH" /\ ~Expired(act[r]) THEN "inspect" ELSE "release")
    /\ UNCHANGED <<tables, world, active, dispatched, locals>>

\* The recovery inspector looks at Moodle.  It reports a submission only when
\* it sees one, reports none when the page cannot be opened, and may raise.
Inspect(r) ==
    /\ pc[r] = "inspect"
    /\ \/ remote[Target(act[r])] = "submitted" /\ Goto(r, "recover")
       \/ Goto(r, "consume")
       \/ Goto(r, "release")
    /\ UNCHANGED <<tables, world, active, dispatched, locals>>

\* The submission is already there: spend the grant without submitting.
Recover(r) ==
    /\ pc[r] = "recover"
    /\ grant' = [grant EXCEPT ![act[r]] = "CONSUMED"]
    /\ SetAction(act[r], "SUCCEEDED")
    /\ Goto(r, "release")
    /\ UNCHANGED <<plan, approval, world, active, dispatched, locals>>

\* The grant is spent and the action starts executing, in one transaction.
Consume(r) ==
    /\ pc[r] = "consume"
    /\ grant' = [grant EXCEPT ![act[r]] = "CONSUMED"]
    /\ SetAction(act[r], "EXECUTING")
    /\ Goto(r, "verify")
    /\ UNCHANGED <<plan, approval, world, active, dispatched, locals>>

-----------------------------------------------------------------------------
(* LMSService.execute_approved_submission and, from "precheck" on,         *)
(* MoodleProvider.submit_final_assignment                                  *)

Finish(r, res) ==
    /\ result' = [result EXCEPT ![r] = res]
    /\ Goto(r, "finish")

VerifyFiles(r) ==
    /\ pc[r] = "verify"
    /\ Intact(action[act[r]].plan)
    /\ Goto(r, "precheck")
    /\ UNCHANGED <<tables, world, active, dispatched, locals>>

\* A modified file invalidates the action; nothing is submitted.
RejectFiles(r) ==
    /\ pc[r] = "verify"
    /\ ~Intact(action[act[r]].plan)
    /\ Invalidate(act[r])
    /\ Finish(r, "failed")
    /\ UNCHANGED <<plan, grant, world, active, dispatched, act, req, since>>

\* Inspects the page once more; a submission it sees is a success.  Moodle
\* offers the submit control on the page of a draft only.  A session or page
\* that fails, or a page without the control, is uncertain; an exception makes
\* the execution fail.
Precheck(r) ==
    /\ pc[r] = "precheck"
    /\ \/ /\ remote[Target(act[r])] = "submitted"
          /\ Goto(r, "submitted")
          /\ UNCHANGED result
       \/ /\ remote[Target(act[r])] = "draft"
          /\ Goto(r, "click")
          /\ UNCHANGED result
       \/ \E res \in {"uncertain", "failed"} : Finish(r, res)
    /\ UNCHANGED <<tables, world, active, dispatched, act, req, since>>

\* A click reaches Moodle or not, and may raise in either case.  Without a
\* `pinchtab' client the code clicks nothing and goes on.
Click(r) ==
    /\ pc[r] = "click"
    /\ IF ClickBridge
       THEN /\ dispatched' = [dispatched EXCEPT ![act[r]] = @ + 1]
            /\ \/ remote' = [remote EXCEPT ![Target(act[r])] = "submitted"]
               \/ UNCHANGED remote
            /\ \/ Goto(r, "confirm") /\ UNCHANGED result
               \/ Finish(r, "failed")
       ELSE Goto(r, "evidence") /\ UNCHANGED <<dispatched, remote, result>>
    /\ UNCHANGED <<tables, now, vault, crashes, active, act, req, since>>

\* The confirmation page, if one appears, is clicked as well.
Confirm(r) ==
    /\ pc[r] = "confirm"
    /\ \/ remote' = [remote EXCEPT ![Target(act[r])] = "submitted"]
       \/ UNCHANGED remote
    /\ \/ Goto(r, "evidence") /\ UNCHANGED result
       \/ Finish(r, "failed")
    /\ UNCHANGED <<tables, now, vault, crashes, active, dispatched, act, req, since>>

\* Success only on positive proof; a page that does not show it is reported
\* as "dispatched, but could not be verified".
Evidence(r) ==
    /\ pc[r] = "evidence"
    /\ \/ /\ remote[Target(act[r])] = "submitted"
          /\ Goto(r, "submitted")
          /\ UNCHANGED result
       \/ \E res \in {"unverified", "uncertain", "failed"} : Finish(r, res)
    /\ UNCHANGED <<tables, world, active, dispatched, act, req, since>>

MarkSubmitted(r) ==
    /\ pc[r] = "submitted"
    /\ plan' = [plan EXCEPT ![action[act[r]].plan].state = "SUBMITTED"]
    /\ Finish(r, "verified")
    /\ UNCHANGED <<action, approval, grant, world, active, dispatched, act, req, since>>

-----------------------------------------------------------------------------
(* execute_action: post-execution persistence and the finally block        *)

FinalState(a, res) ==
    CASE action[a].state = "INVALIDATED"       -> "INVALIDATED"
      [] action[a].state # "INVALIDATED" /\ res = "verified" -> "SUCCEEDED"
      [] action[a].state # "INVALIDATED" /\ res \in {"unverified", "uncertain"} -> "UNCERTAIN"
      [] OTHER                                 -> "FAILED"

PersistOutcome(r) ==
    /\ pc[r] = "finish"
    /\ SetAction(act[r], FinalState(act[r], result[r]))
    /\ Goto(r, "release")
    /\ UNCHANGED <<plan, approval, grant, world, active, dispatched, locals>>

Release(r) ==
    /\ pc[r] = "release"
    /\ active' = active \ {act[r]}
    /\ Return(r)
    /\ UNCHANGED <<tables, world, dispatched>>

-----------------------------------------------------------------------------
\* A restart keeps the tables and Moodle, and loses threads and the lock.
Crash ==
    /\ crashes < MaxCrashes
    /\ crashes' = crashes + 1
    /\ active' = {}
    /\ pc' = [r \in Threads |-> "idle"]
    /\ act' = [r \in Threads |-> NoAction]
    /\ req' = [r \in Threads |-> NoPlan]
    /\ since' = [r \in Threads |-> 0]
    /\ result' = [r \in Threads |-> "none"]
    /\ UNCHANGED <<tables, now, vault, remote, dispatched>>

RequestStep(r) ==
    \/ DropPlan(r) \/ DedupeHit(r) \/ DedupeMiss(r)
    \/ CreateAction(r) \/ NoIdentifierLeft(r)
    \/ ApproveCommit(r) \/ ApproveRollback(r) \/ DenyCommit(r)

ExecutionStep(r) ==
    \/ Claim(r) \/ ClaimRefused(r) \/ Load(r) \/ ExpireAction(r) \/ ReadGrant(r)
    \/ Inspect(r) \/ Recover(r) \/ Consume(r)
    \/ VerifyFiles(r) \/ RejectFiles(r) \/ Precheck(r) \/ Click(r) \/ Confirm(r)
    \/ Evidence(r) \/ MarkSubmitted(r) \/ PersistOutcome(r) \/ Release(r)

NewRequest(r) ==
    \/ \E p \in Plans : PreparePlan(r, p) \/ SubmitAssignment(r, p)
    \/ \E a \in Actions : ApproveRead(r, a) \/ DenyRead(r, a)

Next ==
    \/ Tick \/ EditVault \/ Crash
    \/ \E r \in Threads : NewRequest(r) \/ RequestStep(r) \/ ExecutionStep(r)

Spec == Init /\ [][Next]_vars

\* A thread that started a request keeps running unless the server stops;
\* time passes.
Running == (\A r \in Threads : WF_vars(RequestStep(r) \/ ExecutionStep(r))) /\ WF_vars(Tick)

\* The owner of an approved action keeps retrying the approve call.
Retrying == \A a \in Actions : SF_vars(\E r \in Threads : ApproveRead(r, a))

FairSpec == Spec /\ Running /\ Retrying

-----------------------------------------------------------------------------
(* Properties                                                              *)

InFlight(r) == pc[r] \in FlightSteps

TypeOK ==
    /\ now \in 0..MaxTime
    /\ vault \in Versions
    /\ plan \in [Plans -> [state : PlanStates, files : Versions, expires : Nat]]
    /\ action \in [Actions -> [state : ActionStates, plan : Plans \cup {NoPlan},
                               expires : Nat]]
    /\ approval \in [Actions -> ApprovalStates]
    /\ grant \in [Actions -> GrantStates]
    /\ active \in SUBSET (Actions \cup {NoAction})
    /\ remote \in [Targets -> {"draft", "submitted"}]
    /\ dispatched \in [Actions -> Nat]
    /\ pc \in [Threads -> Steps]
    /\ act \in [Threads -> Actions \cup {NoAction}]
    /\ req \in [Threads -> Plans \cup {NoPlan}]
    /\ since \in [Threads -> 0..MaxTime]
    /\ result \in [Threads -> Results]
    /\ crashes \in 0..MaxCrashes

\* The two tables agree on what is still waiting for the owner: an action is
\* APPROVAL_REQUIRED exactly while its approval is PENDING, whatever requests
\* overlap and wherever the server stops.
PendingTogether ==
    \A a \in Actions : action[a].state = "APPROVAL_REQUIRED" <=> approval[a] = "PENDING"

\* Single flight: the threads inside execute_action work on distinct actions
\* and each of them holds its entry of ACTIVE_EXECUTIONS.
SingleFlight ==
    /\ \A r \in Threads : InFlight(r) => act[r] \in active
    /\ \A r, s \in Threads : InFlight(r) /\ InFlight(s) /\ act[r] = act[s] => r = s

\* An action that may still be executed holds an unused grant: no approval,
\* retry or race of approvals puts an action whose grant is spent back to
\* APPROVED.
ApprovedIsFresh ==
    \A a \in Actions : action[a].state = "APPROVED" => grant[a] = "FRESH"

\* The final submit is clicked at most once per action: over retries of the
\* approve call, concurrent approvals and restarts at any step.
AtMostOneDispatch == \A a \in Actions : dispatched[a] <= 1

\* Nothing is submitted under a grant that is not spent.
DispatchSpendsGrant == \A a \in Actions : dispatched[a] > 0 => grant[a] = "CONSUMED"

\* The inductive form of the above: which grant the action of a thread has at
\* each step.  An execution carries a fresh grant from the load of the approved
\* action to the transaction that spends it, because only the holder of the
\* flight entry spends it, and clicks after that transaction only.
HandlesAction(r) == InFlight(r) \/ pc[r] \in {"approve", "claim", "deny"}

FreshSteps  == EntrySteps \ {"load"}
BeforeClick == {"verify", "precheck", "click"}

GrantDiscipline ==
    /\ \A r \in Threads : HandlesAction(r) => act[r] \in Actions
    /\ SingleFlight
    /\ ApprovedIsFresh
    /\ \A r \in Threads : pc[r] \in FreshSteps => grant[act[r]] = "FRESH"
    /\ \A r \in Threads : pc[r] \in PipelineSteps => grant[act[r]] = "CONSUMED"
    /\ \A r \in Threads : pc[r] \in BeforeClick => dispatched[act[r]] = 0
    /\ DispatchSpendsGrant
    /\ AtMostOneDispatch

\* An action that ends INVALIDATED (expired, or a vault file changed) has
\* submitted nothing.
InvalidatedSubmitsNothing ==
    \A a \in Actions : action[a].state = "INVALIDATED" => dispatched[a] = 0

\* Positive proof: SUCCEEDED is recorded only for an assignment Moodle holds
\* as submitted, and so is SUBMITTED for a plan.
SuccessIsProven ==
    /\ \A a \in Actions : action[a].state = "SUCCEEDED" => remote[Target(a)] = "submitted"
    /\ \A p \in Plans : plan[p].state = "SUBMITTED" => remote[TargetOf[p]] = "submitted"

\* Once Moodle holds the submission and no click is under way for it, no later
\* request, second approval, retry or restart clicks for that assignment again.
Settled(t) ==
    /\ remote[t] = "submitted"
    /\ \A r \in Threads : pc[r] = "click" => Target(act[r]) # t

SettledStays == [][\A t \in Targets : Settled(t) => Settled(t)']_vars

\* The detailed handlers implement the abstract authority.
AuthorityOf(g) == CASE g = "ABSENT" -> "none" [] g = "FRESH" -> "issued" [] OTHER -> "spent"

Authority == INSTANCE SingleUseAuthority
                 WITH authority <- [a \in Actions |-> AuthorityOf(grant[a])],
                      effects   <- dispatched

\* Each grant is issued, spent and used at most once and in that order, in
\* every interleaving of the handlers.
ImplementsAuthority == Authority!Spec

\* Liveness: an execution that started is recorded with an outcome.
ExecutionResolves ==
    \A a \in Actions : action[a].state = "EXECUTING" ~> action[a].state # "EXECUTING"

\* Liveness: an approved action does not wait forever: retries execute it,
\* find it submitted, or run into its expiry (when the bounded clock gets there).
ApprovedIsDecided ==
    \A a \in Actions : action[a].state = "APPROVED" /\ action[a].expires < MaxTime
                          ~> action[a].state # "APPROVED"

\* Crash recovery: an execution cut off by a restart after its submission
\* reached Moodle becomes SUCCEEDED when the owner retries.
InterruptedIsRecovered ==
    \A a \in Actions :
        action[a].state = "EXECUTING" /\ a \notin active /\ remote[Target(a)] = "submitted"
            ~> action[a].state = "SUCCEEDED"

\* Deduplication: at most one pending request per plan and files.
AtMostOnePending ==
    \A a, b \in Actions :
        /\ action[a].state = "APPROVAL_REQUIRED" /\ action[b].state = "APPROVAL_REQUIRED"
        /\ action[a].plan = action[b].plan
        => a = b

\* A denial is final: the state diagram has no edge that leaves DENIED, and
\* approve_action refuses a request that "was already denied".
DenialIsFinal ==
    [][\A a \in Actions : approval[a] = "DENIED" => approval'[a] = "DENIED"]_vars

\* The outcome "Submission was dispatched, but post-submission confirmation
\* status could not be verified" is returned only after a click.
ReportedDispatchHappened ==
    \A r \in Threads : result[r] = "unverified" => dispatched[act[r]] > 0
=============================================================================

-------------------------- MODULE OnboardingWizard --------------------------
(* The Academic Accounts tab as an administrator works with it: the view it  *)
(* shows and the 11-step wizard that enrols a student (static/js/            *)
(* accounts.js), against the accounts of the server.                         *)
(*                                                                           *)
(* The wizard keeps its step and its student in variables of the page; the   *)
(* modal is painted from them and is gone when the pane under it is painted. *)
(* Its requests do not know which wizard they were made for: Cancel, Back    *)
(* and a new wizard are open while they are under way.                       *)
(*                                                                           *)
(* The list of students and the inspection of one of them are loads of their *)
(* own and are left out, as is what the steps without a request display; no  *)
(* other administrator removes accounts meanwhile.  The login test of the    *)
(* fifth step calls an address the server does not have.                     *)
EXTENDS Naturals, Sequences, SequencesExt

CONSTANTS
    Admins,
    Students,    \* the user ids that are typed in or sign in
    NoUser,
    MaxCalls     \* bound on the requests under way together

ASSUME WizardAssumption ==
    /\ NoUser \notin Admins \cup Students
    /\ Admins \cap Students = {}
    /\ MaxCalls \in Nat \ {0}

VARIABLES
    accounts,   \* the students the server knows
    who,        \* the user who is signed in
    here,       \* the accounts tab is the active one
    pane,       \* what accountsContent shows
    wizard,     \* currentWizardStep and wizardStudentData.user_id
    modal,      \* what the modal shows
    calls,      \* the requests under way
    torn        \* a wizard was opened, or a student submitted, while an
                \* earlier request of a wizard was under way

vars == <<accounts, who, here, pane, wizard, modal, calls, torn>>

TotalSteps == 11
Steps == 1 .. TotalSteps
MaybeStudent == Students \cup {NoUser}
MaybeUser == Admins \cup MaybeStudent

(* `on' says whether the elements the request has kept hold of are on screen. *)
Calls == [kind : {"status", "create", "credentials", "save", "verify", "reconcile"},
          student : MaybeUser, on : BOOLEAN, answer : {"none", "ok", "failed"}]
Request(kind, student) == [kind |-> kind, student |-> student, on |-> TRUE, answer |-> "none"]

Closed == [open |-> FALSE, step |-> 1, student |-> NoUser, tiles |-> NoUser, out |-> NoUser]

Detached(cs) == [i \in DOMAIN cs |-> [cs[i] EXCEPT !.on = FALSE]]

OfWizard(cs) == {i \in DOMAIN cs : cs[i].kind \in {"create", "credentials", "verify"}}

isAdmin == who' \in Admins

-----------------------------------------------------------------------------
(* renderWizardModal, with the requests cs that stay under way: there is a   *)
(* place for the modal in the governance view only.                          *)
renderWizardModal(cs) ==
    IF pane = "governance"
      THEN /\ modal' = [Closed EXCEPT !.open = TRUE, !.step = wizard'.step,
                                      !.student = wizard'.student]
           /\ calls' = Detached(cs)
      ELSE UNCHANGED modal /\ calls' = cs

(* closeAddAccountWizard empties the place of the modal. *)
closeWizard(cs) == modal' = Closed /\ calls' = Detached(cs)

-----------------------------------------------------------------------------
(* Variants that stand for plausible slips in the code; no behaviour uses    *)
(* them.                                                                     *)

Slip_KeepWhileLoading(cs) ==
    /\ calls' = Append(cs, Request("status", NoUser))
    /\ UNCHANGED <<pane, modal>>

Slip_AdvanceOnAnyAnswer(c) == c.answer # "none"

Slip_OutputLookedUp(c) ==
    IF modal.open /\ modal.step = 8 THEN [modal EXCEPT !.out = c.student] ELSE modal

Slip_AdvanceOneLate(cs) ==
    IF wizard.step > TotalSteps
      THEN closeWizard(cs) /\ UNCHANGED wizard
      ELSE wizard' = [wizard EXCEPT !.step = @ + 1] /\ renderWizardModal(cs)

-----------------------------------------------------------------------------
(* loadAccounts up to its request *)
loadAccounts(cs) ==
    /\ pane' = "notice" /\ modal' = Closed
    /\ calls' = Append(Detached(cs), Request("status", NoUser))

(* renderAccounts: the view is chosen by who is signed in when the answer    *)
(* lands.                                                                    *)
renderAccounts(cs) ==
    /\ pane' = IF isAdmin THEN "governance" ELSE "student"
    /\ modal' = Closed
    /\ calls' = Detached(cs)

Room == Len(calls) < MaxCalls

(* A click into the modal, which covers the page while its tab is shown.     *)
InModal(step) == here /\ who # NoUser /\ modal.open /\ wizard.step = step

Free(kind) == \A i \in DOMAIN calls : ~(calls[i].kind = kind /\ calls[i].on)

-----------------------------------------------------------------------------
openAddAccountWizard ==
    /\ here /\ who # NoUser /\ pane = "governance" /\ ~modal.open
    /\ wizard' = [step |-> 1, student |-> NoUser]
    /\ renderWizardModal(calls)
    /\ torn' = (OfWizard(calls) # {})
    /\ UNCHANGED <<accounts, who, here, pane>>

closeAddAccountWizard ==
    /\ here /\ who # NoUser /\ modal.open
    /\ closeWizard(calls)
    /\ UNCHANGED <<accounts, who, here, pane, wizard, torn>>

(* wizardNext on the first step: Next is disabled while the server creates   *)
(* the account, Cancel is not.                                               *)
SubmitStudent(s) ==
    /\ InModal(1) /\ Free("create") /\ Room
    /\ wizard' = [wizard EXCEPT !.student = s]
    /\ calls' = Append(calls, Request("create", s))
    /\ torn' = (torn \/ OfWizard(calls) # {})
    /\ UNCHANGED <<accounts, who, here, pane, modal>>

(* admin_manage_users: an id that is taken, and one that does not pass, is   *)
(* refused; the answer may be lost either way.                               *)
ServeCreate(i) ==
    /\ i \in DOMAIN calls /\ calls[i].kind = "create" /\ calls[i].answer = "none"
    /\ \/ /\ calls[i].student \notin accounts
          /\ accounts' = accounts \cup {calls[i].student}
          /\ \E a \in {"ok", "failed"} : calls' = [calls EXCEPT ![i].answer = a]
       \/ calls' = [calls EXCEPT ![i].answer = "failed"] /\ UNCHANGED accounts
    /\ UNCHANGED <<who, here, pane, wizard, modal, torn>>

Succeeded(c) == c.answer = "ok"

(* The rest of wizardNext for the first step; a failure enables Next again.  *)
CreateAnswered(i) ==
    /\ i \in DOMAIN calls /\ calls[i].kind = "create" /\ calls[i].answer # "none"
    /\ IF Succeeded(calls[i])
         THEN /\ wizard' = [wizard EXCEPT !.step = 2]
              /\ renderWizardModal(RemoveAt(calls, i))
         ELSE calls' = RemoveAt(calls, i) /\ UNCHANGED <<wizard, modal>>
    /\ UNCHANGED <<accounts, who, here, pane, torn>>

(* wizardNext when no request is due, or when it is done.                    *)
Advance(cs) ==
    IF wizard.step >= TotalSteps
      THEN closeWizard(cs) /\ UNCHANGED wizard
      ELSE wizard' = [wizard EXCEPT !.step = @ + 1] /\ renderWizardModal(cs)

wizardNext ==
    /\ \E k \in Steps \ {1} : InModal(k)
    /\ Advance(calls)
    /\ UNCHANGED <<accounts, who, here, pane, torn>>

(* What a step writes into its output, which it holds from the start.        *)
Output(c) == IF c.on THEN [modal EXCEPT !.out = c.student] ELSE modal

(* wizardNext on the fifth step with the portal's credentials filled in:     *)
(* they are saved first, and nothing is disabled meanwhile.                  *)
SaveCredentials ==
    /\ InModal(5) /\ Room
    /\ calls' = Append(calls, Request("credentials", wizard.student))
    /\ UNCHANGED <<accounts, who, here, pane, wizard, modal, torn>>

(* It goes on whatever came back, from the step it finds.                    *)
CredentialsAnswered(i) ==
    /\ i \in DOMAIN calls /\ calls[i].kind = "credentials"
    /\ Advance(RemoveAt(calls, i))
    /\ UNCHANGED <<accounts, who, here, pane, torn>>

(* handleWizardSaveUpes: the endpoint stores the credentials for whoever is   *)
(* signed in, and not for the student of the wizard.                         *)
SaveUpes ==
    /\ InModal(5) /\ Room
    /\ calls' = Append(calls, Request("save", who))
    /\ UNCHANGED <<accounts, who, here, pane, wizard, modal, torn>>

UpesSaved(i) ==
    /\ i \in DOMAIN calls /\ calls[i].kind = "save"
    /\ modal' \in {modal, Output(calls[i])}
    /\ calls' = RemoveAt(calls, i)
    /\ UNCHANGED <<accounts, who, here, pane, wizard, torn>>

(* Back is disabled on the first step. *)
wizardPrev ==
    /\ \E k \in Steps \ {1} : InModal(k)
    /\ wizard' = [wizard EXCEPT !.step = @ - 1]
    /\ renderWizardModal(calls)
    /\ UNCHANGED <<accounts, who, here, pane, torn>>

(* handleWizardVerifyAcademicData finds its tiles when the answer is there.  *)
VerifyAcademicData ==
    /\ InModal(6) /\ Free("verify") /\ Room
    /\ calls' = Append(calls, Request("verify", wizard.student))
    /\ UNCHANGED <<accounts, who, here, pane, wizard, modal, torn>>

VerifyAnswered(i) ==
    /\ i \in DOMAIN calls /\ calls[i].kind = "verify"
    /\ modal' \in {modal, IF modal.open /\ modal.step = 6
                            THEN [modal EXCEPT !.tiles = calls[i].student] ELSE modal}
    /\ calls' = RemoveAt(calls, i)
    /\ UNCHANGED <<accounts, who, here, pane, wizard, torn>>

(* handleWizardRunCalendarSync *)
RunCalendarSync ==
    /\ InModal(8) /\ Free("reconcile") /\ Room
    /\ calls' = Append(calls, Request("reconcile", wizard.student))
    /\ UNCHANGED <<accounts, who, here, pane, wizard, modal, torn>>

CalendarSyncAnswered(i) ==
    /\ i \in DOMAIN calls /\ calls[i].kind = "reconcile"
    /\ modal' = Output(calls[i])
    /\ calls' = RemoveAt(calls, i)
    /\ UNCHANGED <<accounts, who, here, pane, wizard, torn>>

-----------------------------------------------------------------------------
(* The tab is opened or opened again, or another one is. *)
ShowAccounts ==
    /\ who # NoUser /\ Room /\ ~(here /\ modal.open)
    /\ here' = TRUE
    /\ loadAccounts(calls)
    /\ UNCHANGED <<accounts, who, wizard, torn>>

LeaveAccounts ==
    /\ here /\ who # NoUser /\ ~modal.open
    /\ here' = FALSE
    /\ UNCHANGED <<accounts, who, pane, wizard, modal, calls, torn>>

StatusAnswered(i) ==
    /\ i \in DOMAIN calls /\ calls[i].kind = "status"
    /\ UNCHANGED who
    /\ \/ renderAccounts(RemoveAt(calls, i))
       \/ pane' = "notice" /\ modal' = Closed /\ calls' = Detached(RemoveAt(calls, i))
    /\ UNCHANGED <<accounts, here, wizard, torn>>

(* A sign-in opens the active tab again; the session may end at any time,    *)
(* with the modal open too.                                                  *)
SignIn(u) ==
    /\ who = NoUser /\ Room
    /\ u \in Admins \cup accounts
    /\ who' = u
    /\ IF here THEN loadAccounts(calls) ELSE UNCHANGED <<pane, modal, calls>>
    /\ UNCHANGED <<accounts, here, wizard, torn>>

SignOut ==
    /\ who # NoUser
    /\ who' = NoUser
    /\ UNCHANGED <<accounts, here, pane, wizard, modal, calls, torn>>

Init ==
    /\ accounts \in SUBSET Students
    /\ who = NoUser /\ here \in BOOLEAN
    /\ pane = "notice"
    /\ wizard = [step |-> 1, student |-> NoUser]
    /\ modal = Closed
    /\ calls = << >>
    /\ torn = FALSE

Answered(i) ==
    \/ CreateAnswered(i) \/ CredentialsAnswered(i) \/ UpesSaved(i) \/ VerifyAnswered(i)
    \/ CalendarSyncAnswered(i) \/ StatusAnswered(i)

Next ==
    \/ openAddAccountWizard \/ closeAddAccountWizard
    \/ \E s \in Students : SubmitStudent(s)
    \/ wizardNext \/ wizardPrev
    \/ SaveCredentials \/ SaveUpes \/ VerifyAcademicData \/ RunCalendarSync
    \/ \E i \in DOMAIN calls : ServeCreate(i) \/ Answered(i)
    \/ ShowAccounts \/ LeaveAccounts
    \/ \E u \in Admins \cup Students : SignIn(u)
    \/ SignOut

Spec == Init /\ [][Next]_vars

-----------------------------------------------------------------------------
(* Every variable has its type; the wizard stays on one of its steps, and    *)
(* the modal shows the step the wizard is on.                                *)
TypeOK ==
    /\ accounts \subseteq Students
    /\ who \in MaybeUser /\ here \in BOOLEAN /\ torn \in BOOLEAN
    /\ pane \in {"notice", "governance", "student"}
    /\ wizard \in [step : Steps, student : MaybeStudent]
    /\ modal \in [open : BOOLEAN, step : Steps, student : MaybeStudent,
                  tiles : MaybeStudent, out : MaybeUser]
    /\ modal.open => modal.step = wizard.step
    /\ calls \in Seq(Calls)

(* From the second step on the wizard shows a student whose account exists,  *)
(* as its third step says ("CONFIRMED IN SQLITE"), unless requests of two    *)
(* rounds overlapped (wizardNext waits for the server before it advances).   *)
EnrolledIsShown ==
    modal.open /\ modal.step > 1 /\ ~torn => modal.student \in accounts

(* What the modal reports is about the student it shows: the outcome of a    *)
(* reconciliation always, the academic records unless requests of two rounds *)
(* overlapped.  Not so the fifth step: what it reports as saved was saved    *)
(* for the administrator (configure_upes_credentials).                       *)
ReportsAreTheStudents ==
    /\ modal.out \in {NoUser} \cup IF modal.step = 5 THEN Admins ELSE {modal.student}
    /\ ~torn => modal.tiles \in {NoUser, modal.student}

(* The wizard is on the screen of administrators only: also when a student   *)
(* signs in over it, or an answer to the administrator lands after that      *)
(* (renderAccounts asks who is signed in when it paints).                    *)
WizardForAdmins ==
    here /\ who # NoUser /\ modal.open => who \in Admins

=============================================================================

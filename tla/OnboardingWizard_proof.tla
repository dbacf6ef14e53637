----------------------- MODULE OnboardingWizard_proof -----------------------
(* What the onboarding wizard shows, for any administrators and students and *)
(* however many of its requests are under way.                               *)
(*                                                                           *)
(* The properties speak of the screen; the reason why they hold is in the    *)
(* requests.  While `torn' is false every request of a wizard is about the   *)
(* student the wizard is about, and one that was answered, or made from a    *)
(* later step, about a student who has an account.  And a request that still *)
(* holds an output is about the modal that is on the screen, because         *)
(* painting the modal detaches all of them.                                  *)
EXTENDS OnboardingWizard, SequenceTheorems, TLAPS

-----------------------------------------------------------------------------
(* The inductive invariant *)

RoundKinds == {"create", "credentials", "verify"}

(* What is created is a student, and is there once that is answered; what is *)
(* verified is the student of a wizard.                                      *)
Named(c, acc) ==
    /\ c.kind = "create" => c.student \in Students
    /\ c.kind = "create" /\ c.answer = "ok" => c.student \in acc
    /\ c.kind = "verify" => c.student \in MaybeStudent

(* A request of the round is about its student. *)
InRound(c, acc, wz, tn) ==
    /\ ~tn /\ c.kind \in RoundKinds => c.student = wz.student
    /\ ~tn /\ c.kind = "credentials" => c.student \in acc

(* A request that holds an output belongs to the modal on the screen. *)
Held(c, md) ==
    /\ c.on /\ c.kind = "reconcile" => md.open /\ md.step = 8 /\ c.student = md.student
    /\ c.on /\ c.kind = "save" => md.open /\ md.step = 5 /\ c.student \in Admins

CallsOK ==
    \A i \in DOMAIN calls :
        /\ Named(calls[i], accounts)
        /\ InRound(calls[i], accounts, wizard, torn)
        /\ Held(calls[i], modal)

(* The modal is in the governance view and shows the student of the wizard,  *)
(* and that view is on the screen of administrators only.                    *)
Screen ==
    /\ modal.open => pane = "governance" /\ (modal.step > 1 => modal.student = wizard.student)
    /\ here /\ who # NoUser /\ pane = "governance" => who \in Admins

Enrolled == ~torn /\ wizard.step > 1 => wizard.student \in accounts

IInv == TypeOK /\ Screen /\ Enrolled /\ ReportsAreTheStudents /\ CallsOK

WizardType == [step : Steps, student : MaybeStudent]
ModalType == [open : BOOLEAN, step : Steps, student : MaybeStudent,
              tiles : MaybeStudent, out : MaybeUser]

-----------------------------------------------------------------------------
(* Sequences of requests *)

(* What is in a sequence after a removal was in it before. *)
LEMMA RemoveAtElements ==
    ASSUME NEW S, NEW s \in Seq(S), NEW i \in DOMAIN s
    PROVE  /\ RemoveAt(s, i) \in Seq(S)
           /\ \A j \in DOMAIN RemoveAt(s, i) : \E k \in DOMAIN s : RemoveAt(s, i)[j] = s[k]
<1>1. i \in 1 .. Len(s) /\ Len(s) \in Nat
  OBVIOUS
<1> DEFINE a == SubSeq(s, 1, i - 1)
           b == SubSeq(s, i + 1, Len(s))
<1>2. a \in Seq(S) /\ Len(a) = i - 1 /\ \A j \in 1 .. i - 1 : a[j] = s[j]
  BY <1>1
<1>3. b \in Seq(S) /\ Len(b) = Len(s) - i /\ \A j \in 1 .. Len(s) - i : b[j] = s[i + j]
  BY <1>1
<1>4. RemoveAt(s, i) = a \o b
  BY DEF RemoveAt
<1> HIDE DEF a, b
<1>5. a \o b \in Seq(S) /\ Len(a \o b) = Len(s) - 1
  BY <1>1, <1>2, <1>3
<1>6. \A j \in 1 .. Len(s) - 1 : (a \o b)[j] = IF j <= i - 1 THEN a[j] ELSE b[j - (i - 1)]
  <2>1. \A j \in 1 .. Len(a) + Len(b) : (a \o b)[j] = IF j <= Len(a) THEN a[j] ELSE b[j - Len(a)]
    BY <1>2, <1>3, ConcatProperties
  <2>2. Len(a) = i - 1 /\ Len(a) + Len(b) = Len(s) - 1
    BY <1>1, <1>2, <1>3
  <2> QED BY <2>1, <2>2
<1>7. ASSUME NEW j \in 1 .. Len(s) - 1
      PROVE  \E k \in 1 .. Len(s) : (a \o b)[j] = s[k]
  <2>1. CASE j <= i - 1
    <3>1. j \in 1 .. i - 1 /\ j \in 1 .. Len(s)
      BY <1>1, <2>1
    <3> QED BY <1>2, <1>6, <2>1, <3>1
  <2>2. CASE ~(j <= i - 1)
    <3> DEFINE m == j - (i - 1)
    <3>1. m \in 1 .. Len(s) - i /\ i + m \in 1 .. Len(s)
      BY <1>1, <2>2
    <3>2. (a \o b)[j] = b[m]
      BY <1>6, <2>2
    <3>3. b[m] = s[i + m]
      BY <1>3, <3>1
    <3> QED BY <3>1, <3>2, <3>3
  <2> QED BY <2>1, <2>2
<1>8. DOMAIN (a \o b) = 1 .. Len(s) - 1 /\ DOMAIN s = 1 .. Len(s)
  BY <1>5
<1> QED BY <1>4, <1>5, <1>7, <1>8

(* The request d is the request c, which may have lost its elements.         *)
Copy(d, c) == d.kind = c.kind /\ d.student = c.student /\ d.answer = c.answer /\ (d.on => c.on)

(* Every request of cs is one that is under way. *)
Drawn(cs) ==
    /\ cs \in Seq(Calls)
    /\ \A j \in DOMAIN cs : \E k \in DOMAIN calls : Copy(cs[j], calls[k])

(* The requests under way, and what is left of them after a removal *)
LEMMA CallsDrawn == ASSUME TypeOK PROVE Drawn(calls)
BY DEF TypeOK, Drawn, Copy

(* The same after one of them is answered *)
LEMMA RemovedDrawn ==
    ASSUME TypeOK, NEW i \in DOMAIN calls PROVE Drawn(RemoveAt(calls, i))
<1>1. calls \in Seq(Calls)
  BY DEF TypeOK
<1>2. /\ RemoveAt(calls, i) \in Seq(Calls)
      /\ \A j \in DOMAIN RemoveAt(calls, i) :
             \E k \in DOMAIN calls : RemoveAt(calls, i)[j] = calls[k]
  BY <1>1, RemoveAtElements
<1> QED BY <1>2 DEF Drawn, Copy

(* A request that loses its elements *)
LEMMA Off ==
    ASSUME NEW c \in Calls
    PROVE  /\ [c EXCEPT !.on = FALSE] \in Calls
           /\ Copy([c EXCEPT !.on = FALSE], c)
           /\ [c EXCEPT !.on = FALSE].on = FALSE
BY DEF Calls, Copy

(* Detached requests are under way still, and hold nothing. *)
LEMMA DetachedDrawn ==
    ASSUME NEW cs, Drawn(cs)
    PROVE  /\ Detached(cs) \in Seq(Calls) /\ DOMAIN Detached(cs) = DOMAIN cs
           /\ \A j \in DOMAIN cs : Copy(Detached(cs)[j], cs[j]) /\ ~Detached(cs)[j].on
<1>1. cs \in Seq(Calls)
  BY DEF Drawn
<1>2. ASSUME NEW j \in DOMAIN cs
      PROVE  /\ Detached(cs)[j] \in Calls
             /\ Copy(Detached(cs)[j], cs[j]) /\ ~Detached(cs)[j].on
  <2>1. cs[j] \in Calls /\ Detached(cs)[j] = [cs[j] EXCEPT !.on = FALSE]
    BY <1>1 DEF Detached
  <2> QED BY <2>1, Off
<1>3. DOMAIN Detached(cs) = DOMAIN cs /\ DOMAIN cs = 1 .. Len(cs) /\ Len(cs) \in Nat
  BY <1>1 DEF Detached
<1>4. Detached(cs) \in Seq(Calls)
  BY <1>2, <1>3 DEF Detached
<1> QED BY <1>2, <1>3, <1>4

-----------------------------------------------------------------------------
(* What a step does to the requests *)

(* The requests cs are in the round the wizard is in after the step. *)
RoundKept(cs) ==
    \A j \in DOMAIN cs : InRound(cs[j], accounts', wizard', torn')

(* A step that neither opens a wizard nor submits a student stays in the     *)
(* round.                                                                    *)
LEMMA RoundStays ==
    ASSUME IInv, NEW cs, Drawn(cs), accounts \subseteq accounts', torn' = torn,
           wizard'.student = wizard.student
    PROVE  RoundKept(cs)
<1> SUFFICES ASSUME NEW j \in DOMAIN cs PROVE InRound(cs[j], accounts', wizard', torn')
  BY DEF RoundKept
<1>1. PICK k \in DOMAIN calls : Copy(cs[j], calls[k])
  BY DEF Drawn
<1>2. InRound(calls[k], accounts, wizard, torn)
  BY DEF IInv, CallsOK
<1> QED BY <1>1, <1>2 DEF InRound, Copy

(* When the modal is painted, closed or gone no request holds an output. *)
LEMMA FreshModal ==
    ASSUME IInv, NEW cs, Drawn(cs), calls' = Detached(cs), UNCHANGED accounts,
           modal'.out = NoUser, modal'.tiles = NoUser, RoundKept(cs)
    PROVE  calls' \in Seq(Calls) /\ CallsOK' /\ ReportsAreTheStudents'
<1>1. /\ calls' \in Seq(Calls) /\ DOMAIN calls' = DOMAIN cs
      /\ \A j \in DOMAIN cs : Copy(calls'[j], cs[j]) /\ ~calls'[j].on
  BY DetachedDrawn
<1>2. ASSUME NEW j \in DOMAIN calls'
      PROVE  /\ Named(calls'[j], accounts')
             /\ InRound(calls'[j], accounts', wizard', torn')
             /\ Held(calls'[j], modal')
  <2>1. j \in DOMAIN cs /\ Copy(calls'[j], cs[j]) /\ ~calls'[j].on
    BY <1>1, <1>2
  <2>2. PICK k \in DOMAIN calls : Copy(cs[j], calls[k])
    BY <2>1 DEF Drawn
  <2>3. Named(calls'[j], accounts')
    BY <2>1, <2>2 DEF IInv, CallsOK, Named, Copy
  <2>4. InRound(calls'[j], accounts', wizard', torn')
    BY <2>1 DEF RoundKept, InRound, Copy
  <2>5. Held(calls'[j], modal')
    BY <2>1 DEF Held
  <2> QED BY <2>3, <2>4, <2>5
<1>3. CallsOK'
  BY <1>2 DEF CallsOK
<1>4. ReportsAreTheStudents'
  BY DEF ReportsAreTheStudents
<1> QED BY <1>1, <1>3, <1>4

(* When it is still the same modal, what it reports and what requests hold   *)
(* stays.                                                                    *)
LEMMA SameModal ==
    ASSUME IInv, NEW cs, Drawn(cs), calls' = cs, accounts \subseteq accounts',
           modal'.open = modal.open, modal'.step = modal.step, modal'.student = modal.student,
           RoundKept(cs)
    PROVE  calls' \in Seq(Calls) /\ CallsOK'
<1>1. calls' \in Seq(Calls)
  BY DEF Drawn
<1>2. ASSUME NEW j \in DOMAIN calls'
      PROVE  /\ Named(calls'[j], accounts')
             /\ InRound(calls'[j], accounts', wizard', torn')
             /\ Held(calls'[j], modal')
  <2>1. PICK k \in DOMAIN calls : Copy(calls'[j], calls[k])
    BY <1>2 DEF Drawn
  <2>2. Named(calls[k], accounts) /\ Held(calls[k], modal)
    BY <2>1 DEF IInv, CallsOK
  <2>3. Named(calls'[j], accounts')
    BY <2>1, <2>2 DEF Named, Copy
  <2>4. InRound(calls'[j], accounts', wizard', torn')
    BY <1>2 DEF RoundKept
  <2>5. Held(calls'[j], modal')
    BY <2>1, <2>2 DEF Held, Copy
  <2> QED BY <2>3, <2>4, <2>5
<1>3. CallsOK'
  BY <1>2 DEF CallsOK
<1> QED BY <1>1, <1>3

(* A request that is added *)
LEMMA Added ==
    ASSUME TypeOK, CallsOK, NEW c \in Calls,
           Named(c, accounts), InRound(c, accounts, wizard, torn), Held(c, modal),
           NEW cs, cs = Append(calls, c)
    PROVE  /\ cs \in Seq(Calls)
           /\ \A j \in DOMAIN cs :
                  /\ Named(cs[j], accounts)
                  /\ InRound(cs[j], accounts, wizard, torn)
                  /\ Held(cs[j], modal)
<1>1. calls \in Seq(Calls)
  BY DEF TypeOK
<1>2. cs \in Seq(Calls) /\ \A j \in DOMAIN cs : (j \in DOMAIN calls /\ cs[j] = calls[j]) \/ cs[j] = c
  BY <1>1
<1> QED BY <1>2 DEF CallsOK

(* Initially no modal is open and nothing is under way. *)
LEMMA InitHolds == Init => IInv
<1> SUFFICES ASSUME Init PROVE IInv
  OBVIOUS
<1>1. Closed \in ModalType /\ Closed.open = FALSE /\ Closed.out = NoUser /\ Closed.tiles = NoUser
  BY DEF Closed, ModalType, Steps, TotalSteps, MaybeStudent, MaybeUser
<1>2. wizard \in WizardType /\ wizard.step = 1
  BY DEF Init, WizardType, Steps, TotalSteps, MaybeStudent
<1>3. calls \in Seq(Calls) /\ DOMAIN calls = {}
  BY DEF Init
<1>4. TypeOK
  BY <1>1, <1>2, <1>3 DEF Init, TypeOK, MaybeUser, MaybeStudent, ModalType, WizardType
<1>5. Screen /\ Enrolled /\ ReportsAreTheStudents
  BY <1>1, <1>2 DEF Init, Screen, Enrolled, ReportsAreTheStudents
<1>6. CallsOK
  BY <1>3 DEF CallsOK
<1> QED BY <1>4, <1>5, <1>6 DEF IInv

-----------------------------------------------------------------------------
(* What a step does to the screen *)

(* The modal is gone, and no request holds an output: closing the wizard,    *)
(* and painting the view under it.                                           *)
LEMMA BlankKeeps ==
    ASSUME IInv, NEW cs, Drawn(cs), modal' = Closed, calls' = Detached(cs),
           UNCHANGED <<accounts, who, here, wizard, torn>>,
           pane' \in {"notice", "governance", "student"},
           here' /\ who' # NoUser /\ pane' = "governance" => who' \in Admins
    PROVE  IInv'
<1>1. Closed \in ModalType /\ Closed.open = FALSE /\ Closed.out = NoUser /\ Closed.tiles = NoUser
  BY DEF Closed, ModalType, Steps, TotalSteps, MaybeStudent, MaybeUser
<1>2. RoundKept(cs)
  BY RoundStays
<1>3. calls' \in Seq(Calls) /\ CallsOK' /\ ReportsAreTheStudents'
  BY <1>1, <1>2, FreshModal
<1>4. TypeOK'
  BY <1>1, <1>3 DEF IInv, TypeOK, ModalType
<1>5. Screen' /\ Enrolled'
  BY <1>1 DEF IInv, Screen, Enrolled
<1> QED BY <1>3, <1>4, <1>5 DEF IInv

(* The modal is painted for the wizard as the step leaves it; in another     *)
(* view than the governance one there is none, before and after.             *)
LEMMA RenderKeeps ==
    ASSUME IInv, NEW cs, Drawn(cs), renderWizardModal(cs),
           UNCHANGED <<accounts, who, here, pane>>, torn' \in BOOLEAN,
           wizard' \in WizardType, RoundKept(cs), Enrolled',
           pane = "governance" \/ torn' = torn
    PROVE  IInv'
<1>1. CASE pane = "governance"
  <2>1. /\ modal' \in ModalType /\ modal'.open = TRUE /\ modal'.step = wizard'.step
        /\ modal'.student = wizard'.student /\ modal'.tiles = NoUser /\ modal'.out = NoUser
    BY <1>1 DEF renderWizardModal, Closed, ModalType, WizardType, MaybeStudent, MaybeUser
  <2>2. calls' = Detached(cs)
    BY <1>1 DEF renderWizardModal
  <2>3. calls' \in Seq(Calls) /\ CallsOK' /\ ReportsAreTheStudents'
    BY <2>1, <2>2, FreshModal
  <2>4. TypeOK'
    BY <2>1, <2>3 DEF IInv, TypeOK, ModalType, WizardType
  <2>5. Screen'
    BY <1>1, <2>1 DEF IInv, Screen
  <2> QED BY <2>3, <2>4, <2>5 DEF IInv
<1>2. CASE pane # "governance"
  <2>1. modal' = modal /\ calls' = cs /\ ~modal.open /\ torn' = torn
    BY <1>2 DEF renderWizardModal, IInv, Screen
  <2>2. calls' \in Seq(Calls) /\ CallsOK'
    BY <2>1, SameModal
  <2>3. TypeOK'
    BY <2>1, <2>2 DEF IInv, TypeOK, WizardType
  <2>4. Screen' /\ ReportsAreTheStudents'
    BY <2>1 DEF IInv, Screen, ReportsAreTheStudents
  <2> QED BY <2>2, <2>3, <2>4 DEF IInv
<1> QED BY <1>1, <1>2

(* A request lands that tells the modal something, or nothing.               *)
LEMMA TellKeeps ==
    ASSUME IInv, NEW i \in DOMAIN calls, calls' = RemoveAt(calls, i),
           modal' \in ModalType, modal'.open = modal.open, modal'.step = modal.step,
           modal'.student = modal.student,
           UNCHANGED <<accounts, who, here, pane, wizard, torn>>, ReportsAreTheStudents'
    PROVE  IInv'
<1>1. Drawn(calls')
  BY RemovedDrawn DEF IInv
<1>2. RoundKept(calls')
  BY <1>1, RoundStays
<1>3. calls' \in Seq(Calls) /\ CallsOK'
  BY <1>1, <1>2, SameModal
<1>4. TypeOK'
  BY <1>3 DEF IInv, TypeOK, ModalType
<1>5. Screen' /\ Enrolled'
  BY DEF IInv, Screen, Enrolled
<1> QED BY <1>3, <1>4, <1>5 DEF IInv

(* A request is sent off from the modal. *)
LEMMA AskKeeps ==
    ASSUME IInv, NEW kind, NEW student, calls' = Append(calls, Request(kind, student)),
           Request(kind, student) \in Calls,
           kind \in RoundKinds /\ ~torn => student = wizard.student,
           kind = "credentials" /\ ~torn => student \in accounts,
           kind # "create", kind = "verify" => student \in MaybeStudent,
           kind = "reconcile" => modal.open /\ modal.step = 8 /\ student = modal.student,
           kind = "save" => modal.open /\ modal.step = 5 /\ student \in Admins,
           UNCHANGED <<accounts, who, here, pane, wizard, modal, torn>>
    PROVE  IInv'
<1> DEFINE c == Request(kind, student)
<1>1. c.kind = kind /\ c.student = student /\ c.answer = "none"
  BY DEF Request
<1> HIDE DEF c
<1>2. Named(c, accounts) /\ InRound(c, accounts, wizard, torn) /\ Held(c, modal)
  BY <1>1 DEF Named, InRound, Held
<1>3. /\ calls' \in Seq(Calls)
      /\ \A j \in DOMAIN calls' :
             /\ Named(calls'[j], accounts)
             /\ InRound(calls'[j], accounts, wizard, torn)
             /\ Held(calls'[j], modal)
  BY <1>2, Added DEF IInv, c
<1>4. CallsOK'
  BY <1>3 DEF CallsOK
<1>5. TypeOK'
  BY <1>3 DEF IInv, TypeOK
<1>6. Screen' /\ Enrolled' /\ ReportsAreTheStudents'
  BY DEF IInv, Screen, Enrolled, ReportsAreTheStudents
<1> QED BY <1>4, <1>5, <1>6 DEF IInv

-----------------------------------------------------------------------------
(* The steps *)

(* A new wizard: if an earlier one has left no request, it has a clean round. *)
LEMMA OpenKeeps == ASSUME IInv, openAddAccountWizard PROVE IInv'
<1>1. wizard' \in WizardType /\ wizard'.step = 1
  BY DEF openAddAccountWizard, WizardType, Steps, TotalSteps, MaybeStudent
<1>2. Enrolled'
  BY <1>1 DEF Enrolled
<1>3. RoundKept(calls)
  <2>1. ASSUME NEW j \in DOMAIN calls, ~torn' PROVE calls[j].kind \notin RoundKinds
    BY <2>1 DEF openAddAccountWizard, OfWizard, RoundKinds
  <2> QED BY <2>1 DEF RoundKept, InRound, RoundKinds
<1>4. Drawn(calls)
  BY CallsDrawn DEF IInv
<1>5. /\ renderWizardModal(calls) /\ pane = "governance" /\ torn' \in BOOLEAN
      /\ UNCHANGED <<accounts, who, here, pane>>
  BY DEF openAddAccountWizard
<1> QED BY <1>1, <1>2, <1>3, <1>4, <1>5, RenderKeeps

(* Cancel *)
LEMMA CloseKeeps ==
    ASSUME IInv, NEW cs, Drawn(cs), closeWizard(cs),
           UNCHANGED <<accounts, who, here, pane, wizard, torn>>
    PROVE  IInv'
<1>1. /\ pane' \in {"notice", "governance", "student"}
      /\ here' /\ who' # NoUser /\ pane' = "governance" => who' \in Admins
  BY DEF IInv, TypeOK, Screen
<1> QED BY <1>1, BlankKeeps DEF closeWizard

(* A student is submitted: if nothing else is under way, the request that    *)
(* goes out is the only one of the round.                                    *)
LEMMA SubmitKeeps == ASSUME IInv, NEW s \in Students, SubmitStudent(s) PROVE IInv'
<1> DEFINE c == Request("create", s)
<1>1. /\ c \in Calls /\ c.kind = "create" /\ c.student = s /\ c.answer = "none"
  BY DEF Request, Calls, MaybeUser, MaybeStudent
<1> HIDE DEF c
<1>2. /\ wizard' \in WizardType /\ wizard'.step = 1 /\ wizard'.student = s
      /\ wizard'.step = wizard.step /\ modal.open
  BY DEF SubmitStudent, InModal, IInv, TypeOK, WizardType, MaybeStudent
<1>3. calls' = Append(calls, c) /\ calls \in Seq(Calls)
  BY DEF SubmitStudent, c, IInv, TypeOK
<1>4. /\ calls' \in Seq(Calls)
      /\ \A j \in DOMAIN calls' : (j \in DOMAIN calls /\ calls'[j] = calls[j]) \/ calls'[j] = c
  BY <1>1, <1>3
<1>5. ASSUME NEW j \in DOMAIN calls'
      PROVE  /\ Named(calls'[j], accounts')
             /\ InRound(calls'[j], accounts', wizard', torn')
             /\ Held(calls'[j], modal')
  <2>1. CASE j \in DOMAIN calls /\ calls'[j] = calls[j]
    <3>1. Named(calls[j], accounts) /\ Held(calls[j], modal)
      BY <2>1 DEF IInv, CallsOK
    <3>2. ~torn' => calls[j].kind \notin RoundKinds
      BY <2>1 DEF SubmitStudent, OfWizard, RoundKinds
    <3> QED BY <2>1, <3>1, <3>2 DEF SubmitStudent, InRound, RoundKinds
  <2>2. CASE calls'[j] = c
    BY <2>2, <1>1, <1>2 DEF Named, InRound, Held
  <2> QED BY <1>4, <1>5, <2>1, <2>2
<1>6. CallsOK'
  BY <1>5 DEF CallsOK
<1>7. TypeOK'
  BY <1>2, <1>4 DEF SubmitStudent, IInv, TypeOK, WizardType
<1>8. Screen' /\ Enrolled' /\ ReportsAreTheStudents'
  BY <1>2 DEF SubmitStudent, IInv, TypeOK, Screen, Enrolled, ReportsAreTheStudents
<1> QED BY <1>6, <1>7, <1>8 DEF IInv


(* The server creates the account, or refuses: more students are enrolled,   *)
(* and what the answer says is so.                                           *)
LEMMA ServeKeeps == ASSUME IInv, NEW i \in DOMAIN calls, ServeCreate(i) PROVE IInv'
<1>1. accounts \subseteq accounts'
  BY DEF ServeCreate
<1>2. PICK a \in {"ok", "failed"} :
          /\ calls' = [calls EXCEPT ![i].answer = a]
          /\ a = "ok" => accounts' = accounts \cup {calls[i].student}
  BY DEF ServeCreate
<1>3. calls \in Seq(Calls) /\ calls[i] \in Calls /\ calls[i].kind = "create"
  BY DEF ServeCreate, IInv, TypeOK
<1> DEFINE c == [calls[i] EXCEPT !.answer = a]
<1>4. /\ c \in Calls /\ c.kind = calls[i].kind /\ c.student = calls[i].student
      /\ c.on = calls[i].on /\ c.answer = a
  BY <1>3 DEF Calls
<1>5. calls' = [calls EXCEPT ![i] = c]
  BY <1>2
<1> HIDE DEF c
<1>6. /\ calls' \in Seq(Calls) /\ DOMAIN calls' = DOMAIN calls
      /\ \A j \in DOMAIN calls : calls'[j] = IF j = i THEN c ELSE calls[j]
  BY <1>3, <1>4, <1>5
<1>7. ASSUME NEW j \in DOMAIN calls
      PROVE  /\ calls'[j].kind = calls[j].kind /\ calls'[j].student = calls[j].student
             /\ calls'[j].on = calls[j].on /\ Named(calls'[j], accounts')
  <2>1. CASE j = i
    <3>1. calls'[j] = c /\ calls[i].student \in Students
      BY <2>1, <1>3, <1>6 DEF IInv, CallsOK, Named
    <3> QED BY <2>1, <3>1, <1>2, <1>3, <1>4 DEF Named
  <2>2. CASE j # i
    BY <2>2, <1>1, <1>6 DEF IInv, CallsOK, Named
  <2> QED BY <2>1, <2>2
<1>8. ASSUME NEW j \in DOMAIN calls
      PROVE  InRound(calls'[j], accounts', wizard', torn') /\ Held(calls'[j], modal')
  <2>1. InRound(calls[j], accounts, wizard, torn) /\ Held(calls[j], modal)
    BY DEF IInv, CallsOK
  <2> QED BY <2>1, <1>1, <1>7 DEF ServeCreate, InRound, Held
<1>9. CallsOK'
  BY <1>6, <1>7, <1>8 DEF CallsOK
<1>10. accounts' \subseteq Students
  BY <1>3 DEF ServeCreate, IInv, TypeOK, CallsOK, Named
<1>11. TypeOK'
  BY <1>6, <1>10 DEF ServeCreate, IInv, TypeOK
<1>12. Screen' /\ Enrolled' /\ ReportsAreTheStudents'
  BY <1>1 DEF ServeCreate, IInv, Screen, Enrolled, ReportsAreTheStudents
<1> QED BY <1>9, <1>11, <1>12 DEF IInv

(* The account is there: the wizard goes on to its second step, about the    *)
(* student the answer is about.                                              *)
LEMMA CreateAnsweredKeeps ==
    ASSUME IInv, NEW i \in DOMAIN calls, CreateAnswered(i) PROVE IInv'
<1>1. Drawn(RemoveAt(calls, i))
  BY RemovedDrawn DEF IInv
<1>2. CASE Succeeded(calls[i])
  <2>1. /\ wizard' = [wizard EXCEPT !.step = 2] /\ renderWizardModal(RemoveAt(calls, i))
        /\ UNCHANGED <<accounts, who, here, pane, torn>>
    BY <1>2 DEF CreateAnswered
  <2>2. wizard' \in WizardType /\ wizard'.step = 2 /\ wizard'.student = wizard.student
    BY <2>1 DEF IInv, TypeOK, WizardType, Steps, TotalSteps
  <2>3. Enrolled'
    <3>1. Named(calls[i], accounts) /\ InRound(calls[i], accounts, wizard, torn)
      BY DEF IInv, CallsOK
    <3> QED BY <3>1, <1>2, <2>1, <2>2
            DEF CreateAnswered, Succeeded, Named, InRound, RoundKinds, Enrolled
  <2>4. RoundKept(RemoveAt(calls, i))
    BY <1>1, <2>1, <2>2, RoundStays
  <2>5. torn' \in BOOLEAN
    BY <2>1 DEF IInv, TypeOK
  <2> QED BY <1>1, <2>1, <2>2, <2>3, <2>4, <2>5, RenderKeeps
<1>3. CASE ~Succeeded(calls[i])
  <2>1. calls' = RemoveAt(calls, i)
        /\ UNCHANGED <<accounts, who, here, pane, wizard, modal, torn>>
    BY <1>3 DEF CreateAnswered
  <2>2. modal' \in ModalType /\ ReportsAreTheStudents'
    BY <2>1 DEF IInv, TypeOK, ModalType, ReportsAreTheStudents
  <2> QED BY <2>1, <2>2, TellKeeps
<1> QED BY <1>2, <1>3

(* The wizard goes on from a step at which its student is enrolled. *)
LEMMA AdvanceKeeps ==
    ASSUME IInv, NEW cs, Drawn(cs), Advance(cs),
           ~torn => wizard.student \in accounts,
           UNCHANGED <<accounts, who, here, pane, torn>>
    PROVE  IInv'
<1>1. CASE wizard.step >= TotalSteps
  BY <1>1, CloseKeeps DEF Advance
<1>2. CASE ~(wizard.step >= TotalSteps)
  <2>1. wizard' = [wizard EXCEPT !.step = wizard.step + 1] /\ renderWizardModal(cs)
    BY <1>2 DEF Advance
  <2>2. wizard' \in WizardType /\ wizard'.student = wizard.student
    BY <1>2, <2>1 DEF IInv, TypeOK, WizardType, Steps, TotalSteps
  <2>3. Enrolled' /\ torn' \in BOOLEAN
    BY <2>2 DEF Enrolled, IInv, TypeOK
  <2>4. RoundKept(cs)
    BY <2>2, RoundStays
  <2> QED BY <2>1, <2>2, <2>3, <2>4, RenderKeeps
<1> QED BY <1>1, <1>2

(* Next, past the first step *)
LEMMA NextKeeps == ASSUME IInv, wizardNext PROVE IInv'
<1>1. wizard.step \in Steps \ {1}
  BY DEF wizardNext, InModal
<1>2. ~torn => wizard.student \in accounts
  BY <1>1 DEF IInv, Enrolled, Steps, TotalSteps
<1>3. Drawn(calls)
  BY CallsDrawn DEF IInv
<1> QED BY <1>2, <1>3, AdvanceKeeps DEF wizardNext

(* Back, past the first step *)
LEMMA PrevKeeps == ASSUME IInv, wizardPrev PROVE IInv'
<1>1. wizard.step \in Steps \ {1}
  BY DEF wizardPrev, InModal
<1>2. /\ wizard' = [wizard EXCEPT !.step = wizard.step - 1] /\ renderWizardModal(calls)
      /\ UNCHANGED <<accounts, who, here, pane, torn>>
  BY DEF wizardPrev
<1>3. wizard' \in WizardType /\ wizard'.student = wizard.student
  BY <1>1, <1>2 DEF IInv, TypeOK, WizardType, Steps, TotalSteps
<1>4. Enrolled' /\ torn' \in BOOLEAN
  BY <1>1, <1>2, <1>3 DEF IInv, TypeOK, Enrolled, Steps, TotalSteps
<1>5. Drawn(calls)
  BY CallsDrawn DEF IInv
<1>6. RoundKept(calls)
  BY <1>2, <1>3, <1>5, RoundStays
<1> QED BY <1>2, <1>3, <1>4, <1>5, <1>6, RenderKeeps

(* The credentials are saved, or not: the wizard goes on. *)
LEMMA CredentialsAnsweredKeeps ==
    ASSUME IInv, NEW i \in DOMAIN calls, CredentialsAnswered(i) PROVE IInv'
<1>1. Drawn(RemoveAt(calls, i))
  BY RemovedDrawn DEF IInv
<1>2. InRound(calls[i], accounts, wizard, torn)
  BY DEF IInv, CallsOK
<1>3. ~torn => wizard.student \in accounts
  BY <1>2 DEF CredentialsAnswered, InRound, RoundKinds
<1> QED BY <1>1, <1>3, AdvanceKeeps DEF CredentialsAnswered

(* The requests that the modal sends off *)
LEMMA AsksKeep ==
    ASSUME IInv, SaveCredentials \/ SaveUpes \/ VerifyAcademicData \/ RunCalendarSync
    PROVE  IInv'
<1>1. /\ here /\ who # NoUser /\ modal.open /\ modal.step = wizard.step
      /\ wizard.step \in {5, 6, 8}
  BY DEF SaveCredentials, SaveUpes, VerifyAcademicData, RunCalendarSync, InModal, IInv, TypeOK
<1>2. /\ who \in Admins /\ modal.student = wizard.student
      /\ ~torn => wizard.student \in accounts
  BY <1>1 DEF IInv, Screen, Enrolled
<1>3. wizard.student \in MaybeStudent /\ wizard.student \in MaybeUser /\ who \in MaybeUser
  BY <1>2 DEF IInv, TypeOK, MaybeUser
<1>4. ASSUME NEW kind \in {"credentials", "save", "verify", "reconcile"},
             NEW u \in MaybeUser
      PROVE  Request(kind, u) \in Calls
  BY DEF Request, Calls
<1>5. CASE SaveCredentials
  BY <1>2, <1>3, <1>4, <1>5, AskKeeps DEF SaveCredentials
<1>6. CASE SaveUpes
  <2>1. modal.step = 5
    BY <1>1, <1>6 DEF SaveUpes, InModal
  <2> QED BY <2>1, <1>1, <1>2, <1>3, <1>4, <1>6, AskKeeps DEF SaveUpes, RoundKinds
<1>7. CASE VerifyAcademicData
  BY <1>3, <1>4, <1>7, AskKeeps DEF VerifyAcademicData
<1>8. CASE RunCalendarSync
  <2>1. modal.step = 8
    BY <1>1, <1>8 DEF RunCalendarSync, InModal
  <2> QED BY <2>1, <1>1, <1>2, <1>3, <1>4, <1>8, AskKeeps DEF RunCalendarSync, RoundKinds
<1> QED BY <1>5, <1>6, <1>7, <1>8

(* What a request writes into the output it holds is about the modal on the  *)
(* screen.                                                                   *)
LEMMA OutputKeeps ==
    ASSUME IInv, NEW i \in DOMAIN calls, calls[i].kind \in {"save", "reconcile"},
           calls' = RemoveAt(calls, i), modal' \in {modal, Output(calls[i])},
           UNCHANGED <<accounts, who, here, pane, wizard, torn>>
    PROVE  IInv'
<1>1. modal \in ModalType /\ calls[i].student \in MaybeUser
  <2>1. calls[i] \in Calls /\ modal \in ModalType
    BY DEF IInv, TypeOK, ModalType
  <2> QED BY <2>1 DEF Calls
<1>2. Held(calls[i], modal)
  BY DEF IInv, CallsOK
<1>3. CASE modal' = modal
  <2>1. modal' \in ModalType /\ ReportsAreTheStudents'
    BY <1>1, <1>3 DEF IInv, ReportsAreTheStudents
  <2> QED BY <1>3, <2>1, TellKeeps
<1>4. CASE calls[i].on /\ modal' = [modal EXCEPT !.out = calls[i].student]
  <2>1. /\ modal' \in ModalType /\ modal'.out = calls[i].student
        /\ modal'.open = modal.open /\ modal'.step = modal.step
        /\ modal'.student = modal.student /\ modal'.tiles = modal.tiles
    BY <1>1, <1>4 DEF ModalType
  <2>2. ReportsAreTheStudents'
    BY <1>2, <1>4, <2>1 DEF Held, IInv, ReportsAreTheStudents
  <2> QED BY <2>1, <2>2, TellKeeps
<1> QED BY <1>3, <1>4 DEF Output

(* The academic records are about the student of the round. *)
LEMMA VerifyAnsweredKeeps ==
    ASSUME IInv, NEW i \in DOMAIN calls, VerifyAnswered(i) PROVE IInv'
<1>1. modal \in ModalType /\ calls[i] \in Calls /\ calls[i].kind = "verify"
  BY DEF VerifyAnswered, IInv, TypeOK, ModalType
<1>2. calls' = RemoveAt(calls, i) /\ UNCHANGED <<accounts, who, here, pane, wizard, torn>>
  BY DEF VerifyAnswered
<1>3. CASE modal' = modal
  <2>1. modal' \in ModalType /\ ReportsAreTheStudents'
    BY <1>1, <1>2, <1>3 DEF IInv, ReportsAreTheStudents
  <2> QED BY <1>2, <1>3, <2>1, TellKeeps
<1>4. CASE modal.open /\ modal.step = 6 /\ modal' = [modal EXCEPT !.tiles = calls[i].student]
  <2>1. calls[i].student \in MaybeUser /\ torn \in BOOLEAN
    BY <1>1 DEF Calls, IInv, TypeOK
  <2>2. InRound(calls[i], accounts, wizard, torn) /\ modal.student = wizard.student
    BY <1>4 DEF IInv, CallsOK, Screen
  <2>3. calls[i].student \in MaybeStudent
    BY <1>1 DEF IInv, CallsOK, Named
  <2>4. /\ modal' \in ModalType /\ modal'.tiles = calls[i].student
        /\ modal'.open = modal.open /\ modal'.step = modal.step
        /\ modal'.student = modal.student /\ modal'.out = modal.out
    BY <1>1, <1>4, <2>3 DEF ModalType
  <2>5. ReportsAreTheStudents'
    BY <1>1, <1>2, <2>2, <2>4 DEF InRound, RoundKinds, IInv, ReportsAreTheStudents
  <2> QED BY <1>2, <2>4, <2>5, TellKeeps
<1> QED BY <1>3, <1>4 DEF VerifyAnswered


(* The list of students lands: only an administrator is shown governance.    *)
LEMMA StatusKeeps == ASSUME IInv, NEW i \in DOMAIN calls, StatusAnswered(i) PROVE IInv'
<1> DEFINE cs == RemoveAt(calls, i)
<1>1. Drawn(cs)
  BY RemovedDrawn DEF IInv
<1>2. /\ modal' = Closed /\ calls' = Detached(cs)
      /\ UNCHANGED <<accounts, who, here, wizard, torn>>
      /\ pane' \in {"notice", "governance", "student"}
      /\ here' /\ who' # NoUser /\ pane' = "governance" => who' \in Admins
  BY DEF StatusAnswered, renderAccounts, isAdmin
<1> HIDE DEF cs
<1> QED BY <1>1, <1>2, BlankKeeps

(* The tab is loaded: nothing is shown but a notice, whoever looks.          *)
LEMMA LoadKeeps ==
    ASSUME IInv, loadAccounts(calls), UNCHANGED <<accounts, wizard, torn>>,
           who' \in MaybeUser, here' \in BOOLEAN
    PROVE  IInv'
<1> DEFINE c == Request("status", NoUser)
<1>1. c \in Calls /\ c.kind = "status"
  BY DEF Request, Calls, MaybeUser, MaybeStudent
<1> HIDE DEF c
<1>2. pane' = "notice" /\ modal' = Closed /\ calls' = Append(Detached(calls), c)
  BY DEF loadAccounts, c
<1>3. Closed \in ModalType /\ Closed.open = FALSE /\ Closed.out = NoUser /\ Closed.tiles = NoUser
  BY DEF Closed, ModalType, Steps, TotalSteps, MaybeStudent, MaybeUser
<1>4. Drawn(calls)
  BY CallsDrawn DEF IInv
<1>5. /\ Detached(calls) \in Seq(Calls) /\ DOMAIN Detached(calls) = DOMAIN calls
      /\ \A j \in DOMAIN calls : Copy(Detached(calls)[j], calls[j]) /\ ~Detached(calls)[j].on
  BY <1>4, DetachedDrawn
<1> DEFINE d == Detached(calls)
<1> HIDE DEF d
<1>6. /\ calls' \in Seq(Calls)
      /\ \A j \in DOMAIN calls' : (j \in DOMAIN d /\ calls'[j] = d[j]) \/ calls'[j] = c
  BY <1>1, <1>2, <1>5 DEF d
<1>7. ASSUME NEW j \in DOMAIN calls'
      PROVE  /\ Named(calls'[j], accounts')
             /\ InRound(calls'[j], accounts', wizard', torn')
             /\ Held(calls'[j], modal')
  <2>1. CASE j \in DOMAIN d /\ calls'[j] = d[j]
    <3>1. j \in DOMAIN calls /\ Copy(calls'[j], calls[j]) /\ ~calls'[j].on
      BY <2>1, <1>5 DEF d
    <3>2. Named(calls[j], accounts) /\ InRound(calls[j], accounts, wizard, torn)
      BY <3>1 DEF IInv, CallsOK
    <3> QED BY <3>1, <3>2 DEF Copy, Named, InRound, Held
  <2>2. CASE calls'[j] = c
    BY <2>2, <1>1 DEF Named, InRound, RoundKinds, Held
  <2> QED BY <1>6, <1>7, <2>1, <2>2
<1>8. CallsOK'
  BY <1>7 DEF CallsOK
<1>9. TypeOK'
  BY <1>2, <1>3, <1>6 DEF IInv, TypeOK, ModalType
<1>10. Screen' /\ Enrolled' /\ ReportsAreTheStudents'
  BY <1>2, <1>3 DEF IInv, Screen, Enrolled, ReportsAreTheStudents
<1> QED BY <1>8, <1>9, <1>10 DEF IInv

(* Another user, or another tab: what is painted and under way stays as it   *)
(* is, and no one but an administrator has come to governance.               *)
LEMMA LookKeeps ==
    ASSUME IInv, UNCHANGED <<accounts, pane, wizard, modal, calls, torn>>,
           who' \in MaybeUser, here' \in BOOLEAN,
           here' /\ who' # NoUser /\ pane' = "governance" => who' \in Admins
    PROVE  IInv'
<1>1. TypeOK' /\ Screen' /\ Enrolled' /\ ReportsAreTheStudents'
  BY DEF IInv, TypeOK, Screen, Enrolled, ReportsAreTheStudents
<1>2. CallsOK'
  BY DEF IInv, CallsOK
<1> QED BY <1>1, <1>2 DEF IInv

(* Opening the tab and leaving it, signing in and out *)
LEMMA VisitKeeps ==
    ASSUME IInv,
           ShowAccounts \/ LeaveAccounts \/ (\E u \in Admins \cup Students : SignIn(u)) \/ SignOut
    PROVE  IInv'
<1>1. who \in MaybeUser /\ here \in BOOLEAN /\ NoUser \in MaybeUser
  BY DEF IInv, TypeOK, MaybeUser, MaybeStudent
<1>2. CASE ShowAccounts
  BY <1>1, <1>2, LoadKeeps DEF ShowAccounts
<1>3. CASE LeaveAccounts
  BY <1>1, <1>3, LookKeeps DEF LeaveAccounts
<1>4. ASSUME NEW u \in Admins \cup Students, SignIn(u) PROVE IInv'
  <2>1. who' \in MaybeUser /\ UNCHANGED <<accounts, here, wizard, torn>>
    BY <1>4 DEF SignIn, MaybeUser, MaybeStudent
  <2>2. CASE here
    BY <1>1, <1>4, <2>1, <2>2, LoadKeeps DEF SignIn
  <2>3. CASE ~here
    BY <1>1, <1>4, <2>1, <2>3, LookKeeps DEF SignIn
  <2> QED BY <2>2, <2>3
<1>5. CASE SignOut
  BY <1>1, <1>5, LookKeeps DEF SignOut
<1> QED BY <1>2, <1>3, <1>4, <1>5

-----------------------------------------------------------------------------
(* Every step keeps the invariant. *)
THEOREM StepHolds == IInv /\ [Next]_vars => IInv'
<1> SUFFICES ASSUME IInv, [Next]_vars PROVE IInv'
  OBVIOUS
<1>1. CASE openAddAccountWizard
  BY <1>1, OpenKeeps
<1>2. CASE closeAddAccountWizard
  <2>1. Drawn(calls)
    BY CallsDrawn DEF IInv
  <2> QED BY <1>2, <2>1, CloseKeeps DEF closeAddAccountWizard
<1>3. CASE \E s \in Students : SubmitStudent(s)
  BY <1>3, SubmitKeeps
<1>4. CASE wizardNext
  BY <1>4, NextKeeps
<1>5. CASE wizardPrev
  BY <1>5, PrevKeeps
<1>6. CASE SaveCredentials \/ SaveUpes \/ VerifyAcademicData \/ RunCalendarSync
  BY <1>6, AsksKeep
<1>7. ASSUME NEW i \in DOMAIN calls, ServeCreate(i) \/ Answered(i) PROVE IInv'
  <2>1. CASE ServeCreate(i)
    BY <2>1, ServeKeeps
  <2>2. CASE CreateAnswered(i)
    BY <2>2, CreateAnsweredKeeps
  <2>3. CASE CredentialsAnswered(i)
    BY <2>3, CredentialsAnsweredKeeps
  <2>4. CASE UpesSaved(i)
    BY <2>4, OutputKeeps DEF UpesSaved
  <2>5. CASE VerifyAnswered(i)
    BY <2>5, VerifyAnsweredKeeps
  <2>6. CASE CalendarSyncAnswered(i)
    BY <2>6, OutputKeeps DEF CalendarSyncAnswered
  <2>7. CASE StatusAnswered(i)
    BY <2>7, StatusKeeps
  <2> QED BY <1>7, <2>1, <2>2, <2>3, <2>4, <2>5, <2>6, <2>7 DEF Answered
<1>8. CASE \/ ShowAccounts \/ LeaveAccounts
           \/ (\E u \in Admins \cup Students : SignIn(u)) \/ SignOut
  BY <1>8, VisitKeeps
<1>9. CASE UNCHANGED vars
  BY <1>9 DEF vars, IInv, TypeOK, Screen, Enrolled, ReportsAreTheStudents, CallsOK
<1> QED BY <1>1, <1>2, <1>3, <1>4, <1>5, <1>6, <1>7, <1>8, <1>9 DEF Next

(* The inductive invariant holds in every behaviour. *)
THEOREM Inductive == Spec => []IInv
BY InitHolds, StepHolds, PTL DEF Spec

(* Every variable keeps its type. *)
THEOREM TypeCorrect == Spec => []TypeOK
<1>1. IInv => TypeOK
  BY DEF IInv
<1> QED BY <1>1, Inductive, PTL

(* From the second step on the wizard shows a student who has an account,    *)
(* unless requests of two rounds overlapped.                                 *)
THEOREM EnrolledShown == Spec => []EnrolledIsShown
<1>1. IInv => EnrolledIsShown
  <2> SUFFICES ASSUME IInv, modal.open, modal.step > 1, ~torn PROVE modal.student \in accounts
    BY DEF EnrolledIsShown
  <2>1. modal.step = wizard.step /\ modal.student = wizard.student
    BY DEF IInv, TypeOK, Screen
  <2> QED BY <2>1 DEF IInv, Enrolled
<1> QED BY <1>1, Inductive, PTL

(* The outcome of a reconciliation in the modal is about the student it      *)
(* shows, that of saved credentials about an administrator, whatever         *)
(* overlapped.  The academic records are the student's as long as requests   *)
(* of two rounds have not overlapped; nothing is claimed of them after that. *)
THEOREM ReportsTruthful == Spec => []ReportsAreTheStudents
<1>1. IInv => ReportsAreTheStudents
  BY DEF IInv
<1> QED BY <1>1, Inductive, PTL

(* Only administrators have the wizard on their screen. *)
THEOREM WizardGuarded == Spec => []WizardForAdmins
<1>1. IInv => WizardForAdmins
  BY DEF IInv, Screen, WizardForAdmins
<1> QED BY <1>1, Inductive, PTL

=============================================================================

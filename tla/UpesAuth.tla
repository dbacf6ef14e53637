------------------------------ MODULE UpesAuth ------------------------------
(* UpesAuthManager of upes/auth.py: how a call of ensure_authenticated gets  *)
(* a UPES access token, from the stored session, by one of the renewals or   *)
(* by a password login, and the circuit breaker in front of them.            *)
(*                                                                           *)
(* Calls come from the threads of the web server and of the task runner and  *)
(* may name different users; one manager, one flag and one breaker serve     *)
(* them all.  A call holds _auth_lock only to enter and to leave, so the     *)
(* flag _is_authenticating, not the lock, keeps a second one out meanwhile.  *)
(* Logging out and importing a session ask for neither.                      *)
(*                                                                           *)
(* UPES itself is outside: its answers are choices.  Of a stored session the *)
(* model keeps when its access token expires and which means of renewal it   *)
(* has; generations, telemetry and encryption are left out, as is tier 4,    *)
(* which returns None in every case.  Starting with any stored session also  *)
(* stands for a restart, which clears the flag and the breaker.              *)
EXTENDS Naturals

CONSTANTS
    Calls,            \* calls of ensure_authenticated
    Users,
    WithCredentials,  \* the users whose UPES password is stored
    Threshold,        \* failure_threshold of the breaker (3 in the code)
    Cooldown,         \* cooldown_seconds (300 s)
    Margin,           \* PROACTIVE_MARGIN (12 h)
    Slack,            \* a token this close to its end is not used (300 s)
    Lifetimes,        \* how long a new access token may last
    MaxTime,          \* bound on the clock
    None              \* no session, no user, no time

ASSUME UpesAssumption ==
    /\ WithCredentials \subseteq Users
    /\ Threshold \in Nat /\ Cooldown \in Nat /\ Margin \in Nat /\ Slack \in Nat
    /\ Slack <= Margin
    /\ Lifetimes \subseteq Nat
    /\ MaxTime \in Nat
    /\ None \notin Users \cup Nat

VARIABLES
    clock,      \* time.time()
    row,        \* the upes_auth_sessions row of each user
    busy,       \* _is_authenticating
    breaker,    \* the AuthCircuitBreaker
    pc,         \* the next step of a call
    user,       \* its user
    force,      \* its argument force_login
    since,      \* the time.time() it read when it began
    bundle,     \* the session it loaded once it was let in
    answer,     \* how it ended, or is about to end
    out,        \* the users logged out who have asked for nothing since
    rejected    \* when UPES last rejected a user's password, until it accepts
                \* the user again

locals == <<user, force, since, bundle>>
vars == <<clock, row, busy, breaker, pc, locals, answer, out, rejected>>

Upstream == {"refresh", "idp", "login"}
Saving == {"saveRefresh", "saveIdp", "saveLogin"}
InFlight == Upstream \cup Saving \cup {"load", "settle", "release"}
Steps == InFlight \cup {"unborn", "fast", "enter", "ended"}
Answers == {"none", "stored", "kept", "renewed", "refused", "error"}

(* LOGIN_FLOW_CHANGED trips the breaker as SECURITY_CHALLENGE does, and      *)
(* UPES_UNAVAILABLE and AUTH_INTERNAL_ERROR count as NETWORK_ERROR does.     *)
Immediate == {"INVALID_CREDENTIALS", "SECURITY_CHALLENGE", "AUTH_EXHAUSTED"}
Reasons == Immediate \cup {"NETWORK_ERROR"}

Sessions == [expires : Nat, refresh : BOOLEAN, cookies : BOOLEAN]
Closed == [count |-> 0, reason |-> "none", at |-> 0]

(* AuthCircuitBreaker.is_open *)
Open ==
    /\ breaker.count > 0
    /\ breaker.reason \in Immediate \/ breaker.count >= Threshold
    /\ clock < breaker.at + Cooldown

(* AuthCircuitBreaker.record_failure, called n times. *)
Failure(reason, n) ==
    breaker' = [count |-> breaker.count + n, reason |-> reason, at |-> clock]

(* A variant that stands for a plausible slip; no behaviour uses it: the     *)
(* reason is cleared to a value that is none of the reasons.                 *)
Slip_SuccessClearsToNone == breaker' = [breaker EXCEPT !.count = 0, !.reason = None]

(* AuthCircuitBreaker.record_success *)
Success == breaker' = [breaker EXCEPT !.count = 0, !.reason = "none"]

Comfortable(s, t) == s # None /\ t + Margin < s.expires
Usable(s, t) == s # None /\ t + Slack < s.expires

Goto(c, step) == pc' = [pc EXCEPT ![c] = step]

(* The call is over and its locals are gone. *)
End(c) ==
    /\ Goto(c, "ended")
    /\ user' = [user EXCEPT ![c] = None]
    /\ force' = [force EXCEPT ![c] = FALSE]
    /\ since' = [since EXCEPT ![c] = 0]
    /\ bundle' = [bundle EXCEPT ![c] = None]

Answer(c, a) == answer' = [answer EXCEPT ![c] = a]

-----------------------------------------------------------------------------
(* Variants that stand for plausible slips in the code; no behaviour uses them. *)

(* The wait is an `if', not a `while': a woken call goes on regardless. *)
Slip_EnterWithoutWait(c) ==
    /\ pc[c] = "enter"
    /\ \/ /\ ~force[c] /\ Comfortable(row[user[c]], since[c])
          /\ End(c) /\ Answer(c, "stored") /\ UNCHANGED busy
       \/ /\ ~force[c] /\ ~Comfortable(row[user[c]], since[c]) /\ Open
          /\ End(c) /\ Answer(c, "refused") /\ UNCHANGED busy
       \/ /\ force[c] \/ (~Comfortable(row[user[c]], since[c]) /\ ~Open)
          /\ busy' = TRUE
          /\ Goto(c, "load") /\ UNCHANGED <<locals, answer>>
    /\ UNCHANGED <<clock, row, breaker, out, rejected>>

(* The stored session is not looked at again after the wait. *)
Slip_EnterWithoutRecheck(c) ==
    /\ pc[c] = "enter" /\ ~busy
    /\ \/ /\ ~force[c] /\ Open
          /\ End(c) /\ Answer(c, "refused") /\ UNCHANGED busy
       \/ /\ force[c] \/ ~Open
          /\ busy' = TRUE
          /\ Goto(c, "load") /\ UNCHANGED <<locals, answer>>
    /\ UNCHANGED <<clock, row, breaker, out, rejected>>

(* The breaker is asked before the wait, at the beginning of the call. *)
Slip_EnterUnbroken(c) ==
    /\ pc[c] = "enter" /\ ~busy
    /\ IF ~force[c] /\ Comfortable(row[user[c]], since[c])
       THEN End(c) /\ Answer(c, "stored") /\ UNCHANGED busy
       ELSE busy' = TRUE /\ Goto(c, "load") /\ UNCHANGED <<locals, answer>>
    /\ UNCHANGED <<clock, row, breaker, out, rejected>>

(* An error leaves without the flag being lowered. *)
Slip_ReleaseOnSuccess(c) ==
    /\ pc[c] = "release"
    /\ busy' = (answer[c] = "error")
    /\ End(c)
    /\ UNCHANGED <<clock, row, breaker, answer, out, rejected>>

(* When the renewals have failed the password is tried. *)
Slip_SettleByLogin(c) ==
    /\ pc[c] = "settle"
    /\ IF Usable(bundle[c], since[c])
       THEN Goto(c, "release") /\ Answer(c, "kept")
       ELSE Goto(c, "login") /\ UNCHANGED answer
    /\ UNCHANGED <<clock, row, busy, breaker, locals, out, rejected>>

-----------------------------------------------------------------------------
(* ensure_authenticated reads the clock; without force_login it then looks   *)
(* at the stored session.                                                    *)
Begin(c) ==
    /\ pc[c] = "unborn"
    /\ \E u \in Users, f \in BOOLEAN :
          /\ user' = [user EXCEPT ![c] = u]
          /\ force' = [force EXCEPT ![c] = f]
          /\ Goto(c, IF f THEN "enter" ELSE "fast")
          /\ out' = out \ {u}
    /\ since' = [since EXCEPT ![c] = clock]
    /\ UNCHANGED <<clock, row, busy, breaker, bundle, answer, rejected>>

FastPath(c) ==
    /\ pc[c] = "fast"
    /\ IF Comfortable(row[user[c]], since[c])
       THEN End(c) /\ Answer(c, "stored")
       ELSE Goto(c, "enter") /\ UNCHANGED <<locals, answer>>
    /\ UNCHANGED <<clock, row, busy, breaker, out, rejected>>

(* The section under _auth_lock: wait until nobody authenticates, look at    *)
(* the stored session again, ask the breaker, raise the flag.                *)
Enter(c) ==
    /\ pc[c] = "enter" /\ ~busy
    /\ \/ /\ ~force[c] /\ Comfortable(row[user[c]], since[c])
          /\ End(c) /\ Answer(c, "stored") /\ UNCHANGED busy
       \/ /\ ~force[c] /\ ~Comfortable(row[user[c]], since[c]) /\ Open
          /\ End(c) /\ Answer(c, "refused") /\ UNCHANGED busy
       \/ /\ force[c] \/ (~Comfortable(row[user[c]], since[c]) /\ ~Open)
          /\ busy' = TRUE
          /\ Goto(c, "load") /\ UNCHANGED <<locals, answer>>
    /\ UNCHANGED <<clock, row, breaker, out, rejected>>

(* The session is loaded a last time and the first tier chosen. *)
Load(c) ==
    /\ pc[c] = "load"
    /\ bundle' = [bundle EXCEPT ![c] = row[user[c]]]
    /\ Goto(c, CASE force[c] -> "login"
                 [] ~force[c] /\ row[user[c]] = None -> "settle"
                 [] ~force[c] /\ row[user[c]] # None ->
                       IF row[user[c]].refresh THEN "refresh"
                       ELSE IF row[user[c]].cookies THEN "idp" ELSE "settle")
    /\ UNCHANGED <<clock, row, busy, breaker, user, force, since, answer, out, rejected>>

AfterRefresh(c) == IF bundle[c].cookies THEN "idp" ELSE "settle"

(* _refresh_direct_http: a new token, no connection, or any other refusal.   *)
(* Without a connection a token that is still usable is kept.                *)
Refresh(c) ==
    /\ pc[c] = "refresh"
    /\ \/ Goto(c, "saveRefresh") /\ UNCHANGED <<breaker, answer>>
       \/ /\ Usable(bundle[c], since[c])
          /\ Goto(c, "release") /\ Answer(c, "kept") /\ UNCHANGED breaker
       \/ /\ ~Usable(bundle[c], since[c])
          /\ Failure("NETWORK_ERROR", 1)
          /\ Goto(c, "release") /\ Answer(c, "error")
       \/ Goto(c, AfterRefresh(c)) /\ UNCHANGED <<breaker, answer>>
    /\ UNCHANGED <<clock, row, busy, locals, out, rejected>>

(* _renew_via_idp_session, which turns every error into None. *)
RenewByIdp(c) ==
    /\ pc[c] = "idp"
    /\ \/ Goto(c, "saveIdp")
       \/ Goto(c, "settle")
    /\ UNCHANGED <<clock, row, busy, breaker, locals, answer, out, rejected>>

(* No renewal succeeded: keep a usable token, give up on a session there is, *)
(* or log in for the first time.  Giving up records the failure twice, once  *)
(* itself and once where its exception is caught.                            *)
Settle(c) ==
    /\ pc[c] = "settle"
    /\ \/ /\ Usable(bundle[c], since[c])
          /\ Goto(c, "release") /\ Answer(c, "kept") /\ UNCHANGED breaker
       \/ /\ bundle[c] # None /\ ~Usable(bundle[c], since[c])
          /\ Failure("AUTH_EXHAUSTED", 2)
          /\ Goto(c, "release") /\ Answer(c, "error")
       \/ /\ bundle[c] = None
          /\ Goto(c, "login") /\ UNCHANGED <<breaker, answer>>
    /\ UNCHANGED <<clock, row, busy, locals, out, rejected>>

(* The password login.  A user without a stored password fails before UPES   *)
(* is asked, and _classify_error calls that INVALID_CREDENTIALS too.         *)
Login(c) ==
    /\ pc[c] = "login"
    /\ \/ /\ user[c] \in WithCredentials
          /\ Goto(c, "saveLogin") /\ UNCHANGED <<breaker, answer, rejected>>
       \/ /\ user[c] \in WithCredentials
          /\ rejected' = [rejected EXCEPT ![user[c]] = clock]
          /\ Failure("INVALID_CREDENTIALS", 1)
          /\ Goto(c, "release") /\ Answer(c, "error")
       \/ /\ user[c] \in WithCredentials
          /\ \E r \in {"SECURITY_CHALLENGE", "NETWORK_ERROR"} : Failure(r, 1)
          /\ Goto(c, "release") /\ Answer(c, "error") /\ UNCHANGED rejected
       \/ /\ user[c] \notin WithCredentials
          /\ Failure("INVALID_CREDENTIALS", 1)
          /\ Goto(c, "release") /\ Answer(c, "error") /\ UNCHANGED rejected
    /\ UNCHANGED <<clock, row, busy, locals, out>>

(* _save_session_atomic with the session that tier got; means of renewal     *)
(* that UPES did not send anew are taken over from the loaded session.       *)
Renewed(c) ==
    LET had == bundle[c] IN
    {s \in [expires : {clock + l : l \in Lifetimes}, refresh : BOOLEAN, cookies : BOOLEAN] :
        CASE pc[c] = "saveRefresh" -> s.refresh /\ (had.cookies => s.cookies)
          [] pc[c] = "saveIdp" -> s.cookies /\ (had.refresh => s.refresh)
          [] pc[c] = "saveLogin" -> TRUE}

Save(c) ==
    /\ pc[c] \in Saving
    /\ \E s \in Renewed(c) : row' = [row EXCEPT ![user[c]] = s]
    /\ Success
    /\ rejected' = IF pc[c] = "saveLogin" THEN [rejected EXCEPT ![user[c]] = None] ELSE rejected
    /\ Goto(c, "release") /\ Answer(c, "renewed")
    /\ UNCHANGED <<clock, busy, locals, out>>

(* The database refuses: after a renewal the next tier is tried as if UPES   *)
(* had said no, after a login the call fails.                                *)
SaveFails(c) ==
    /\ pc[c] \in Saving
    /\ \/ /\ pc[c] = "saveRefresh"
          /\ Goto(c, AfterRefresh(c)) /\ UNCHANGED <<breaker, answer>>
       \/ /\ pc[c] = "saveIdp"
          /\ Goto(c, "settle") /\ UNCHANGED <<breaker, answer>>
       \/ /\ pc[c] = "saveLogin"
          /\ Failure("NETWORK_ERROR", 1)
          /\ Goto(c, "release") /\ Answer(c, "error")
    /\ UNCHANGED <<clock, row, busy, locals, out, rejected>>

(* The `finally' lowers the flag and wakes the waiting calls. *)
Release(c) ==
    /\ pc[c] = "release"
    /\ busy' = FALSE
    /\ End(c)
    /\ UNCHANGED <<clock, row, breaker, answer, out, rejected>>

(* logout *)
Logout(u) ==
    /\ row[u] # None
    /\ row' = [row EXCEPT ![u] = None]
    /\ out' = out \cup {u}
    /\ UNCHANGED <<clock, busy, breaker, pc, locals, answer, rejected>>

(* import_authenticated_context, once UPES has confirmed the token. *)
Import(u) ==
    /\ \E l \in Lifetimes \ {0}, r, k \in BOOLEAN :
          row' = [row EXCEPT ![u] = [expires |-> clock + l, refresh |-> r, cookies |-> k]]
    /\ Success
    /\ out' = out \ {u}
    /\ rejected' = [rejected EXCEPT ![u] = None]
    /\ UNCHANGED <<clock, busy, pc, locals, answer>>

Tick ==
    /\ clock < MaxTime
    /\ clock' = clock + 1
    /\ UNCHANGED <<row, busy, breaker, pc, locals, answer, out, rejected>>

Init ==
    /\ clock = 0
    /\ row \in [Users -> [expires : Lifetimes, refresh : BOOLEAN, cookies : BOOLEAN] \cup {None}]
    /\ busy = FALSE
    /\ breaker = Closed
    /\ pc = [c \in Calls |-> "unborn"]
    /\ user = [c \in Calls |-> None]
    /\ force = [c \in Calls |-> FALSE]
    /\ since = [c \in Calls |-> 0]
    /\ bundle = [c \in Calls |-> None]
    /\ answer = [c \in Calls |-> "none"]
    /\ out = {}
    /\ rejected = [u \in Users |-> None]

Step(c) ==
    \/ FastPath(c)
    \/ Enter(c)
    \/ Load(c)
    \/ Refresh(c)
    \/ RenewByIdp(c)
    \/ Settle(c)
    \/ Login(c)
    \/ Save(c)
    \/ SaveFails(c)
    \/ Release(c)

Next ==
    \/ \E c \in Calls : Begin(c) \/ Step(c)
    \/ \E u \in Users : Logout(u) \/ Import(u)
    \/ Tick

Spec == Init /\ [][Next]_vars

(* Every request of this module to UPES has a timeout, so a call that is not *)
(* waiting for another goes on.                                              *)
FairSpec == Spec /\ \A c \in Calls : WF_vars(Step(c))

-----------------------------------------------------------------------------
UnderWay(c) == pc[c] \notin {"unborn", "ended"}

(* Every variable keeps its type, and a call that is under way has a user.   *)
TypeOK ==
    /\ clock \in Nat
    /\ row \in [Users -> Sessions \cup {None}]
    /\ busy \in BOOLEAN
    /\ breaker \in [count : Nat, reason : Reasons \cup {"none"}, at : Nat]
    /\ pc \in [Calls -> Steps]
    /\ user \in [Calls -> Users \cup {None}]
    /\ \A c \in Calls : UnderWay(c) => user[c] \in Users
    /\ force \in [Calls -> BOOLEAN]
    /\ since \in [Calls -> Nat]
    /\ bundle \in [Calls -> Sessions \cup {None}]
    /\ answer \in [Calls -> Answers]
    /\ out \subseteq Users
    /\ rejected \in [Users -> Nat \cup {None}]

(* The "single-flight" of the class: whatever the calls, and whoever their   *)
(* users are, at most one of them renews a session at a time.                *)
OneFlight ==
    \A c, d \in Calls : pc[c] \in InFlight /\ pc[d] \in InFlight => c = d

(* While the breaker is open UPES hears of nobody but those who force a      *)
(* login, although calls that were let in before the failure may be queued.  *)
NoCallWhileOpen ==
    \A c \in Calls : pc[c] \in Upstream /\ ~force[c] => ~Open

(* A call that waited for another's renewal uses it: nobody starts a renewal *)
(* while the stored token is comfortable by the clock of that moment, though *)
(* the call judges by the time at which it began.                            *)
NoRedundantRenewal ==
    [][\A c \in Calls : pc[c] = "enter" /\ pc'[c] = "load" /\ ~force[c]
          => ~Comfortable(row[user[c]], clock)]_vars

(* A password is only sent unasked for a user who had no session when the    *)
(* call was let in: a session that can no longer be renewed ends in an error *)
(* that asks for the user (test_12 of tests/test_upes_zero_touch.py).        *)
PasswordOnlyToBootstrap ==
    \A c \in Calls : pc[c] \in {"login", "saveLogin"} /\ ~force[c] => bundle[c] = None

(* Every call comes to an end, whatever UPES answers and however many calls  *)
(* wait behind each other.                                                   *)
EveryCallReturns ==
    \A c \in Calls : pc[c] = "fast" ~> pc[c] = "ended"

-----------------------------------------------------------------------------
(* Statements of the comments and documents that the code does not keep.     *)

(* A call whose user's token is good for longer than Slack is served.        *)
UsableTokenServed ==
    [][\A c \in Calls : answer[c] = "none" /\ answer'[c] = "refused"
          => ~Usable(row[user[c]], clock)]_vars

(* A user who logged out, and asked for nothing since, has no session.       *)
LogoutHolds == \A u \in out : row[u] = None

(* A rejected password is not sent again unasked before the cooldown.        *)
LockoutProtected ==
    [][\A c \in Calls : /\ pc[c] = "login" /\ pc'[c] # "login" /\ ~force[c]
                        /\ user[c] \in WithCredentials /\ rejected[user[c]] # None
          => clock >= rejected[user[c]] + Cooldown]_vars

(* The breaker gives INVALID_CREDENTIALS when UPES rejected a password.      *)
TripMeansRejected ==
    breaker.reason = "INVALID_CREDENTIALS" => \E u \in Users : rejected[u] # None
=============================================================================

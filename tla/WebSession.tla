----------------------------- MODULE WebSession -----------------------------
(* The session of one browser window: static/js/api.js and app.js, with the  *)
(* log stream of diagnostics.js, against the session table of app.py.        *)
(*                                                                           *)
(* The page runs on one thread and is interrupted only where it waits for    *)
(* the network, so a handler is one action up to its request and another     *)
(* from the answer on.  Requests overlap: between the two, tabs are clicked, *)
(* other answers land and users sign in and out.  authState is memory and is *)
(* lost by a reload; localStorage and the hash of the address are kept.      *)
(*                                                                           *)
(* Of a request of the views only this matters here: the token it was sent   *)
(* with and whether it comes back as 401; those sent with one token are one. *)
(* localStorage is taken as this window's own.                               *)
EXTENDS Naturals

CONSTANTS
    Users,
    Admins,       \* the users whose role is admin
    NoUser,
    Tabs,         \* VALID_TABS
    MaxLogins,    \* bound on the sessions the server creates
    MaxReloads    \* bound on reloads of the page

ASSUME WebAssumption ==
    /\ Admins \subseteq Users
    /\ NoUser \notin Users
    /\ {"dashboard", "academics", "mcp", "diagnostics"} \subseteq Tabs
    /\ MaxLogins \in Nat \ {0}
    /\ MaxReloads \in Nat

Tokens == 1 .. MaxLogins
NoToken == 0
MaybeToken == Tokens \cup {NoToken}
MaybeUser == Users \cup {NoUser}

VARIABLES
    owner,     \* the user each token was issued to
    live,      \* the tokens in SESSIONS
    auth,      \* authState
    stored,    \* localStorage
    booting,   \* apiCheckAuth of DOMContentLoaded has not returned
    overlay,   \* loginOverlay is displayed
    header,    \* the user and the admin-only elements that are displayed
    tab,       \* activeTab
    hash,      \* window.location.hash
    diag,      \* activeDiagSubtab
    stream,    \* the token of diagLogEventSource, if it is open
    timers,    \* systemPollTimer and mcpPollTimer
    calls,     \* the requests of this page that have not come back
    reloads,
    torn       \* a session began or ended during booting and nobody has
               \* signed in since

server == <<owner, live>>
screen == <<overlay, header>>
place == <<tab, hash, diag, stream, timers>>
vars == <<server, auth, stored, booting, screen, place, calls, reloads, torn>>

Kinds == {"me", "login", "logout", "data", "sync"}
Answers == {"none", "ok", "refused", "broken", "lost"}
Calls == [kind : Kinds, token : MaybeToken, user : MaybeUser, answer : Answers]

Request(kind, token, user) ==
    [kind |-> kind, token |-> token, user |-> user, answer |-> "none"]

SignedOut == [token |-> NoToken, user |-> NoUser, on |-> FALSE]
NothingStored == [token |-> NoToken, user |-> NoUser]
FromStorage(s) ==
    [token |-> s.token, user |-> s.user,
     on |-> s.token # NoToken /\ s.user # NoUser]

-----------------------------------------------------------------------------
(* Variants that stand for plausible slips in the code; no behaviour uses    *)
(* them.                                                                     *)

Slip_SetSessionInMemory(t, u) ==
    auth' = [token |-> t, user |-> u, on |-> TRUE] /\ UNCHANGED stored

Slip_ClearKeepsFlag ==
    /\ auth' = [auth EXCEPT !.token = NoToken, !.user = NoUser]
    /\ stored' = NothingStored

Slip_ShowOnce ==
    /\ overlay' = ~auth'.on
    /\ header' = IF overlay' \/ header.user # NoUser THEN header
                 ELSE [user |-> auth'.user, admin |-> auth'.user \in Admins]

Slip_GoToUnguarded(t, polling) ==
    /\ tab' = t /\ hash' = t
    /\ stream' = IF t = "diagnostics" THEN stream ELSE {}
    /\ timers' = [system |-> polling, mcp |-> t = "mcp"]
    /\ UNCHANGED diag

Slip_GoToSignIn(t, polling) ==
    /\ tab' = (IF t = "diagnostics" /\ auth'.user \notin Admins THEN "login" ELSE t)
    /\ hash' = tab'
    /\ stream' = IF tab' = "diagnostics" THEN stream ELSE {}
    /\ timers' = [system |-> polling, mcp |-> tab' = "mcp"]
    /\ UNCHANGED diag

Slip_RefusalIgnored == UNCHANGED <<auth, stored, screen>>

-----------------------------------------------------------------------------
(* api.js *)

isAdmin(a) == a.user \in Admins

setSession(t, u) ==
    /\ auth' = [token |-> t, user |-> u, on |-> TRUE]
    /\ stored' = [token |-> IF t = NoToken THEN stored.token ELSE t, user |-> u]

clearSession == auth' = SignedOut /\ stored' = NothingStored

(* app.js *)

updateAuthUI ==
    /\ overlay' = ~(auth'.on /\ auth'.user # NoUser)
    /\ header' = IF overlay' THEN header
                 ELSE [user |-> auth'.user, admin |-> isAdmin(auth')]

(* switchTab(t), after which system polling is on or not.  Showing the logs  *)
(* again replaces the stream; another subtab of Diagnostics leaves it alone. *)
switchTab(t, polling) ==
    LET target == IF t = "diagnostics" /\ ~isAdmin(auth') THEN "dashboard" ELSE t IN
    /\ tab' = target /\ hash' = target
    /\ stream' = IF target = "diagnostics"
                   THEN IF diag = "logs" THEN {auth'.token} ELSE stream
                   ELSE IF tab = "diagnostics" THEN {} ELSE stream
    /\ timers' = [system |-> polling, mcp |-> target = "mcp"]
    /\ UNCHANGED diag

(* The request of the loader of the tab that is shown. *)
TabRequest == Request("data", auth'.token, NoUser)

-----------------------------------------------------------------------------
(* The server answers from the table as it is when the request arrives.      *)

Waiting(c, kind) == c \in calls /\ c.kind = kind /\ c.answer = "none"

Answered(c, a) == calls' = (calls \ {c}) \cup {[c EXCEPT !.answer = a]}

(* api_login, with the right password or a wrong one. *)
ServeLogin(c) ==
    /\ Waiting(c, "login")
    /\ \/ \E t \in Tokens :
            /\ owner[t] = NoUser
            /\ \A s \in 1 .. t - 1 : owner[s] # NoUser
            /\ owner' = [owner EXCEPT ![t] = c.user]
            /\ live' = live \cup {t}
            /\ calls' = (calls \ {c}) \cup {[c EXCEPT !.answer = "ok", !.token = t]}
       \/ Answered(c, "refused") /\ UNCHANGED server
    /\ UNCHANGED <<auth, stored, booting, screen, place, reloads, torn>>

(* api_me *)
ServeMe(c) ==
    /\ Waiting(c, "me")
    /\ calls' = (calls \ {c}) \cup
                  IF c.token \in live
                    THEN {[c EXCEPT !.answer = "ok", !.user = owner[c.token]]}
                    ELSE {[c EXCEPT !.answer = "refused"]}
    /\ UNCHANGED <<server, auth, stored, booting, screen, place, reloads, torn>>

(* api_logout; the page does not look at the answer. *)
ServeLogout(c) ==
    /\ Waiting(c, "logout")
    /\ live' = live \ {c.token}
    /\ UNCHANGED <<owner, auth, stored, booting, screen, place, calls, reloads, torn>>

(* A session ends without this page: it expires, the server restarts, the    *)
(* password is changed elsewhere.                                            *)
EndSession(t) ==
    /\ t \in live
    /\ live' = live \ {t}
    /\ UNCHANGED <<owner, auth, stored, booting, screen, place, calls, reloads, torn>>

(* A check or a sign-in, or its answer, is lost, or the server answers 5xx.  *)
(* For the other two kinds this is part of their landing.                    *)
Fail(c) ==
    /\ c \in calls /\ c.kind \in {"me", "login"}
    /\ c.answer \in {"none", "ok", "refused"}
    /\ \E a \in (IF c.kind = "me" THEN {"broken", "lost"} ELSE {"lost"}) : Answered(c, a)
    /\ UNCHANGED <<server, auth, stored, booting, screen, place, reloads, torn>>

-----------------------------------------------------------------------------
(* The page *)

(* apiFetch: what a 401 does besides being returned.  The event it raises    *)
(* ends in updateAuthUI.                                                     *)
Unauthorized ==
    IF auth.on THEN clearSession /\ updateAuthUI ELSE UNCHANGED <<auth, stored, screen>>

SessionChanged == torn' = (torn \/ (booting /\ auth' # auth))

(* The answer to apiCheckAuth, and the rest of the DOMContentLoaded handler. *)
CheckAnswered(c) ==
    /\ c \in calls /\ c.kind = "me" /\ c.answer # "none"
    /\ booting' = FALSE
    /\ \/ c.answer = "ok" /\ setSession(auth.token, c.user)
       \/ c.answer \in {"refused", "broken"} /\ clearSession
       \/ c.answer = "lost" /\ UNCHANGED <<auth, stored>>
    /\ updateAuthUI
    /\ IF auth'.on
         THEN switchTab(hash, TRUE) /\ calls' = (calls \ {c}) \cup {TabRequest}
         ELSE UNCHANGED place /\ calls' = calls \ {c}
    /\ UNCHANGED <<server, reloads, torn>>

(* handleLoginSubmit: the form is on the overlay, its button disabled while  *)
(* a sign-in is under way.                                                   *)
SubmitLogin(u) ==
    /\ overlay
    /\ \A c \in calls : c.kind # "login"
    /\ calls' = calls \cup {Request("login", NoToken, u)}
    /\ UNCHANGED <<server, auth, stored, booting, screen, place, reloads, torn>>

LoginAnswered(c) ==
    /\ c \in calls /\ c.kind = "login" /\ c.answer # "none"
    /\ IF c.answer = "ok"
         THEN /\ setSession(c.token, c.user)
              /\ updateAuthUI
              /\ switchTab(tab, TRUE)
              /\ calls' = (calls \ {c}) \cup {TabRequest}
              /\ torn' = booting
         ELSE calls' = calls \ {c} /\ UNCHANGED <<auth, stored, screen, place, torn>>
    /\ UNCHANGED <<server, booting, reloads>>

(* handleLogout and apiLogout up to the request; without a token there is    *)
(* none to make.                                                             *)
ClickLogout ==
    /\ ~overlay
    /\ IF auth.token # NoToken
         THEN /\ calls' = calls \cup {Request("logout", auth.token, NoUser)}
              /\ UNCHANGED <<auth, stored, screen, torn>>
         ELSE /\ clearSession /\ updateAuthUI /\ SessionChanged
              /\ UNCHANGED calls
    /\ UNCHANGED <<server, booting, place, reloads>>

(* Its `finally': whatever came back, and whoever is signed in by now. *)
LogoutAnswered(c) ==
    /\ c \in calls /\ c.kind = "logout"
    /\ clearSession /\ updateAuthUI /\ SessionChanged
    /\ calls' = calls \ {c}
    /\ UNCHANGED <<server, booting, place, reloads>>

(* A request of a view is refused: because its session has ended, or because *)
(* it asked for an attendance synchronisation and the portal's session has.  *)
(* (The page meets no other 401.  The change of password has one for a wrong *)
(* password, but the form of the settings names that field otherwise and is  *)
(* answered 400 before it is looked at.)                                     *)
DataRefused(c) ==
    /\ c \in calls
    /\ c.kind = "sync" \/ (c.kind = "data" /\ c.token \notin live)
    /\ Unauthorized /\ SessionChanged
    /\ calls' = calls \ {c}
    /\ UNCHANGED <<server, booting, place, reloads>>

(* It is served, or lost: neither touches the session.                       *)
DataServed(c) ==
    /\ c \in calls /\ c.kind \in {"data", "sync"}
    /\ calls' = calls \ {c}
    /\ UNCHANGED <<server, auth, stored, booting, screen, place, reloads, torn>>

(* A click on a tab; the overlay covers them all. *)
ClickTab(t) ==
    /\ ~overlay
    /\ UNCHANGED auth
    /\ switchTab(t, timers.system)
    /\ calls' = calls \cup {TabRequest}
    /\ UNCHANGED <<server, stored, booting, screen, reloads, torn>>

(* switchDiagSubtab, from a button of the Diagnostics pane. *)
ClickDiagSubtab(s) ==
    /\ ~overlay /\ tab = "diagnostics"
    /\ diag' = s
    /\ stream' = IF s = "logs" THEN {auth.token} ELSE stream
    /\ calls' = IF s = "logs" THEN calls
                ELSE calls \cup {Request("data", auth.token, NoUser)}
    /\ UNCHANGED <<server, auth, stored, booting, screen, tab, hash, timers, reloads, torn>>

(* The synchronisation button of Attendance, disabled while it waits. *)
ClickSync ==
    /\ ~overlay /\ tab = "academics"
    /\ \A c \in calls : c.kind # "sync"
    /\ calls' = calls \cup {Request("sync", auth.token, NoUser)}
    /\ UNCHANGED <<server, auth, stored, booting, screen, place, reloads, torn>>

(* The interval of startMcpPolling fires. *)
PollMcp ==
    /\ timers.mcp /\ tab = "mcp" /\ auth.on
    /\ calls' = calls \cup {Request("data", auth.token, NoUser)}
    /\ UNCHANGED <<server, auth, stored, booting, screen, place, reloads, torn>>

(* The page is loaded again: the scripts start from localStorage, and with a *)
(* token the check of it is sent.                                            *)
Reload ==
    /\ reloads < MaxReloads
    /\ reloads' = reloads + 1
    /\ auth' = FromStorage(stored)
    /\ booting' = (stored.token # NoToken)
    /\ overlay' = ~booting'
    /\ header' = [user |-> NoUser, admin |-> TRUE]
    /\ tab' = "dashboard" /\ diag' = "system" /\ stream' = {}
    /\ timers' = [system |-> FALSE, mcp |-> FALSE]
    /\ calls' = IF booting' THEN {Request("me", stored.token, NoUser)} ELSE {}
    /\ UNCHANGED <<server, stored, hash, torn>>

(* The window is opened with nothing stored, or with the session of an       *)
(* earlier visit, which may have ended meanwhile.                            *)
Init ==
    /\ \E u \in MaybeUser :
         /\ owner = [t \in Tokens |-> IF t = 1 THEN u ELSE NoUser]
         /\ \/ stored = NothingStored
            \/ u # NoUser /\ stored = [token |-> 1, user |-> u]
    /\ live \in SUBSET {t \in Tokens : owner[t] # NoUser}
    /\ auth = FromStorage(stored)
    /\ booting = (stored.token # NoToken)
    /\ overlay = ~booting
    /\ header = [user |-> NoUser, admin |-> TRUE]
    /\ tab = "dashboard" /\ hash \in Tabs /\ diag = "system" /\ stream = {}
    /\ timers = [system |-> FALSE, mcp |-> FALSE]
    /\ calls = IF booting THEN {Request("me", stored.token, NoUser)} ELSE {}
    /\ reloads = 0
    /\ torn = FALSE

Serve(c) == ServeLogin(c) \/ ServeLogout(c) \/ ServeMe(c) \/ Fail(c)

Land(c) ==
    \/ CheckAnswered(c) \/ LoginAnswered(c) \/ LogoutAnswered(c)
    \/ DataRefused(c) \/ DataServed(c)

Next ==
    \/ \E c \in calls : Serve(c) \/ Land(c)
    \/ \E t \in Tokens : EndSession(t)
    \/ \E u \in Users : SubmitLogin(u)
    \/ \E t \in Tabs : ClickTab(t)
    \/ \E s \in {"system", "logs"} : ClickDiagSubtab(s)
    \/ ClickLogout
    \/ ClickSync
    \/ PollMcp
    \/ Reload

Spec == Init /\ [][Next]_vars

(* The interval keeps firing, and a request that is made again and again     *)
(* with the page's token reaches the server at some time, and its refusal    *)
(* the page.                                                                 *)
FairSpec ==
    /\ Spec
    /\ WF_vars(PollMcp)
    /\ SF_vars(DataRefused(Request("data", auth.token, NoUser)))

-----------------------------------------------------------------------------
(* Every variable has its type, and the clients of Diagnostics at most one   *)
(* log stream.                                                               *)
TypeOK ==
    /\ owner \in [Tokens -> MaybeUser]
    /\ live \subseteq Tokens
    /\ auth \in [token : MaybeToken, user : MaybeUser, on : BOOLEAN]
    /\ stored \in [token : MaybeToken, user : MaybeUser]
    /\ booting \in BOOLEAN /\ overlay \in BOOLEAN /\ torn \in BOOLEAN
    /\ header \in [user : MaybeUser, admin : BOOLEAN]
    /\ tab \in Tabs /\ hash \in Tabs /\ diag \in {"system", "logs"}
    /\ stream \subseteq MaybeToken
    /\ timers \in [system : BOOLEAN, mcp : BOOLEAN]
    /\ calls \subseteq Calls
    /\ reloads \in 0 .. MaxReloads

(* localStorage holds the token and the user the page works with, whichever  *)
(* answers crossed, so a reload finds the session the screen showed          *)
(* (setSession, which may be called without a token, and clearSession).      *)
StoredIsMirrored == stored = [token |-> auth.token, user |-> auth.user]

(* Once the opening check is over the sign-in form covers the page exactly   *)
(* when nobody is signed in, and otherwise the header names the user and     *)
(* shows the administrator's elements to administrators only; while the      *)
(* check runs the form is never shown over a session (updateAuthUI after     *)
(* every change of authState).                                               *)
OverlayTells ==
    /\ ~booting => overlay = ~auth.on
    /\ overlay => ~auth.on
    /\ ~booting /\ ~overlay => header = [user |-> auth.user, admin |-> isAdmin(auth)]

(* Whoever is signed in with Diagnostics open, or with its log stream        *)
(* running, is an administrator: also when an administrator's session ended  *)
(* there and another user signed in over it (switchTab's guard and its       *)
(* closing of the stream).                                                   *)
DiagnosticsForAdmins ==
    /\ auth.on /\ tab = "diagnostics" => isAdmin(auth)
    /\ stream # {} => tab = "diagnostics"

(* The user the page shows is the one its token was issued to, unless a      *)
(* session began or ended while the opening check was under way              *)
(* (apiCheckAuth pairs the answer with whatever token it then finds).        *)
IdentityMatches ==
    auth.on /\ ~torn => auth.token # NoToken /\ owner[auth.token] = auth.user

(* On the MCP tab a session that has ended at the server is noticed: the     *)
(* page signs out, unless the user leaves the tab or reloads (startMcpPolling *)
(* and the 401 of apiFetch).                                                 *)
RevokedIsNoticed ==
    (auth.on /\ tab = "mcp" /\ auth.token \notin live)
        ~> (~auth.on \/ tab # "mcp" \/ auth.token \in live)

(* "Session expired or invalid": the comment at apiFetch's test for 401,     *)
(* which ends the session of the page.                                       *)
RefusalMeansExpired ==
    [][\A c \in calls : DataRefused(c) /\ auth.on /\ ~auth'.on => auth.token \notin live]_vars

=============================================================================

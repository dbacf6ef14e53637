-------------------------- MODULE WebSession_proof --------------------------
(* What holds of WebSession for any users, tabs, sessions and reloads.       *)
EXTENDS WebSession, TLAPS

(* What is known of a request that is under way. *)
CallOK(c) ==
    /\ c.kind = "login" => c.user \in Users
    /\ c.kind \in {"me", "login"} /\ c.answer = "ok" =>
         c.token \in Tokens /\ c.user \in Users /\ owner[c.token] = c.user
    /\ c.kind = "me" =>
         booting /\ c.token \in Tokens /\ (~torn => c.token = auth.token)

CallsOK == \A c \in calls : CallOK(c)

OneCheck == \A c, d \in calls : c.kind = "me" /\ d.kind = "me" => c = d

LiveOwned == \A t \in live : owner[t] \in Users

(* Of whom the page takes itself to be. *)
AuthOK ==
    /\ auth.on => auth.user \in Users
    /\ auth.on /\ ~torn => auth.token # NoToken
    /\ ~torn /\ auth.token # NoToken /\ auth.user # NoUser => owner[auth.token] = auth.user

IInv ==
    /\ TypeOK /\ StoredIsMirrored /\ OverlayTells /\ DiagnosticsForAdmins
    /\ CallsOK /\ OneCheck /\ LiveOwned /\ AuthOK

AuthType == [token : MaybeToken, user : MaybeUser, on : BOOLEAN]
PlaceOK ==
    /\ tab \in Tabs /\ hash \in Tabs /\ diag \in {"system", "logs"}
    /\ stream \subseteq MaybeToken
    /\ timers \in [system : BOOLEAN, mcp : BOOLEAN]

(* What setSession leaves. *)
LEMMA SetSessionFacts ==
    ASSUME TypeOK, StoredIsMirrored, NEW t \in MaybeToken, NEW u \in Users, setSession(t, u)
    PROVE  /\ auth' = [token |-> t, user |-> u, on |-> TRUE]
           /\ auth' \in AuthType
           /\ stored' \in [token : MaybeToken, user : MaybeUser]
           /\ t # NoToken \/ auth.token = NoToken => StoredIsMirrored'
<1>1. auth' = [token |-> t, user |-> u, on |-> TRUE] /\ u \in MaybeUser
  BY DEF setSession, MaybeUser
<1>2. stored.token \in MaybeToken /\ stored.token = auth.token
  BY DEF TypeOK, StoredIsMirrored
<1> QED BY <1>1, <1>2 DEF setSession, AuthType, StoredIsMirrored

(* What clearSession leaves. *)
LEMMA ClearSessionFacts ==
    ASSUME clearSession
    PROVE  /\ auth' = SignedOut
           /\ auth' \in AuthType
           /\ stored' \in [token : MaybeToken, user : MaybeUser]
           /\ StoredIsMirrored'
           /\ ~auth'.on /\ auth'.token = NoToken
  BY DEF clearSession, SignedOut, NothingStored, AuthType, MaybeToken, MaybeUser, StoredIsMirrored

(* updateAuthUI shows the session as it then is. *)
LEMMA ShowFacts ==
    ASSUME TypeOK, updateAuthUI, auth' \in AuthType, auth'.on => auth'.user \in Users
    PROVE  /\ OverlayTells'
           /\ overlay' \in BOOLEAN
           /\ header' \in [user : MaybeUser, admin : BOOLEAN]
<1>1. overlay' = ~auth'.on
  BY WebAssumption DEF updateAuthUI
<1>2. auth'.user \in MaybeUser /\ isAdmin(auth') \in BOOLEAN /\ auth'.on \in BOOLEAN
  BY DEF AuthType, isAdmin
<1>3. header' = IF overlay' THEN header ELSE [user |-> auth'.user, admin |-> isAdmin(auth')]
  BY DEF updateAuthUI
<1>4. header \in [user : MaybeUser, admin : BOOLEAN]
  BY DEF TypeOK
<1>5. header' \in [user : MaybeUser, admin : BOOLEAN]
  BY <1>2, <1>3, <1>4
<1>6. OverlayTells'
  BY <1>1, <1>3 DEF OverlayTells
<1> QED BY <1>1, <1>2, <1>5, <1>6

(* switchTab opens Diagnostics for administrators only and closes the stream *)
(* elsewhere.                                                                *)
LEMMA GoFacts ==
    ASSUME TypeOK, DiagnosticsForAdmins, auth' \in AuthType,
           NEW t \in Tabs, NEW p \in BOOLEAN, switchTab(t, p)
    PROVE  PlaceOK' /\ DiagnosticsForAdmins'
<1> DEFINE target == IF t = "diagnostics" /\ ~isAdmin(auth') THEN "dashboard" ELSE t
<1>1. target \in Tabs
  BY WebAssumption
<1>2. tab' = target /\ hash' = target /\ diag' = diag /\ timers' = [system |-> p, mcp |-> target = "mcp"]
  BY DEF switchTab
<1>3. stream' = IF target = "diagnostics"
                  THEN IF diag = "logs" THEN {auth'.token} ELSE stream
                  ELSE IF tab = "diagnostics" THEN {} ELSE stream
  BY DEF switchTab
<1>4. auth'.token \in MaybeToken /\ stream \subseteq MaybeToken /\ diag \in {"system", "logs"}
  BY DEF AuthType, TypeOK
<1>5. stream' \subseteq MaybeToken
  BY <1>3, <1>4
<1>6. stream # {} => tab = "diagnostics"
  BY DEF DiagnosticsForAdmins
<1>7. stream' # {} => target = "diagnostics"
  BY <1>3, <1>6
<1>8. target = "diagnostics" => isAdmin(auth')
  OBVIOUS
<1>9. DiagnosticsForAdmins'
  BY <1>2, <1>7, <1>8 DEF DiagnosticsForAdmins
<1>10. timers' \in [system : BOOLEAN, mcp : BOOLEAN]
  BY <1>2
<1> QED BY <1>1, <1>2, <1>4, <1>5, <1>9, <1>10 DEF PlaceOK

(* What is sent is a request without an answer. *)
LEMMA RequestFacts ==
    ASSUME NEW k \in Kinds, NEW t \in MaybeToken, NEW u \in MaybeUser
    PROVE  /\ Request(k, t, u) \in Calls
           /\ Request(k, t, u).kind = k /\ Request(k, t, u).answer = "none"
           /\ Request(k, t, u).token = t /\ Request(k, t, u).user = u
  BY DEF Request, Calls, Answers

(* Parts of the invariant that a step leaves alone by leaving what they are  *)
(* about alone.                                                              *)
LEMMA Frames ==
    ASSUME IInv
    PROVE  /\ UNCHANGED place => PlaceOK'
           /\ UNCHANGED <<auth, stored>> => StoredIsMirrored'
           /\ UNCHANGED <<auth, place>> => DiagnosticsForAdmins'
           /\ UNCHANGED place /\ ~auth'.on => DiagnosticsForAdmins'
           /\ UNCHANGED <<auth, screen, booting>> => OverlayTells'
           /\ UNCHANGED <<auth, torn, owner>> => AuthOK'
           /\ UNCHANGED server => LiveOwned'
           /\ UNCHANGED <<owner, booting, torn, auth>> => \A c \in calls : CallOK(c)'
<1>1. UNCHANGED place => PlaceOK'
  BY DEF IInv, TypeOK, place, PlaceOK
<1>2. UNCHANGED <<auth, stored>> => StoredIsMirrored'
  BY DEF IInv, StoredIsMirrored
<1>3. UNCHANGED <<auth, place>> => DiagnosticsForAdmins'
  BY DEF IInv, DiagnosticsForAdmins, place, isAdmin
<1>4. UNCHANGED place /\ ~auth'.on => DiagnosticsForAdmins'
  BY DEF IInv, DiagnosticsForAdmins, place
<1>5. UNCHANGED <<auth, screen, booting>> => OverlayTells'
  BY DEF IInv, OverlayTells, screen, isAdmin
<1>6. UNCHANGED <<auth, torn, owner>> => AuthOK'
  BY DEF IInv, AuthOK
<1>7. UNCHANGED server => LiveOwned'
  BY DEF IInv, LiveOwned, server
<1>8. UNCHANGED <<owner, booting, torn, auth>> => \A c \in calls : CallOK(c)'
  BY DEF IInv, CallsOK, CallOK
<1> QED BY <1>1, <1>2, <1>3, <1>4, <1>5, <1>6, <1>7, <1>8

(* The types, put together from their parts. *)
LEMMA TypeParts ==
    ASSUME TypeOK, PlaceOK',
           owner' \in [Tokens -> MaybeUser], live' \subseteq Tokens,
           auth' \in AuthType, stored' \in [token : MaybeToken, user : MaybeUser],
           booting' \in BOOLEAN, overlay' \in BOOLEAN, torn' \in BOOLEAN,
           header' \in [user : MaybeUser, admin : BOOLEAN],
           calls' \subseteq Calls, reloads' \in 0 .. MaxReloads
    PROVE  TypeOK'
  BY DEF TypeOK, PlaceOK, AuthType

(* A call that is taken out, or gets no company but requests of views,       *)
(* synchronisations and sign-outs, keeps what is known of the calls.         *)
LEMMA FewerCalls ==
    ASSUME IInv,
           \A d \in calls' : d \in calls \/ d.kind \in {"data", "sync", "logout"},
           \A d \in calls' : d \in calls => CallOK(d)'
    PROVE  CallsOK' /\ OneCheck'
<1>1. \A d \in calls' : d.kind \in {"data", "sync", "logout"} => CallOK(d)'
  BY DEF CallOK
<1>2. CallsOK'
  BY <1>1 DEF CallsOK
<1>3. OneCheck'
  BY DEF IInv, OneCheck
<1> QED BY <1>2, <1>3

-----------------------------------------------------------------------------
(* The steps of the server. *)

(* The types of what a step of the server leaves alone. *)
LEMMA PageTypes ==
    ASSUME IInv, UNCHANGED <<auth, stored, booting, screen, place, reloads, torn>>,
           owner' \in [Tokens -> MaybeUser], live' \subseteq Tokens, calls' \subseteq Calls
    PROVE  TypeOK' /\ StoredIsMirrored' /\ OverlayTells' /\ DiagnosticsForAdmins'
<1>1. auth' \in AuthType /\ stored' \in [token : MaybeToken, user : MaybeUser]
      /\ booting' \in BOOLEAN /\ overlay' \in BOOLEAN /\ torn' \in BOOLEAN
      /\ header' \in [user : MaybeUser, admin : BOOLEAN] /\ reloads' \in 0 .. MaxReloads
  BY DEF IInv, TypeOK, AuthType, screen
<1>2. PlaceOK'
  BY Frames
<1>3. TypeOK'
  BY <1>1, <1>2, TypeParts DEF IInv
<1> QED BY <1>3, Frames

(* Answering one request keeps what is known of the others. *)
LEMMA AnsweredCalls ==
    ASSUME IInv, NEW c \in calls, NEW d, calls' = (calls \ {c}) \cup {d},
           d.kind = c.kind, CallOK(d)',
           \A e \in calls : e # c => CallOK(e)'
    PROVE  CallsOK' /\ OneCheck'
<1>1. CallsOK'
  BY DEF CallsOK
<1>2. \A e \in calls' : e = d \/ (e \in calls /\ e # c)
  OBVIOUS
<1>3. OneCheck'
  BY <1>2 DEF IInv, OneCheck
<1> QED BY <1>1, <1>3

(* The server answers a sign-in, and a token gets its owner.                 *)
LEMMA ServeLoginInv ==
    ASSUME IInv, NEW c \in calls, ServeLogin(c)
    PROVE  IInv'
<1> DEFINE Rest == <<auth, stored, booting, screen, place, reloads, torn>>
<1>0. /\ c.kind = "login" /\ c.answer = "none" /\ UNCHANGED Rest
      /\ c \in Calls /\ c.user \in Users /\ calls \subseteq Calls
  BY DEF ServeLogin, Waiting, IInv, TypeOK, CallsOK, CallOK
<1>1. CASE Answered(c, "refused") /\ UNCHANGED server
  <2> DEFINE d == [c EXCEPT !.answer = "refused"]
  <2>1. d \in Calls /\ d.kind = "login" /\ d.user = c.user /\ d.answer = "refused"
    BY <1>0 DEF Calls, Answers
  <2>2. calls' = (calls \ {c}) \cup {d}
    BY <1>1 DEF Answered
  <2>3. CallOK(d)'
    BY <2>1, <1>0 DEF CallOK
  <2>4. \A e \in calls : CallOK(e)'
    BY <1>0, <1>1, Frames DEF server
  <2>5. CallsOK' /\ OneCheck'
    BY <1>0, <2>1, <2>2, <2>3, <2>4, AnsweredCalls
  <2>6. TypeOK' /\ StoredIsMirrored' /\ OverlayTells' /\ DiagnosticsForAdmins'
    BY <1>0, <1>1, <2>1, <2>2, PageTypes DEF server, IInv, TypeOK
  <2>7. LiveOwned' /\ AuthOK'
    BY <1>0, <1>1, Frames DEF server
  <2> QED BY <2>5, <2>6, <2>7 DEF IInv
<1>2. ASSUME NEW t \in Tokens, owner[t] = NoUser,
             owner' = [owner EXCEPT ![t] = c.user], live' = live \cup {t},
             calls' = (calls \ {c}) \cup {[c EXCEPT !.answer = "ok", !.token = t]}
      PROVE  IInv'
  <2> DEFINE d == [c EXCEPT !.answer = "ok", !.token = t]
  <2>1. d \in Calls /\ d.kind = "login" /\ d.user = c.user /\ d.answer = "ok" /\ d.token = t
    BY <1>0 DEF Calls, Answers, MaybeToken
  <2>2. /\ \A s \in Tokens : owner[s] \in Users => owner'[s] = owner[s]
        /\ owner'[t] = c.user /\ owner' \in [Tokens -> MaybeUser]
    BY <1>0, <1>2, WebAssumption DEF IInv, TypeOK, MaybeUser
  <2>3. CallOK(d)'
    BY <2>1, <2>2, <1>0 DEF CallOK
  <2>4. \A e \in calls : CallOK(e)'
    <3> TAKE e \in calls
    <3>1. CallOK(e)
      BY DEF IInv, CallsOK
    <3> QED BY <3>1, <2>2, <1>0 DEF CallOK
  <2>5. CallsOK' /\ OneCheck'
    BY <1>0, <1>2, <2>1, <2>3, <2>4, AnsweredCalls
  <2>6. TypeOK' /\ StoredIsMirrored' /\ OverlayTells' /\ DiagnosticsForAdmins'
    BY <1>0, <1>2, <2>1, <2>2, PageTypes DEF IInv, TypeOK
  <2>7. LiveOwned'
    BY <1>0, <1>2, <2>2 DEF IInv, LiveOwned, TypeOK
  <2>8. AuthOK'
    <3>1. auth.token \in MaybeToken /\ auth.user \in MaybeUser
      BY DEF IInv, TypeOK
    <3> QED BY <1>0, <2>2, <3>1, WebAssumption DEF IInv, AuthOK, MaybeToken, MaybeUser, NoToken
  <2> QED BY <2>5, <2>6, <2>7, <2>8 DEF IInv
<1> QED BY <1>1, <1>2 DEF ServeLogin

(* The server answers the opening check.                                     *)
LEMMA ServeMeInv ==
    ASSUME IInv, NEW c \in calls, ServeMe(c)
    PROVE  IInv'
<1>0. PICK d : d = IF c.token \in live THEN [c EXCEPT !.answer = "ok", !.user = owner[c.token]]
                   ELSE [c EXCEPT !.answer = "refused"]
  OBVIOUS
<1>1. /\ c.kind = "me" /\ calls' = (calls \ {c}) \cup {d}
      /\ UNCHANGED <<server, auth, stored, booting, screen, place, reloads, torn>>
      /\ c \in Calls /\ calls \subseteq Calls /\ CallOK(c)
  BY <1>0 DEF ServeMe, Waiting, IInv, TypeOK, CallsOK
<1>2. c.token \in live => owner[c.token] \in Users
  BY DEF IInv, LiveOwned
<1>3. /\ d \in Calls /\ d.kind = "me" /\ d.token = c.token
      /\ d.answer = "ok" => d.user \in Users /\ d.user = owner[c.token]
  BY <1>0, <1>1, <1>2 DEF Calls, Answers, MaybeUser
<1>4. UNCHANGED <<owner, booting, torn, auth>>
  BY <1>1 DEF server
<1>5. \A e \in calls : CallOK(e)'
  BY <1>4, Frames
<1>6. CallOK(d)'
  BY <1>1, <1>3, <1>4 DEF CallOK
<1>7. CallsOK' /\ OneCheck'
  BY <1>1, <1>3, <1>5, <1>6, AnsweredCalls
<1>8. TypeOK' /\ StoredIsMirrored' /\ OverlayTells' /\ DiagnosticsForAdmins'
  BY <1>1, <1>3, PageTypes DEF server, IInv, TypeOK
<1>9. LiveOwned' /\ AuthOK'
  BY <1>1, Frames DEF server
<1> QED BY <1>7, <1>8, <1>9 DEF IInv

(* A check or a sign-in fails.                                               *)
LEMMA FailInv ==
    ASSUME IInv, NEW c \in calls, Fail(c)
    PROVE  IInv'
<1>1. PICK a \in {"broken", "lost"} : Answered(c, a)
  BY DEF Fail
<1> DEFINE d == [c EXCEPT !.answer = a]
<1>2. /\ calls' = (calls \ {c}) \cup {d}
      /\ UNCHANGED <<server, auth, stored, booting, screen, place, reloads, torn>>
      /\ c \in Calls /\ calls \subseteq Calls /\ CallOK(c)
  BY <1>1 DEF Fail, Answered, IInv, TypeOK, CallsOK
<1>3. /\ d \in Calls /\ d.kind = c.kind /\ d.token = c.token /\ d.user = c.user
      /\ d.answer # "ok"
  BY <1>2 DEF Calls, Answers
<1>4. UNCHANGED <<owner, booting, torn, auth>>
  BY <1>2 DEF server
<1>5. \A e \in calls : CallOK(e)'
  BY <1>4, Frames
<1>6. CallOK(d)'
  BY <1>2, <1>3, <1>4 DEF CallOK
<1>7. CallsOK' /\ OneCheck'
  BY <1>2, <1>3, <1>5, <1>6, AnsweredCalls
<1>8. TypeOK' /\ StoredIsMirrored' /\ OverlayTells' /\ DiagnosticsForAdmins'
  BY <1>2, <1>3, PageTypes DEF server, IInv, TypeOK
<1>9. LiveOwned' /\ AuthOK'
  BY <1>2, Frames DEF server
<1> QED BY <1>7, <1>8, <1>9 DEF IInv

(* A session that ends at the server, by a sign-out or otherwise. *)
LEMMA EndsInv ==
    ASSUME IInv, live' \subseteq live,
           UNCHANGED <<owner, auth, stored, booting, screen, place, calls, reloads, torn>>
    PROVE  IInv'
<1>1. TypeOK' /\ StoredIsMirrored' /\ OverlayTells' /\ DiagnosticsForAdmins'
  BY PageTypes DEF IInv, TypeOK
<1>2. \A e \in calls : CallOK(e)'
  BY Frames
<1>3. CallsOK' /\ OneCheck'
  BY <1>2, FewerCalls
<1>4. AuthOK' /\ LiveOwned'
  BY Frames DEF IInv, LiveOwned
<1> QED BY <1>1, <1>3, <1>4 DEF IInv

-----------------------------------------------------------------------------
(* The steps of the page. *)

(* A sign-out leaves a page that is signed out, covered and stored so. *)
LEMMA SignOutInv ==
    ASSUME IInv, clearSession, updateAuthUI, SessionChanged,
           UNCHANGED <<server, booting, place, reloads>>,
           calls' \subseteq calls
    PROVE  IInv'
<1>1. /\ auth' = SignedOut /\ auth' \in AuthType /\ ~auth'.on /\ StoredIsMirrored'
      /\ stored' \in [token : MaybeToken, user : MaybeUser]
  BY ClearSessionFacts
<1>2. OverlayTells' /\ overlay' \in BOOLEAN /\ header' \in [user : MaybeUser, admin : BOOLEAN]
  BY <1>1, ShowFacts DEF IInv
<1>3. PlaceOK' /\ DiagnosticsForAdmins' /\ LiveOwned'
  BY <1>1, Frames
<1>4. torn' = (torn \/ (booting /\ auth' # auth)) /\ torn' \in BOOLEAN
  BY DEF SessionChanged, IInv, TypeOK
<1>5. \A d \in calls : CallOK(d)'
  BY <1>4 DEF IInv, CallsOK, CallOK, server
<1>6. CallsOK' /\ OneCheck'
  BY <1>5, FewerCalls
<1>7. AuthOK'
  BY <1>1 DEF AuthOK, SignedOut, NoToken
<1>8. TypeOK'
  BY <1>1, <1>2, <1>3, <1>4, TypeParts DEF IInv, TypeOK, server
<1> QED BY <1>1, <1>2, <1>3, <1>6, <1>7, <1>8 DEF IInv

(* A step that touches neither the session nor the screen, and at most opens *)
(* another place in the page.                                                *)
LEMMA QuietInv ==
    ASSUME IInv, UNCHANGED <<server, auth, stored, booting, screen, reloads, torn>>,
           PlaceOK', DiagnosticsForAdmins', calls' \subseteq Calls, CallsOK', OneCheck'
    PROVE  IInv'
<1>1. StoredIsMirrored' /\ OverlayTells' /\ LiveOwned' /\ AuthOK'
  BY Frames DEF server
<1>2. TypeOK'
  BY TypeParts DEF IInv, TypeOK, AuthType, server, screen
<1> QED BY <1>1, <1>2 DEF IInv

(* More requests of views, and perhaps one fewer of another kind. *)
LEMMA QuietCalls ==
    ASSUME IInv, UNCHANGED <<owner, booting, torn, auth>>, NEW R \in SUBSET Calls,
           \A r \in R : r.kind \in {"data", "sync", "logout"}, calls' \subseteq calls \cup R
    PROVE  calls' \subseteq Calls /\ CallsOK' /\ OneCheck'
<1>1. calls' \subseteq Calls
  BY DEF IInv, TypeOK
<1>2. \A d \in calls : CallOK(d)'
  BY Frames
<1> QED BY <1>1, <1>2, FewerCalls

(* The same when nothing is sent.                                            *)
LEMMA QuietFewer ==
    ASSUME IInv, UNCHANGED <<owner, booting, torn, auth>>, calls' \subseteq calls
    PROVE  calls' \subseteq Calls /\ CallsOK' /\ OneCheck'
<1>1. calls' \subseteq Calls
  BY DEF IInv, TypeOK
<1>2. \A d \in calls : CallOK(d)'
  BY Frames
<1> QED BY <1>1, <1>2, FewerCalls

(* An answer to a view: refused, or not.                                     *)
LEMMA DataInv ==
    ASSUME IInv, NEW c \in calls, DataRefused(c) \/ DataServed(c)
    PROVE  IInv'
<1>1. ASSUME DataRefused(c), auth.on PROVE IInv'
  BY <1>1, SignOutInv DEF DataRefused, Unauthorized
<1>2. ASSUME UNCHANGED <<server, auth, stored, booting, screen, place, reloads>>, torn' = torn,
             calls' = calls \ {c}
      PROVE  IInv'
  <2>1. PlaceOK' /\ DiagnosticsForAdmins'
    BY <1>2, Frames
  <2>2. calls' \subseteq Calls /\ CallsOK' /\ OneCheck'
    BY <1>2, QuietFewer DEF server
  <2> QED BY <1>2, <2>1, <2>2, QuietInv
<1>3. ASSUME DataRefused(c), ~auth.on PROVE IInv'
  <2>1. auth' = auth /\ torn \in BOOLEAN /\ torn' = (torn \/ (booting /\ auth' # auth))
    BY <1>3 DEF DataRefused, Unauthorized, SessionChanged, IInv, TypeOK
  <2>2. torn' = torn
    BY <2>1
  <2> QED BY <1>2, <1>3, <2>2 DEF DataRefused, Unauthorized
<1>4. ASSUME DataServed(c) PROVE IInv'
  BY <1>2, <1>4 DEF DataServed
<1> QED BY <1>1, <1>3, <1>4

(* Signing out, from the click to the answer.                                *)
LEMMA LogoutInv ==
    ASSUME IInv, ClickLogout \/ \E c \in calls : LogoutAnswered(c)
    PROVE  IInv'
<1>1. ASSUME NEW c \in calls, LogoutAnswered(c) PROVE IInv'
  BY <1>1, SignOutInv DEF LogoutAnswered
<1>2. ASSUME ClickLogout, auth.token = NoToken PROVE IInv'
  BY <1>2, SignOutInv DEF ClickLogout
<1>3. ASSUME ClickLogout, auth.token # NoToken PROVE IInv'
  <2> DEFINE r == Request("logout", auth.token, NoUser)
  <2>1. r \in Calls /\ r.kind = "logout"
    BY RequestFacts DEF IInv, TypeOK, Kinds, MaybeUser
  <2>2. UNCHANGED <<server, auth, stored, booting, screen, place, reloads, torn>> /\ calls' = calls \cup {r}
    BY <1>3 DEF ClickLogout
  <2>3. \A d \in calls : CallOK(d)'
    BY <2>2, Frames DEF server
  <2>4. CallsOK' /\ OneCheck'
    BY <2>1, <2>2, <2>3, FewerCalls
  <2>5. PlaceOK' /\ DiagnosticsForAdmins'
    BY <2>2, Frames
  <2>6. calls' \subseteq Calls
    BY <2>1, <2>2 DEF IInv, TypeOK
  <2> QED BY <2>2, <2>4, <2>5, <2>6, QuietInv
<1> QED BY <1>1, <1>2, <1>3

(* The sign-in form is sent.                                                 *)
LEMMA SubmitInv ==
    ASSUME IInv, NEW u \in Users, SubmitLogin(u)
    PROVE  IInv'
<1> DEFINE r == Request("login", NoToken, u)
<1>1. r \in Calls /\ r.kind = "login" /\ r.user = u /\ r.answer = "none"
  BY RequestFacts DEF Kinds, MaybeUser, MaybeToken
<1>2. /\ UNCHANGED <<server, auth, stored, booting, screen, place, reloads, torn>>
      /\ calls' = calls \cup {r}
  BY DEF SubmitLogin
<1>3. CallOK(r)' /\ \A d \in calls : CallOK(d)'
  BY <1>1, <1>2, Frames DEF CallOK, server
<1>4. CallsOK' /\ OneCheck'
  <2>1. CallsOK'
    BY <1>2, <1>3 DEF CallsOK
  <2>2. OneCheck'
    BY <1>1, <1>2 DEF IInv, OneCheck
  <2> QED BY <2>1, <2>2
<1>5. PlaceOK' /\ DiagnosticsForAdmins' /\ calls' \subseteq Calls
  BY <1>1, <1>2, Frames DEF IInv, TypeOK
<1> QED BY <1>2, <1>4, <1>5, QuietInv

(* The clicks and the poll. *)
LEMMA ClickInv ==
    ASSUME IInv, \/ \E t \in Tabs : ClickTab(t)
                 \/ \E s \in {"system", "logs"} : ClickDiagSubtab(s)
                 \/ ClickSync \/ PollMcp
    PROVE  IInv'
<1> DEFINE R == {Request("data", auth.token, NoUser), Request("sync", auth.token, NoUser)}
<1>1. R \in SUBSET Calls /\ \A r \in R : r.kind \in {"data", "sync", "logout"}
  BY RequestFacts DEF IInv, TypeOK, Kinds, MaybeUser
<1>2. ASSUME NEW t \in Tabs, ClickTab(t) PROVE IInv'
  <2>1. /\ UNCHANGED <<server, auth, stored, booting, screen, reloads, torn>>
        /\ switchTab(t, timers.system) /\ calls' = calls \cup {TabRequest}
    BY <1>2 DEF ClickTab
  <2>2. auth' \in AuthType /\ timers.system \in BOOLEAN
    BY <2>1 DEF IInv, TypeOK, AuthType
  <2>3. PlaceOK' /\ DiagnosticsForAdmins'
    BY <2>1, <2>2, GoFacts DEF IInv
  <2>4. calls' \subseteq calls \cup R
    BY <2>1 DEF TabRequest
  <2>5. calls' \subseteq Calls /\ CallsOK' /\ OneCheck'
    BY <1>1, <2>1, <2>4, QuietCalls DEF server
  <2> QED BY <2>1, <2>3, <2>5, QuietInv
<1>3. ASSUME NEW s \in {"system", "logs"}, ClickDiagSubtab(s) PROVE IInv'
  <2>1. /\ UNCHANGED <<server, auth, stored, booting, screen, tab, hash, timers, reloads, torn>>
        /\ diag' = s /\ tab = "diagnostics"
        /\ stream' = IF s = "logs" THEN {auth.token} ELSE stream
        /\ calls' \subseteq calls \cup R
    BY <1>3 DEF ClickDiagSubtab
  <2>2. PlaceOK'
    BY <2>1 DEF IInv, TypeOK, PlaceOK
  <2>3. DiagnosticsForAdmins'
    BY <2>1 DEF IInv, DiagnosticsForAdmins, isAdmin
  <2>4. calls' \subseteq Calls /\ CallsOK' /\ OneCheck'
    BY <1>1, <2>1, QuietCalls DEF server
  <2> QED BY <2>1, <2>2, <2>3, <2>4, QuietInv
<1>4. ASSUME ClickSync \/ PollMcp PROVE IInv'
  <2>1. /\ UNCHANGED <<server, auth, stored, booting, screen, place, reloads, torn>>
        /\ calls' \subseteq calls \cup R
    BY <1>4 DEF ClickSync, PollMcp
  <2>2. PlaceOK' /\ DiagnosticsForAdmins'
    BY <2>1, Frames
  <2>3. calls' \subseteq Calls /\ CallsOK' /\ OneCheck'
    BY <1>1, <2>1, QuietCalls DEF server
  <2> QED BY <2>1, <2>2, <2>3, QuietInv
<1> QED BY <1>2, <1>3, <1>4

(* An answer to a sign-in. *)
LEMMA LoginInv ==
    ASSUME IInv, NEW c \in calls, LoginAnswered(c)
    PROVE  IInv'
<1>1. CallOK(c) /\ c.kind = "login" /\ UNCHANGED <<server, booting, reloads>> /\ c \in Calls
  BY DEF LoginAnswered, IInv, CallsOK, TypeOK
<1>2. CASE c.answer = "ok"
  <2>1. /\ setSession(c.token, c.user) /\ updateAuthUI /\ switchTab(tab, TRUE)
        /\ calls' = (calls \ {c}) \cup {TabRequest} /\ torn' = booting
    BY <1>2 DEF LoginAnswered
  <2>2. c.token \in Tokens /\ c.user \in Users /\ owner[c.token] = c.user
    BY <1>1, <1>2 DEF CallOK
  <2>3. c.token \in MaybeToken /\ c.token # NoToken
    BY <2>2 DEF MaybeToken, Tokens, NoToken
  <2>4. /\ auth' = [token |-> c.token, user |-> c.user, on |-> TRUE] /\ auth' \in AuthType
        /\ stored' \in [token : MaybeToken, user : MaybeUser] /\ StoredIsMirrored'
    BY <2>1, <2>2, <2>3, SetSessionFacts DEF IInv
  <2>5. OverlayTells' /\ overlay' \in BOOLEAN /\ header' \in [user : MaybeUser, admin : BOOLEAN]
    BY <2>1, <2>2, <2>4, ShowFacts DEF IInv
  <2>6. PlaceOK' /\ DiagnosticsForAdmins'
    BY <2>1, <2>4, GoFacts DEF IInv, TypeOK
  <2>7. TabRequest \in Calls /\ TabRequest.kind = "data"
    <3>1. auth'.token \in MaybeToken
      BY <2>3, <2>4
    <3> QED BY <3>1, RequestFacts DEF TabRequest, Kinds, MaybeUser
  <2>8. \A d \in calls : CallOK(d)'
    BY <1>1, <2>1 DEF IInv, CallsOK, CallOK, server
  <2>9. CallsOK' /\ OneCheck'
    BY <2>1, <2>7, <2>8, FewerCalls
  <2>10. AuthOK'
    BY <1>1, <2>2, <2>3, <2>4 DEF AuthOK, server
  <2>11. TypeOK'
    BY <1>1, <2>1, <2>4, <2>5, <2>6, <2>7, TypeParts DEF IInv, TypeOK, server
  <2>12. LiveOwned'
    BY <1>1, Frames
  <2> QED BY <2>4, <2>5, <2>6, <2>9, <2>10, <2>11, <2>12 DEF IInv
<1>3. CASE c.answer # "ok"
  <2>1. /\ UNCHANGED <<server, auth, stored, booting, screen, place, reloads, torn>>
        /\ calls' = calls \ {c}
    BY <1>1, <1>3 DEF LoginAnswered
  <2>2. PlaceOK' /\ DiagnosticsForAdmins'
    BY <2>1, Frames
  <2>3. calls' \subseteq Calls /\ CallsOK' /\ OneCheck'
    BY <2>1, QuietFewer DEF server
  <2> QED BY <2>1, <2>2, <2>3, QuietInv
<1> QED BY <1>2, <1>3

(* The answer to the opening check. *)
LEMMA CheckInv ==
    ASSUME IInv, NEW c \in calls, CheckAnswered(c)
    PROVE  IInv'
<1>1. /\ CallOK(c) /\ c.kind = "me" /\ c \in Calls /\ booting' = FALSE
      /\ UNCHANGED <<server, reloads, torn>> /\ updateAuthUI
  BY DEF CheckAnswered, IInv, CallsOK, TypeOK
<1>2. /\ booting /\ c.token \in Tokens /\ (~torn => c.token = auth.token)
      /\ auth \in AuthType
  BY <1>1 DEF CallOK, IInv, TypeOK, AuthType
<1>3. /\ auth' \in AuthType /\ stored' \in [token : MaybeToken, user : MaybeUser]
      /\ StoredIsMirrored' /\ (auth'.on => auth'.user \in Users) /\ AuthOK'
  <2>1. CASE c.answer = "ok" /\ setSession(auth.token, c.user)
    <3>1. c.user \in Users /\ owner[c.token] = c.user
      BY <1>1, <2>1 DEF CallOK
    <3>2. auth.token \in MaybeToken
      BY <1>2 DEF AuthType
    <3>3. /\ auth' = [token |-> auth.token, user |-> c.user, on |-> TRUE] /\ auth' \in AuthType
          /\ stored' \in [token : MaybeToken, user : MaybeUser] /\ StoredIsMirrored'
      BY <2>1, <3>1, <3>2, SetSessionFacts DEF IInv
    <3>4. AuthOK'
      BY <1>1, <1>2, <3>1, <3>3 DEF AuthOK, server, Tokens, NoToken
    <3> QED BY <3>1, <3>3, <3>4
  <2>2. CASE clearSession
    <3>1. AuthOK'
      BY <2>2, ClearSessionFacts DEF AuthOK, SignedOut, NoToken
    <3> QED BY <2>2, <3>1, ClearSessionFacts
  <2>3. CASE UNCHANGED <<auth, stored>>
    <3>1. AuthOK' /\ StoredIsMirrored'
      BY <1>1, <2>3, Frames DEF server
    <3> QED BY <1>2, <2>3, <3>1 DEF IInv, TypeOK, AuthOK
  <2> QED BY <2>1, <2>2, <2>3 DEF CheckAnswered
<1>4. OverlayTells' /\ overlay' \in BOOLEAN /\ header' \in [user : MaybeUser, admin : BOOLEAN]
  BY <1>1, <1>3, ShowFacts DEF IInv
<1>5. PlaceOK' /\ DiagnosticsForAdmins'
  <2>1. CASE auth'.on
    BY <1>3, <2>1, GoFacts DEF CheckAnswered, IInv, TypeOK
  <2>2. CASE ~auth'.on
    BY <2>2, Frames DEF CheckAnswered
  <2> QED BY <2>1, <2>2
<1>6. /\ calls' \subseteq Calls
      /\ \A d \in calls' : (d \in calls /\ d # c) \/ d.kind = "data"
  <2>1. TabRequest \in Calls /\ TabRequest.kind = "data"
    <3>1. auth'.token \in MaybeToken
      BY <1>3 DEF AuthType
    <3> QED BY <3>1, RequestFacts DEF TabRequest, Kinds, MaybeUser
  <2>2. calls' \subseteq (calls \ {c}) \cup {TabRequest}
    BY DEF CheckAnswered
  <2> QED BY <2>1, <2>2 DEF IInv, TypeOK
<1>7. \A d \in calls' : d.kind # "me"
  BY <1>1, <1>6 DEF IInv, OneCheck
<1>8. \A d \in calls' : CallOK(d)'
  BY <1>1, <1>6, <1>7 DEF IInv, CallsOK, CallOK, server
<1>9. CallsOK' /\ OneCheck'
  BY <1>7, <1>8 DEF CallsOK, OneCheck
<1>10. TypeOK'
  BY <1>1, <1>3, <1>4, <1>5, <1>6, TypeParts DEF IInv, TypeOK, server
<1>11. LiveOwned'
  BY <1>1, Frames
<1> QED BY <1>3, <1>4, <1>5, <1>9, <1>10, <1>11 DEF IInv

(* A page that starts from what is stored: at first, and at every reload. *)
LEMMA ReloadInv ==
    ASSUME IInv, Reload
    PROVE  IInv'
<1> DEFINE r == Request("me", auth.token, NoUser)
<1>1. stored.token = auth.token /\ stored.user = auth.user /\ stored \in [token : MaybeToken, user : MaybeUser]
  BY DEF IInv, StoredIsMirrored, TypeOK
<1>2. auth' = [token |-> auth.token, user |-> auth.user,
               on |-> auth.token # NoToken /\ auth.user # NoUser]
  BY <1>1 DEF Reload, FromStorage
<1>3. /\ UNCHANGED <<server, stored, hash, torn>> /\ booting' = (auth.token # NoToken)
      /\ overlay' = ~booting' /\ header' = [user |-> NoUser, admin |-> TRUE]
      /\ tab' = "dashboard" /\ diag' = "system" /\ stream' = {}
      /\ timers' = [system |-> FALSE, mcp |-> FALSE]
      /\ calls' = IF booting' THEN {r} ELSE {}
      /\ reloads < MaxReloads /\ reloads' = reloads + 1
  BY <1>1 DEF Reload
<1>4. /\ auth.token \in MaybeToken /\ auth.user \in MaybeUser /\ hash \in Tabs /\ auth' \in AuthType
  BY <1>1, <1>2 DEF AuthType, IInv, TypeOK
<1>5. r \in Calls /\ r.kind = "me" /\ r.token = auth.token /\ r.answer = "none"
  BY <1>4, RequestFacts DEF Kinds, MaybeUser
<1>6. PlaceOK' /\ DiagnosticsForAdmins'
  BY <1>3, <1>4, WebAssumption DEF PlaceOK, DiagnosticsForAdmins
<1>7. StoredIsMirrored' /\ OverlayTells'
  BY <1>1, <1>2, <1>3 DEF StoredIsMirrored, OverlayTells
<1>8. AuthOK'
  BY <1>2, <1>3, <1>4 DEF AuthOK, IInv, server, MaybeUser
<1>9. booting' => auth.token \in Tokens
  BY <1>3, <1>4 DEF MaybeToken
<1>10. CallsOK' /\ OneCheck'
  BY <1>2, <1>3, <1>5, <1>9 DEF CallsOK, OneCheck, CallOK
<1>11. reloads' \in 0 .. MaxReloads
  BY <1>3, WebAssumption DEF IInv, TypeOK
<1>12. TypeOK'
  BY <1>1, <1>3, <1>4, <1>5, <1>6, <1>11, TypeParts DEF IInv, TypeOK, server, MaybeUser
<1>13. LiveOwned'
  BY <1>3, Frames
<1> QED BY <1>6, <1>7, <1>8, <1>10, <1>12, <1>13 DEF IInv

(* A window that is opened has the invariant.                                *)
LEMMA InitInv == Init => IInv
<1> SUFFICES ASSUME Init PROVE IInv
  OBVIOUS
<1>1. PICK u \in MaybeUser :
         /\ owner = [t \in Tokens |-> IF t = 1 THEN u ELSE NoUser]
         /\ \/ stored = NothingStored
            \/ u # NoUser /\ stored = [token |-> 1, user |-> u]
  BY DEF Init
<1>2. 1 \in Tokens /\ NoToken \notin Tokens /\ NoUser \in MaybeUser /\ NoUser \notin Users
  BY WebAssumption DEF Tokens, NoToken, MaybeUser
<1>3. /\ stored \in [token : MaybeToken, user : MaybeUser]
      /\ stored.token # NoToken => stored.token = 1 /\ stored.user = u /\ u \in Users
      /\ stored.token = NoToken => stored.user = NoUser
  BY <1>1, <1>2 DEF NothingStored, MaybeToken, MaybeUser
<1>4. /\ auth = [token |-> stored.token, user |-> stored.user,
                 on |-> stored.token # NoToken /\ stored.user # NoUser]
      /\ booting = (stored.token # NoToken) /\ overlay = ~booting
      /\ header = [user |-> NoUser, admin |-> TRUE]
      /\ tab = "dashboard" /\ hash \in Tabs /\ diag = "system" /\ stream = {}
      /\ timers = [system |-> FALSE, mcp |-> FALSE]
      /\ calls = IF booting THEN {Request("me", stored.token, NoUser)} ELSE {}
      /\ reloads = 0 /\ torn = FALSE
  BY DEF Init, FromStorage
<1>5. calls \subseteq Calls /\ \A c \in calls : c.kind = "me" /\ c.answer = "none" /\ c.token = stored.token
  BY <1>2, <1>3, <1>4, RequestFacts DEF Kinds
<1>6. owner \in [Tokens -> MaybeUser] /\ live \subseteq Tokens /\ \A t \in live : owner[t] # NoUser
  BY <1>1, <1>2 DEF Init
<1>7. TypeOK
  <2>1. auth \in [token : MaybeToken, user : MaybeUser, on : BOOLEAN]
    BY <1>3, <1>4
  <2>2. booting \in BOOLEAN /\ overlay \in BOOLEAN /\ torn \in BOOLEAN
    BY <1>4
  <2>3. header \in [user : MaybeUser, admin : BOOLEAN] /\ timers \in [system : BOOLEAN, mcp : BOOLEAN]
    BY <1>2, <1>4
  <2>4. tab \in Tabs /\ hash \in Tabs /\ diag \in {"system", "logs"} /\ stream \subseteq MaybeToken
    BY <1>4, WebAssumption
  <2>5. reloads \in 0 .. MaxReloads
    BY <1>4, WebAssumption
  <2> QED BY <1>3, <1>5, <1>6, <2>1, <2>2, <2>3, <2>4, <2>5 DEF TypeOK
<1>8. StoredIsMirrored /\ OverlayTells /\ DiagnosticsForAdmins
  BY <1>2, <1>3, <1>4 DEF StoredIsMirrored, OverlayTells, DiagnosticsForAdmins
<1>9. CallsOK /\ OneCheck
  BY <1>2, <1>3, <1>4, <1>5 DEF CallsOK, CallOK, OneCheck
<1>10. LiveOwned /\ AuthOK
  BY <1>1, <1>2, <1>3, <1>4, <1>6 DEF LiveOwned, AuthOK, MaybeUser
<1> QED BY <1>7, <1>8, <1>9, <1>10 DEF IInv

(* Every step keeps the invariant. *)
LEMMA NextInv == IInv /\ [Next]_vars => IInv'
<1> SUFFICES ASSUME IInv, [Next]_vars PROVE IInv'
  OBVIOUS
<1>1. ASSUME NEW c \in calls, Serve(c) PROVE IInv'
  <2>1. ASSUME ServeLogout(c) PROVE IInv'
    BY <2>1, EndsInv DEF ServeLogout
  <2> QED BY <1>1, <2>1, ServeLoginInv, ServeMeInv, FailInv DEF Serve
<1>2. ASSUME NEW c \in calls, Land(c) PROVE IInv'
  BY <1>2, CheckInv, LoginInv, LogoutInv, DataInv DEF Land
<1>3. ASSUME NEW t \in Tokens, EndSession(t) PROVE IInv'
  BY <1>3, EndsInv DEF EndSession
<1>4. ASSUME NEW u \in Users, SubmitLogin(u) PROVE IInv'
  BY <1>4, SubmitInv
<1>5. CASE UNCHANGED vars
  <2>1. PlaceOK' /\ DiagnosticsForAdmins'
    BY <1>5, Frames DEF vars
  <2>2. calls' \subseteq Calls /\ CallsOK' /\ OneCheck'
    BY <1>5, QuietFewer DEF vars, server
  <2> QED BY <1>5, <2>1, <2>2, QuietInv DEF vars
<1>6. CASE Reload
  BY <1>6, ReloadInv
<1>7. CASE ClickLogout
  BY <1>7, LogoutInv
<1> QED BY <1>1, <1>2, <1>3, <1>4, <1>5, <1>6, <1>7, ClickInv DEF Next

(* The invariant of the window. *)
THEOREM Inductive == Spec => []IInv
  BY InitInv, NextInv, PTL DEF Spec

(* Every variable keeps its type. *)
THEOREM TypeCorrect == Spec => []TypeOK
<1>1. IInv => TypeOK
  BY DEF IInv
<1> QED BY <1>1, Inductive, PTL

(* localStorage and the page agree, whatever answers cross: a reload finds   *)
(* the session that was shown.                                               *)
THEOREM Mirrored == Spec => []StoredIsMirrored
<1>1. IInv => StoredIsMirrored
  BY DEF IInv
<1> QED BY <1>1, Inductive, PTL

(* The sign-in form covers the page exactly when nobody is signed in, and    *)
(* the header tells the user otherwise.                                      *)
THEOREM OverlayTruthful == Spec => []OverlayTells
<1>1. IInv => OverlayTells
  BY DEF IInv
<1> QED BY <1>1, Inductive, PTL

(* Diagnostics and its log stream are never open under a user who is not an  *)
(* administrator.                                                            *)
THEOREM DiagnosticsGuarded == Spec => []DiagnosticsForAdmins
<1>1. IInv => DiagnosticsForAdmins
  BY DEF IInv
<1> QED BY <1>1, Inductive, PTL

(* Outside a disturbed opening check, the user on the screen is the one the  *)
(* token was issued to.                                                      *)
THEOREM IdentityKept == Spec => []IdentityMatches
<1>1. IInv => IdentityMatches
  BY WebAssumption DEF IInv, AuthOK, IdentityMatches
<1> QED BY <1>1, Inductive, PTL
=============================================================================

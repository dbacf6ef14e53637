---------------------------- MODULE ConsoleViews ----------------------------
(* The views of the console and the buttons that act on the server:          *)
(* static/js/dashboard.js, academics.js, mcp.js and the readings of          *)
(* diagnostics.js over the in-memory cache of app.js.                        *)
(*                                                                           *)
(* A view is a pane that its loader fills with the answer to a request.  A   *)
(* button sends a command, and when that returns the loader runs again.      *)
(* Nothing is cancelled: requests of several visits, of commands and of an   *)
(* earlier user are under way together, and each paints the pane as it       *)
(* lands.  Painting replaces the whole pane, its buttons included.           *)
(*                                                                           *)
(* The views share nothing in the page: each has its pane and its key of the *)
(* cache.  So one view is followed, any one, and to leave it and come back   *)
(* is a visit.  Of the data only its owner and its version matter; the       *)
(* version grows with every change at the server.  Every request is taken to *)
(* come back or to fail at some time, and no renderer to throw on what its   *)
(* endpoint sends: a loader would catch that and say that loading failed.    *)
EXTENDS Naturals, Sequences, SequencesExt

CONSTANTS
    Users,
    NoUser,
    MaxVersion,    \* bound on the changes of the data
    MaxRequests    \* bound on the loads and commands under way together

WithCache == {"dashboard", "overview", "timetable", "attendance"}
BlankFirst == {"lms", "calendar", "results", "mcp", "system", "services"}
Views == WithCache \cup BlankFirst

ASSUME ViewsAssumption ==
    /\ NoUser \notin Users
    /\ MaxVersion \in Nat
    /\ MaxRequests \in Nat \ {0}

VARIABLES
    version,    \* of the data at the server
    who,        \* the user who is signed in
    view,       \* the view that is followed
    cache,      \* its entry of NexusStateCache
    pane,       \* what its pane shows
    asked,      \* loads the server has not answered
    answers,    \* loads that are answered, in the order of their answers
    commands,   \* the requests of buttons
    owed        \* the version that its commands have promised it

vars == <<version, who, view, cache, pane, asked, answers, commands, owed>>

Buttons == {"refreshAll", "resync", "sync", "reconcile", "fetch", "target", "scenario", "token"}
NoButton == "none"
WhatIf == {"target", "scenario"}
MaybeUser == Users \cup {NoUser}
Versions == 0 .. MaxVersion

NoData == [of |-> NoUser, ver |-> 0]
Data == [of : MaybeUser, ver : Versions]
Panes == [shows : {"blank", "text", "loading", "error", "data"}, data : Data,
          on : SUBSET Buttons, off : SUBSET Buttons]
Loads == [owner : MaybeUser, had : BOOLEAN, btn : Buttons \cup {NoButton},
          ok : BOOLEAN, ver : Versions, late : BOOLEAN]
Commands == [by : Buttons, btn : Buttons \cup {NoButton},
             stage : {"sent", "done", "failed"}, ver : Versions]

Notice(shows) == [shows |-> shows, data |-> NoData, on |-> {}, off |-> {}]
Rendered(d, buttons) == [shows |-> "data", data |-> d, on |-> buttons, off |-> {}]

(* The request no longer holds a button that is on the screen. *)
Detached(requests) == [i \in DOMAIN requests |-> [requests[i] EXCEPT !.btn = NoButton]]

-----------------------------------------------------------------------------
(* What a renderer puts on the screen; Fetch and Sync of the results are one *)
(* handler, and the what-if panels need results to start from.               *)

renderDashboard(d) == Rendered(d, {})
renderAcademicsOverview(d) == Rendered(d, {"refreshAll"})
renderTimetableGrid(d) == Rendered(d, {"resync"})
renderAttendanceView(d) == Rendered(d, {"sync"})
renderCalendar(d) == Rendered(d, {"reconcile", "resync"})
renderAcademicsResults(d) ==
    Rendered(d, IF d.ver = 0 THEN {"fetch"} ELSE {"fetch", "target", "scenario"})
renderMcpView(d) == Rendered(d, {"token"})

Render(d) ==
    CASE view = "dashboard" -> renderDashboard(d)
      [] view = "overview" -> renderAcademicsOverview(d)
      [] view = "timetable" -> renderTimetableGrid(d)
      [] view = "attendance" -> renderAttendanceView(d)
      [] view = "calendar" -> renderCalendar(d)
      [] view = "results" -> renderAcademicsResults(d)
      [] view = "mcp" -> renderMcpView(d)
      [] OTHER -> Rendered(d, {})

-----------------------------------------------------------------------------
(* Variants that stand for plausible slips in the code; no behaviour uses    *)
(* them.                                                                     *)

Slip_EnableTwice(p, b) == IF b \in p.off THEN [p EXCEPT !.on = @ \cup {b}] ELSE p

Slip_EnableNever(p, b) == p

Slip_RememberFirst(l) ==
    cache' = IF view \in WithCache /\ cache = NoData
               THEN [of |-> l.owner, ver |-> l.ver] ELSE cache

Slip_NoReloadAfterReconcile(b) == b \notin WhatIf \cup {"reconcile"}

Slip_ErrorsOnlyLogged(l) == IF l.ok THEN Render([of |-> l.owner, ver |-> l.ver]) ELSE pane

-----------------------------------------------------------------------------
(* `finally': the button is enabled again, if it is still on the screen.     *)
Enable(p, b) ==
    IF b \in p.off THEN [p EXCEPT !.on = @ \cup {b}, !.off = @ \ {b}] ELSE p

(* NexusStateCache.get and set *)
Cached == view \in WithCache /\ cache # NoData
Remember(l) == cache' = IF view \in WithCache THEN [of |-> l.owner, ver |-> l.ver] ELSE cache

(* The pane when a loader has started: with a cache, what is remembered, and *)
(* a notice only where nothing was shown; the others blank the pane first.   *)
StaleWhileRevalidate ==
    IF Cached THEN Render(cache)
    ELSE IF pane.shows = "blank" THEN Notice("loading") ELSE pane
Blanked == Notice("loading")

loadDashboard == StaleWhileRevalidate
loadAcademicsOverview == StaleWhileRevalidate
loadAcademicsTimetable == StaleWhileRevalidate
loadAcademicsAttendance == StaleWhileRevalidate
loadAcademicsLMS == Blanked
loadAcademicsCalendar == Blanked
loadAcademicsResults == Blanked
loadMcp == Blanked
loadDiagSystem == Blanked
loadDiagServices == Blanked

(* switchTab, switchAcademicsSubtab and switchDiagSubtab choose the loader.  *)
Loading ==
    CASE view = "dashboard" -> loadDashboard
      [] view = "overview" -> loadAcademicsOverview
      [] view = "timetable" -> loadAcademicsTimetable
      [] view = "attendance" -> loadAcademicsAttendance
      [] view = "lms" -> loadAcademicsLMS
      [] view = "calendar" -> loadAcademicsCalendar
      [] view = "results" -> loadAcademicsResults
      [] view = "mcp" -> loadMcp
      [] view = "system" -> loadDiagSystem
      [] view = "services" -> loadDiagServices

Repaints == view \in BlankFirst \/ Cached \/ pane.shows = "blank"
DetachIf(repainted, requests) == IF repainted THEN Detached(requests) ELSE requests

(* A loader runs: its request is made for whoever is signed in now, and may  *)
(* hold a button that is enabled when it lands.                              *)
StartLoad(b, others) ==
    /\ asked' = Append(DetachIf(Repaints, asked),
                  [owner |-> who', had |-> Cached, btn |-> IF Repaints THEN NoButton ELSE b,
                   ok |-> FALSE, ver |-> 0, late |-> FALSE])
    /\ answers' = DetachIf(Repaints, answers)
    /\ commands' = DetachIf(Repaints, others)

(* What the pane becomes when the answer lands. *)
Revalidated(l) ==
    IF l.ok THEN Render([of |-> l.owner, ver |-> l.ver])
    ELSE IF l.had THEN pane ELSE Notice("error")
Filled(l) == IF l.ok THEN Render([of |-> l.owner, ver |-> l.ver]) ELSE Notice("error")

Outcome(l) == IF view \in WithCache THEN Revalidated(l) ELSE Filled(l)
Painted(l) == l.ok \/ ~l.had

-----------------------------------------------------------------------------
Room == Len(asked) + Len(answers) + Len(commands) < MaxRequests

(* The view is opened: by its tab or subtab, its Retry button, a link on     *)
(* another view, or the interval of the MCP view.                            *)
Visit ==
    /\ who # NoUser /\ Room
    /\ UNCHANGED who
    /\ pane' = Loading
    /\ StartLoad(NoButton, commands)
    /\ UNCHANGED <<version, view, cache, owed>>

(* The server answers, or the request is lost or refused on the way.         *)
ServeLoad(i) ==
    /\ i \in DOMAIN asked
    /\ asked' = RemoveAt(asked, i)
    /\ \/ /\ asked[i].owner # NoUser
          /\ answers' = Append(answers, [asked[i] EXCEPT !.ok = TRUE, !.ver = version])
       \/ answers' = Append(answers, asked[i])
    /\ UNCHANGED <<version, who, view, cache, pane, commands, owed>>

(* An answer lands; those given before it that are still on the way are late *)
(* from now on.  A refusal may end the session.                              *)
LoadAnswered(i) ==
    LET l == answers[i] IN
    /\ i \in DOMAIN answers
    /\ pane' = Enable(Outcome(l), l.btn)
    /\ IF l.ok THEN Remember(l) ELSE UNCHANGED cache
    /\ answers' = DetachIf(Painted(l),
                    [j \in 1 .. Len(answers) - 1 |->
                       IF j < i THEN [answers[j] EXCEPT !.late = TRUE] ELSE answers[j + 1]])
    /\ asked' = DetachIf(Painted(l), asked)
    /\ commands' = DetachIf(Painted(l), commands)
    /\ owed' = IF l.ok /\ ~l.late THEN owed ELSE 0
    /\ who' \in IF l.ok THEN {who} ELSE {who, NoUser}
    /\ UNCHANGED <<version, view>>

(* The courses are asked of Moodle, which may want a sign-in of its own: the *)
(* answer is good and the pane says so.                                      *)
LmsSignInRequired(i) ==
    /\ view = "lms" /\ i \in DOMAIN answers /\ answers[i].ok
    /\ pane' = Notice("error")
    /\ answers' = RemoveAt(answers, i)
    /\ UNCHANGED <<version, who, view, cache, asked, commands, owed>>

-----------------------------------------------------------------------------
(* Buttons *)

(* What was loaded last is painted again. *)
Repaint ==
    /\ who # NoUser /\ pane.shows = "data"
    /\ pane' = Render(pane.data)
    /\ asked' = Detached(asked)
    /\ answers' = Detached(answers)
    /\ commands' = Detached(commands)
    /\ UNCHANGED <<version, who, view, cache, owed>>

filterTimetableDay == view = "timetable" /\ Repaint

(* addWhatIfCourseRow and removeWhatIfCourseRow *)
editWhatIfCourses == "target" \in pane.on \cup pane.off /\ Repaint

(* The handlers up to their request: the button is disabled; that of the MCP *)
(* tokens stays enabled behind its prompts.                                  *)
Press(b) ==
    LET held == IF b = "token" THEN NoButton ELSE b IN
    /\ who # NoUser /\ b \in pane.on /\ Room
    /\ pane' = [pane EXCEPT !.on = @ \ {held}, !.off = @ \cup ({held} \ {NoButton})]
    /\ commands' = Append(commands, [by |-> b, btn |-> held, stage |-> "sent", ver |-> 0])
    /\ UNCHANGED <<version, who, view, cache, asked, answers, owed>>

triggerLiveTimetableSync == view = "timetable" /\ Press("resync")
triggerLiveAttendanceSync == Press("sync")
triggerCalendarReconcile == view = "calendar" /\ Press("resync")
triggerCacheOnlyReconcile == Press("reconcile")
syncAcademicResults == Press("fetch")
runWhatIfTargetCgpa == Press("target")
runWhatIfScenario == Press("scenario")
refreshAllAcademics == Press("refreshAll")
promptCreateAgentToken == Press("token")

(* The command is carried out, and the data changed by it or not; its answer *)
(* may be lost after that.  A what-if only computes.                         *)
ServeCommand(i) ==
    /\ i \in DOMAIN commands /\ commands[i].stage = "sent"
    /\ \/ UNCHANGED version
       \/ /\ commands[i].by \notin WhatIf
          /\ version < MaxVersion /\ version' = version + 1
    /\ \E stage \in {"done", "failed"} :
         commands' = [commands EXCEPT
             ![i].stage = stage, ![i].ver = IF commands[i].by \in WhatIf THEN 0 ELSE version']
    /\ UNCHANGED <<who, view, cache, pane, asked, answers, owed>>

ReloadsAfter(b) == b \notin WhatIf

Promised(c) == IF c.stage = "done" /\ c.ver > owed THEN c.ver ELSE owed

(* The handlers after an answer that calls for a load of the view.  Most     *)
(* enable the button without waiting for it; refreshAllAcademics waits.      *)
CommandDone(i) ==
    LET c == commands[i]
        waits == c.by = "refreshAll"
    IN
    /\ i \in DOMAIN commands /\ c.stage = "done" /\ ReloadsAfter(c.by)
    /\ UNCHANGED who
    /\ pane' = Enable(Loading, IF waits THEN NoButton ELSE c.btn)
    /\ StartLoad(IF waits THEN c.btn ELSE NoButton, RemoveAt(commands, i))
    /\ owed' = Promised(c)
    /\ UNCHANGED <<version, view, cache>>

(* The handlers after any other answer; a refusal may end the session.       *)
CommandEnded(i) ==
    LET c == commands[i] IN
    /\ i \in DOMAIN commands
    /\ \/ c.stage = "done" /\ ~ReloadsAfter(c.by) /\ UNCHANGED who
       \/ c.stage = "failed" /\ who' \in {who, NoUser}
    /\ pane' = Enable(pane, c.btn)
    /\ commands' = RemoveAt(commands, i)
    /\ owed' = Promised(c)
    /\ UNCHANGED <<version, view, cache, asked, answers>>

-----------------------------------------------------------------------------
(* The data changes without this view: the three-hourly synchronisation, or  *)
(* a button of another view.                                                 *)
ScheduledSync ==
    /\ version < MaxVersion
    /\ version' = version + 1
    /\ UNCHANGED <<who, view, cache, pane, asked, answers, commands, owed>>

(* The entry of the cache is older than two minutes. *)
Expire ==
    /\ Cached
    /\ cache' = NoData
    /\ UNCHANGED <<version, who, view, pane, asked, answers, commands, owed>>

(* handleLoginSubmit reopens the tab that is shown. *)
SignIn(u) ==
    /\ who = NoUser /\ Room
    /\ who' = u
    /\ pane' = Loading
    /\ StartLoad(NoButton, commands)
    /\ UNCHANGED <<version, view, cache, owed>>

(* clearSession: the pane, the cache and the requests stay. *)
SignOut ==
    /\ who # NoUser
    /\ who' = NoUser
    /\ UNCHANGED <<version, view, cache, pane, asked, answers, commands, owed>>

(* Some panes of index.html start with a text of their own. *)
Init ==
    /\ version = 0
    /\ who = NoUser
    /\ view \in Views
    /\ cache = NoData
    /\ pane = Notice(IF view \in {"dashboard", "results", "mcp"} THEN "text" ELSE "blank")
    /\ asked = << >> /\ answers = << >> /\ commands = << >>
    /\ owed = 0

Click ==
    \/ filterTimetableDay \/ editWhatIfCourses
    \/ triggerLiveTimetableSync \/ triggerLiveAttendanceSync
    \/ triggerCalendarReconcile \/ triggerCacheOnlyReconcile
    \/ syncAcademicResults \/ runWhatIfTargetCgpa \/ runWhatIfScenario
    \/ refreshAllAcademics \/ promptCreateAgentToken

CommandAnswered(i) == CommandDone(i) \/ CommandEnded(i)

Next ==
    \/ Visit
    \/ \E i \in DOMAIN asked : ServeLoad(i)
    \/ \E i \in DOMAIN answers : LoadAnswered(i) \/ LmsSignInRequired(i)
    \/ Click
    \/ \E i \in DOMAIN commands : ServeCommand(i) \/ CommandAnswered(i)
    \/ ScheduledSync
    \/ Expire
    \/ \E u \in Users : SignIn(u)
    \/ SignOut

Spec == Init /\ [][Next]_vars

(* Requests come back: the eldest of each kind at the latest. *)
FairSpec ==
    /\ Spec
    /\ WF_vars(ServeLoad(1))
    /\ WF_vars(LoadAnswered(1))
    /\ WF_vars(ServeCommand(1))
    /\ WF_vars(CommandAnswered(1))

-----------------------------------------------------------------------------
(* Every variable has its type, and a button is enabled or disabled, never   *)
(* both.                                                                     *)
TypeOK ==
    /\ version \in Versions
    /\ who \in MaybeUser /\ view \in Views
    /\ cache \in Data
    /\ pane \in Panes /\ pane.on \cap pane.off = {}
    /\ asked \in Seq(Loads) /\ answers \in Seq(Loads)
    /\ commands \in Seq(Commands)
    /\ owed \in Versions

(* After a command that succeeded the view shows what the command produced,  *)
(* or something newer, once no load of it is under way, unless its load      *)
(* failed or an answer that was overtaken landed last (the handlers load     *)
(* again after the answer, whatever the cache and other visits do).          *)
SyncIsShown ==
    owed > 0 =>
        \/ pane.shows = "data" /\ pane.data.ver >= owed
        \/ asked # << >>
        \/ answers # << >>

(* What a user sees never gives way to an older state of his data, unless an *)
(* answer lands that a later one has overtaken (the cache is written with    *)
(* every answer that is painted, and read before the request).               *)
NeverBack ==
    [][/\ pane.shows = "data" /\ pane'.shows = "data"
       /\ pane'.data.of = pane.data.of
       /\ pane'.data.ver < pane.data.ver
       => \E i \in DOMAIN answers : answers[i].late /\ LoadAnswered(i)]_vars

(* A pane that says it is loading ends with data or with an error, whatever  *)
(* other requests of it are under way (the loaders paint on both paths).     *)
LoadingIsAnswered == pane.shows = "loading" ~> pane.shows # "loading"

(* A disabled button comes back: enabled by its handler, also when the       *)
(* command failed, or replaced with its pane (the `finally' of the           *)
(* handlers).                                                                *)
EveryButtonComesBack == \A b \in Buttons : b \in pane.off ~> b \notin pane.off

(* "Clean cache invalidation on logout and 401 session expiration":          *)
(* tests/test_tab_preloading_cache.py.                                       *)
CacheClearedOnSignOut == [][who # NoUser /\ who' = NoUser => cache' = NoData]_vars

=============================================================================

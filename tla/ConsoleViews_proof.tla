------------------------- MODULE ConsoleViews_proof -------------------------
(* What a view of the console shows, for any users and however many loads    *)
(* and commands are under way.                                               *)
(*                                                                           *)
(* Answers are appended as the server gives them, so a later one is never    *)
(* older; and one that lands overtakes those before it, which are late from  *)
(* then on.  What is on the screen, and in the cache, is therefore never     *)
(* newer than an answer that is not late.                                    *)
EXTENDS ConsoleViews, SequenceTheorems, TLAPS

-----------------------------------------------------------------------------
(* The inductive invariant *)

Fresh(l) == l.ok /\ ~l.late

AskedOK == \A i \in DOMAIN asked : ~asked[i].ok /\ ~asked[i].late /\ asked[i].ver = 0

(* The answers are in the order of their versions. *)
AnswersOK ==
    /\ \A i \in DOMAIN answers : answers[i].ver <= version
    /\ \A i, j \in DOMAIN answers :
           i < j /\ answers[i].ok /\ answers[j].ok => answers[i].ver <= answers[j].ver

CommandsOK ==
    \A i \in DOMAIN commands :
        /\ commands[i].ver <= version
        /\ commands[i].by \in WhatIf => commands[i].ver = 0

(* Nothing is newer than the data at the server, and neither the screen nor  *)
(* the cache is newer than an answer that is not late.                       *)
NotBehind ==
    /\ owed <= version /\ cache.ver <= version /\ pane.data.ver <= version
    /\ \A i \in DOMAIN answers : Fresh(answers[i]) =>
           /\ Cached => cache.ver <= answers[i].ver
           /\ pane.shows = "data" => pane.data.ver <= answers[i].ver

(* What is shown is what is remembered. *)
CacheShown == Cached /\ pane.shows = "data" => pane.data.ver = cache.ver

(* The answer given last is none that was overtaken, and brings what is owed. *)
Newest ==
    /\ answers # << >>
    /\ ~answers[Len(answers)].late
    /\ answers[Len(answers)].ok => answers[Len(answers)].ver >= owed

Owes ==
    owed > 0 =>
        \/ asked # << >>
        \/ Newest
        \/ pane.shows = "data" /\ pane.data.ver >= owed

(* The courses have no buttons. *)
LmsOK == view = "lms" => owed = 0 /\ commands = << >> /\ pane.on = {} /\ pane.off = {}

IInv ==
    /\ TypeOK
    /\ AskedOK /\ AnswersOK /\ CommandsOK
    /\ NotBehind /\ CacheShown /\ Owes /\ LmsOK

-----------------------------------------------------------------------------
(* Panes *)

PaneOK(p) == p \in Panes /\ p.on \cap p.off = {}

(* A renderer shows the data it is given, with its buttons enabled.          *)
LEMMA RenderShows ==
    ASSUME NEW d
    PROVE  /\ Render(d).shows = "data" /\ Render(d).data = d
           /\ d \in Data => PaneOK(Render(d))
           /\ Render(d).off = {}
           /\ view = "lms" => Render(d).on = {}
<1>1. PICK buttons \in SUBSET Buttons :
          Render(d) = Rendered(d, buttons) /\ (view = "lms" => buttons = {})
  BY DEF Render, Rendered, renderDashboard, renderAcademicsOverview, renderTimetableGrid,
         renderAttendanceView, renderCalendar, renderAcademicsResults, renderMcpView, Buttons
<1>2. /\ Rendered(d, buttons).shows = "data" /\ Rendered(d, buttons).data = d
      /\ Rendered(d, buttons).off = {} /\ Rendered(d, buttons).on = buttons
      /\ d \in Data => Rendered(d, buttons) \in Panes
  BY DEF Rendered, Panes
<1> QED BY <1>1, <1>2 DEF PaneOK

(* A notice has no data and no buttons. *)
LEMMA NoticeShows ==
    ASSUME NEW s \in {"blank", "text", "loading", "error"}
    PROVE  /\ PaneOK(Notice(s)) /\ Notice(s).shows # "data" /\ Notice(s).data.ver = 0
           /\ Notice(s).on = {} /\ Notice(s).off = {}
BY ViewsAssumption DEF Notice, NoData, PaneOK, Panes, Data, MaybeUser, Versions

(* The handler's `finally' leaves the data alone. *)
LEMMA EnableShows ==
    ASSUME NEW p, PaneOK(p), NEW b
    PROVE  /\ PaneOK(Enable(p, b))
           /\ Enable(p, b).shows = p.shows /\ Enable(p, b).data = p.data
           /\ p.off = {} => Enable(p, b) = p
<1>1. CASE b \in p.off
  <2> DEFINE q == [p EXCEPT !.on = p.on \cup {b}, !.off = p.off \ {b}]
  <2>1. /\ q \in Panes /\ q.shows = p.shows /\ q.data = p.data
        /\ q.on = p.on \cup {b} /\ q.off = p.off \ {b}
    BY <1>1 DEF PaneOK, Panes
  <2>2. Enable(p, b) = q
    BY <1>1 DEF Enable
  <2> HIDE DEF q
  <2> QED BY <1>1, <2>1, <2>2 DEF PaneOK
<1>2. CASE b \notin p.off
  BY <1>2 DEF Enable
<1> QED BY <1>1, <1>2

(* A loader that has started shows what is remembered, what was there, or a  *)
(* notice.                                                                   *)
LEMMA LoadingShows ==
    ASSUME TypeOK
    PROVE  /\ PaneOK(Loading)
           /\ \/ Cached /\ Loading.shows = "data" /\ Loading.data = cache
              \/ ~Cached /\ Loading = pane
              \/ Loading.shows # "data" /\ Loading.data.ver = 0
           /\ view = "lms" => Loading.on = {} /\ Loading.off = {}
<1>1. PaneOK(pane) /\ cache \in Data /\ view \in Views
  BY DEF TypeOK, PaneOK
<1>2. CASE view \in WithCache
  <2>1. Loading = StaleWhileRevalidate /\ view # "lms"
    BY <1>2 DEF Loading, WithCache, loadDashboard, loadAcademicsOverview,
                loadAcademicsTimetable, loadAcademicsAttendance
  <2>2. CASE Cached
    BY <1>1, <2>1, <2>2, RenderShows DEF StaleWhileRevalidate
  <2>3. CASE ~Cached
    BY <1>1, <2>1, <2>3, NoticeShows DEF StaleWhileRevalidate
  <2> QED BY <2>2, <2>3
<1>3. CASE view \in BlankFirst
  <2>1. Loading = Blanked
    BY <1>3 DEF Loading, BlankFirst, loadAcademicsLMS, loadAcademicsCalendar,
                loadAcademicsResults, loadMcp, loadDiagSystem, loadDiagServices
  <2> QED BY <2>1, NoticeShows DEF Blanked
<1> QED BY <1>1, <1>2, <1>3 DEF Views

-----------------------------------------------------------------------------
(* Requests *)

Buttoned == Buttons \cup {NoButton}

(* The loads ds are the loads cs, which may have lost their buttons.         *)
SameLoads(ds, cs) ==
    /\ ds \in Seq(Loads) /\ Len(ds) = Len(cs)
    /\ \A j \in DOMAIN cs : ds[j].ok = cs[j].ok /\ ds[j].ver = cs[j].ver /\ ds[j].late = cs[j].late

SameCommands(ds, cs) ==
    /\ ds \in Seq(Commands) /\ Len(ds) = Len(cs)
    /\ \A j \in DOMAIN cs : ds[j].by = cs[j].by /\ ds[j].ver = cs[j].ver

(* Detaching loads changes nothing else about them. *)
LEMMA LoadsDetach ==
    ASSUME NEW cs \in Seq(Loads), NEW b \in BOOLEAN PROVE SameLoads(DetachIf(b, cs), cs)
<1>1. ASSUME NEW c \in Loads
      PROVE  /\ [c EXCEPT !.btn = NoButton] \in Loads
             /\ [c EXCEPT !.btn = NoButton].ok = c.ok
             /\ [c EXCEPT !.btn = NoButton].ver = c.ver
             /\ [c EXCEPT !.btn = NoButton].late = c.late
  BY DEF Loads
<1>2. ASSUME NEW j \in DOMAIN cs
      PROVE  /\ Detached(cs)[j] \in Loads
             /\ Detached(cs)[j].ok = cs[j].ok /\ Detached(cs)[j].ver = cs[j].ver
             /\ Detached(cs)[j].late = cs[j].late
  <2>1. cs[j] \in Loads /\ Detached(cs)[j] = [cs[j] EXCEPT !.btn = NoButton]
    BY DEF Detached
  <2> QED BY <1>1, <2>1
<1>3. /\ DOMAIN Detached(cs) = DOMAIN cs /\ DOMAIN cs = 1 .. Len(cs) /\ Len(cs) \in Nat
  BY DEF Detached
<1>4. Detached(cs) \in Seq(Loads) /\ Len(Detached(cs)) = Len(cs)
  BY <1>2, <1>3 DEF Detached
<1> QED BY <1>2, <1>4 DEF DetachIf, SameLoads

(* The same for commands *)
LEMMA CommandsDetach ==
    ASSUME NEW cs \in Seq(Commands), NEW b \in BOOLEAN PROVE SameCommands(DetachIf(b, cs), cs)
<1>1. ASSUME NEW c \in Commands
      PROVE  /\ [c EXCEPT !.btn = NoButton] \in Commands
             /\ [c EXCEPT !.btn = NoButton].by = c.by
             /\ [c EXCEPT !.btn = NoButton].ver = c.ver
  BY DEF Commands
<1>2. ASSUME NEW j \in DOMAIN cs
      PROVE  /\ Detached(cs)[j] \in Commands
             /\ Detached(cs)[j].by = cs[j].by /\ Detached(cs)[j].ver = cs[j].ver
  <2>1. cs[j] \in Commands /\ Detached(cs)[j] = [cs[j] EXCEPT !.btn = NoButton]
    BY DEF Detached
  <2> QED BY <1>1, <2>1
<1>3. /\ DOMAIN Detached(cs) = DOMAIN cs /\ DOMAIN cs = 1 .. Len(cs) /\ Len(cs) \in Nat
  BY DEF Detached
<1>4. Detached(cs) \in Seq(Commands) /\ Len(Detached(cs)) = Len(cs)
  BY <1>2, <1>3 DEF Detached
<1> QED BY <1>2, <1>4 DEF DetachIf, SameCommands

(* What is left after one of a sequence is gone: each element was one of the *)
(* others, in the same order.                                                *)
LEMMA RemoveAtElements ==
    ASSUME NEW S, NEW s \in Seq(S), NEW i \in DOMAIN s
    PROVE  /\ RemoveAt(s, i) \in Seq(S) /\ Len(RemoveAt(s, i)) = Len(s) - 1
           /\ \A j \in DOMAIN RemoveAt(s, i) :
                  RemoveAt(s, i)[j] = IF j < i THEN s[j] ELSE s[j + 1]
<1>1. i \in 1 .. Len(s) /\ Len(s) \in Nat
  OBVIOUS
<1> DEFINE a == SubSeq(s, 1, i - 1)
           b == SubSeq(s, i + 1, Len(s))
<1>2. a \in Seq(S) /\ Len(a) = i - 1 /\ \A j \in 1 .. i - 1 : a[j] = s[j]
  BY <1>1
<1>3. b \in Seq(S) /\ Len(b) = Len(s) - i /\ \A j \in 1 .. Len(s) - i : b[j] = s[i + j]
  BY <1>1
<1>4. RemoveAt(s, i) = a \o b
  BY DEF RemoveAt
<1> HIDE DEF a, b
<1>5. a \o b \in Seq(S) /\ Len(a \o b) = Len(s) - 1
  BY <1>1, <1>2, <1>3
<1>6. \A j \in 1 .. Len(s) - 1 : (a \o b)[j] = IF j <= i - 1 THEN a[j] ELSE b[j - (i - 1)]
  <2>1. \A j \in 1 .. Len(a) + Len(b) : (a \o b)[j] = IF j <= Len(a) THEN a[j] ELSE b[j - Len(a)]
    BY <1>2, <1>3, ConcatProperties
  <2>2. Len(a) = i - 1 /\ Len(a) + Len(b) = Len(s) - 1
    BY <1>1, <1>2, <1>3
  <2> QED BY <2>1, <2>2
<1>7. ASSUME NEW j \in 1 .. Len(s) - 1
      PROVE  (a \o b)[j] = IF j < i THEN s[j] ELSE s[j + 1]
  <2>1. CASE j < i
    <3>1. j \in 1 .. i - 1 /\ j <= i - 1
      BY <1>1, <2>1
    <3> QED BY <1>2, <1>6, <2>1, <3>1
  <2>2. CASE ~(j < i)
    <3> DEFINE m == j - (i - 1)
    <3>1. m \in 1 .. Len(s) - i /\ i + m = j + 1 /\ ~(j <= i - 1)
      BY <1>1, <2>2
    <3>2. (a \o b)[j] = b[m]
      BY <1>6, <3>1
    <3>3. b[m] = s[i + m]
      BY <1>3, <3>1
    <3> QED BY <2>2, <3>1, <3>2, <3>3
  <2> QED BY <2>1, <2>2
<1>8. DOMAIN (a \o b) = 1 .. Len(s) - 1
  BY <1>1, <1>5
<1> QED BY <1>4, <1>5, <1>7, <1>8

(* What is in a sequence to which an element was appended *)
LEMMA Appended ==
    ASSUME NEW S, NEW s \in Seq(S), NEW e \in S, NEW t, t = Append(s, e)
    PROVE  /\ t \in Seq(S) /\ Len(t) = Len(s) + 1 /\ t # << >> /\ t[Len(t)] = e
           /\ DOMAIN s \subseteq DOMAIN t
           /\ \A j \in DOMAIN t :
                  (j \in DOMAIN s /\ t[j] = s[j]) \/ (j = Len(s) + 1 /\ t[j] = e)
<1>1. /\ t \in Seq(S) /\ Len(t) = Len(s) + 1 /\ Len(s) \in Nat
      /\ DOMAIN s = 1 .. Len(s) /\ DOMAIN t = 1 .. Len(t)
  OBVIOUS
<1>2. \A j \in 1 .. Len(s) + 1 : t[j] = IF j <= Len(s) THEN s[j] ELSE e
  OBVIOUS
<1> QED BY <1>1, <1>2

-----------------------------------------------------------------------------
(* Initially nothing is under way and nothing is shown. *)
LEMMA InitHolds == Init => IInv
<1> SUFFICES ASSUME Init PROVE IInv
  OBVIOUS
<1>1. /\ PaneOK(pane) /\ pane.shows # "data" /\ pane.data.ver = 0
      /\ pane.on = {} /\ pane.off = {}
  BY NoticeShows DEF Init
<1>2. cache \in Data /\ cache.ver = 0 /\ 0 \in Versions
  BY ViewsAssumption DEF Init, NoData, Data, MaybeUser, Versions
<1>3. TypeOK
  BY <1>1, <1>2 DEF Init, TypeOK, PaneOK, MaybeUser
<1>4. AskedOK /\ AnswersOK /\ CommandsOK
  BY DEF Init, AskedOK, AnswersOK, CommandsOK
<1>5. NotBehind /\ CacheShown /\ Owes /\ LmsOK
  BY <1>1, <1>2 DEF Init, NotBehind, CacheShown, Owes, LmsOK
<1> QED BY <1>3, <1>4, <1>5 DEF IInv

(* Answers that lose their buttons stay what they are. *)
LEMMA AnswersKept ==
    ASSUME IInv, SameLoads(answers', answers), version' = version
    PROVE  /\ answers' \in Seq(Loads) /\ AnswersOK'
           /\ DOMAIN answers' = DOMAIN answers
           /\ \A i \in DOMAIN answers :
                  (Fresh(answers'[i]) <=> Fresh(answers[i])) /\ answers'[i].ver = answers[i].ver
           /\ Newest /\ owed' = owed => Newest'
<1>1. /\ answers' \in Seq(Loads) /\ answers \in Seq(Loads)
      /\ DOMAIN answers' = DOMAIN answers /\ Len(answers') = Len(answers)
  BY DEF SameLoads, IInv, TypeOK
<1>2. \A i \in DOMAIN answers :
          /\ answers'[i].ok = answers[i].ok /\ answers'[i].ver = answers[i].ver
          /\ answers'[i].late = answers[i].late
  BY DEF SameLoads
<1>3. AnswersOK'
  BY <1>1, <1>2 DEF IInv, AnswersOK
<1>4. ASSUME Newest, owed' = owed PROVE Newest'
  <2>1. answers # << >> /\ answers' # << >> /\ Len(answers) \in DOMAIN answers
    BY <1>1, <1>4 DEF Newest
  <2> QED BY <1>1, <1>2, <1>4, <2>1 DEF Newest
<1> QED BY <1>1, <1>2, <1>3, <1>4 DEF Fresh

(* So do loads that are asked, *)
LEMMA AskedKept ==
    ASSUME IInv, SameLoads(asked', asked)
    PROVE  asked' \in Seq(Loads) /\ AskedOK' /\ (asked # << >> => asked' # << >>)
<1>1. asked' \in Seq(Loads) /\ asked \in Seq(Loads) /\ DOMAIN asked' = DOMAIN asked
  BY DEF SameLoads, IInv, TypeOK
<1> QED BY <1>1 DEF SameLoads, IInv, AskedOK

(* and commands. *)
LEMMA CommandsKept ==
    ASSUME IInv, NEW cs \in Seq(Commands), SameCommands(commands', cs), version' = version,
           \A j \in DOMAIN cs : \E k \in DOMAIN commands : cs[j] = commands[k]
    PROVE  /\ commands' \in Seq(Commands) /\ CommandsOK'
           /\ cs = << >> => commands' = << >>
<1>1. commands' \in Seq(Commands) /\ DOMAIN commands' = DOMAIN cs /\ Len(commands') = Len(cs)
  BY DEF SameCommands
<1>2. ASSUME NEW j \in DOMAIN commands'
      PROVE  /\ commands'[j].ver <= version'
             /\ commands'[j].by \in WhatIf => commands'[j].ver = 0
  <2>1. PICK k \in DOMAIN commands : cs[j] = commands[k]
    BY <1>1
  <2>2. commands'[j].ver = commands[k].ver /\ commands'[j].by = commands[k].by
    BY <1>1, <2>1 DEF SameCommands
  <2> QED BY <2>2 DEF IInv, CommandsOK
<1>3. cs = << >> => commands' = << >>
  BY <1>1
<1> QED BY <1>1, <1>2, <1>3 DEF CommandsOK

(* A load more is asked for. *)
LEMMA AskedGrows ==
    ASSUME IInv, NEW ds, SameLoads(ds, asked), NEW c \in Loads, ~c.ok, ~c.late, c.ver = 0,
           asked' = Append(ds, c)
    PROVE  asked' \in Seq(Loads) /\ asked' # << >> /\ AskedOK'
<1>1. ds \in Seq(Loads) /\ asked \in Seq(Loads) /\ Len(ds) = Len(asked)
  BY DEF SameLoads, IInv, TypeOK
<1>2. DOMAIN ds = DOMAIN asked
  BY <1>1
<1>3. /\ asked' \in Seq(Loads) /\ asked' # << >>
      /\ \A j \in DOMAIN asked' : (j \in DOMAIN ds /\ asked'[j] = ds[j]) \/ asked'[j] = c
  BY <1>1, Appended
<1>4. ASSUME NEW j \in DOMAIN asked'
      PROVE  ~asked'[j].ok /\ ~asked'[j].late /\ asked'[j].ver = 0
  <2>1. CASE j \in DOMAIN ds /\ asked'[j] = ds[j]
    <3>1. /\ ds[j].ok = asked[j].ok /\ ds[j].ver = asked[j].ver /\ ds[j].late = asked[j].late
      BY <1>2, <2>1 DEF SameLoads
    <3>2. ~asked[j].ok /\ ~asked[j].late /\ asked[j].ver = 0
      BY <1>2, <2>1 DEF IInv, AskedOK
    <3> QED BY <2>1, <3>1, <3>2
  <2>2. CASE asked'[j] = c
    BY <2>2
  <2> QED BY <1>3, <2>1, <2>2
<1> QED BY <1>3, <1>4 DEF AskedOK

(* A load is asked for: until it is answered nothing is owed.                *)
LEMMA StartKeeps ==
    ASSUME IInv, NEW b \in Buttoned, NEW others \in Seq(Commands),
           \A j \in DOMAIN others : \E k \in DOMAIN commands : others[j] = commands[k],
           commands = << >> => others = << >>,
           StartLoad(b, others), NEW x, pane' \in {Loading, Enable(Loading, x)},
           UNCHANGED <<version, view, cache>>, who' \in MaybeUser,
           owed' \in Versions, owed' <= version, view = "lms" => owed' = 0
    PROVE  IInv'
<1> DEFINE ds == DetachIf(Repaints, asked)
<1>1. Repaints \in BOOLEAN /\ Cached \in BOOLEAN
  BY DEF Repaints, Cached
<1>2. PICK c \in Loads : asked' = Append(ds, c) /\ ~c.ok /\ ~c.late /\ c.ver = 0
  <2> DEFINE d == [owner |-> who', had |-> Cached, btn |-> IF Repaints THEN NoButton ELSE b,
                   ok |-> FALSE, ver |-> 0, late |-> FALSE]
  <2>1. d \in Loads /\ ~d.ok /\ ~d.late /\ d.ver = 0
    BY <1>1, ViewsAssumption DEF Loads, Buttoned, Versions
  <2>2. asked' = Append(ds, d)
    BY DEF StartLoad
  <2> HIDE DEF d
  <2> QED BY <2>1, <2>2
<1>3. SameLoads(ds, asked) /\ SameLoads(answers', answers)
  BY <1>1, LoadsDetach DEF StartLoad, IInv, TypeOK
<1>4. SameCommands(commands', others)
  BY <1>1, CommandsDetach DEF StartLoad
<1> HIDE DEF ds
<1>6. asked' \in Seq(Loads) /\ asked' # << >> /\ AskedOK'
  BY <1>2, <1>3, AskedGrows
<1>7. /\ answers' \in Seq(Loads) /\ AnswersOK' /\ DOMAIN answers' = DOMAIN answers
      /\ \A i \in DOMAIN answers :
             (Fresh(answers'[i]) <=> Fresh(answers[i])) /\ answers'[i].ver = answers[i].ver
  BY <1>3, AnswersKept
<1>8. /\ commands' \in Seq(Commands) /\ CommandsOK'
      /\ commands = << >> => commands' = << >>
  BY <1>4, CommandsKept
<1>9. /\ PaneOK(pane') /\ pane'.shows = Loading.shows /\ pane'.data = Loading.data
      /\ view = "lms" => pane'.on = {} /\ pane'.off = {}
  BY LoadingShows, EnableShows DEF IInv
<1>10. \/ Cached /\ pane'.shows = "data" /\ pane'.data = cache
       \/ ~Cached /\ pane'.shows = pane.shows /\ pane'.data = pane.data
       \/ pane'.shows # "data" /\ pane'.data.ver = 0
  BY <1>9, LoadingShows DEF IInv
<1>11. Cached' = Cached
  BY DEF Cached
<1>12. TypeOK'
  BY <1>6, <1>7, <1>8, <1>9 DEF IInv, TypeOK, PaneOK
<1>13. version \in Nat
  BY ViewsAssumption DEF IInv, TypeOK, Versions
<1>14. NotBehind'
  <2>1. /\ owed' <= version' /\ cache'.ver <= version' /\ pane'.data.ver <= version'
    BY <1>10, <1>13 DEF IInv, NotBehind
  <2>2. ASSUME NEW i \in DOMAIN answers', Fresh(answers'[i])
        PROVE  /\ Cached' => cache'.ver <= answers'[i].ver
               /\ pane'.shows = "data" => pane'.data.ver <= answers'[i].ver
    <3>1. i \in DOMAIN answers /\ Fresh(answers[i]) /\ answers'[i].ver = answers[i].ver
      BY <1>7, <2>2
    <3> QED BY <1>10, <1>11, <3>1 DEF IInv, NotBehind
  <2> QED BY <2>1, <2>2 DEF NotBehind
<1>15. CacheShown'
  BY <1>10, <1>11 DEF IInv, CacheShown
<1>16. Owes' /\ LmsOK'
  BY <1>6, <1>8, <1>9 DEF IInv, Owes, LmsOK
<1> QED BY <1>6, <1>7, <1>8, <1>12, <1>14, <1>15, <1>16 DEF IInv

(* The view is opened, or a user signs in over it. *)
LEMMA VisitKeeps == ASSUME IInv, Visit \/ (\E u \in Users : SignIn(u)) PROVE IInv'
<1>1. /\ commands \in Seq(Commands) /\ owed \in Versions /\ owed <= version
      /\ view = "lms" => owed = 0
      /\ \A j \in DOMAIN commands : \E k \in DOMAIN commands : commands[j] = commands[k]
  BY DEF IInv, TypeOK, NotBehind, LmsOK
<1>2. /\ pane' = Loading /\ StartLoad(NoButton, commands)
      /\ UNCHANGED <<version, view, cache, owed>>
      /\ who' \in MaybeUser
  BY DEF Visit, SignIn, MaybeUser, IInv, TypeOK
<1> QED BY <1>1, <1>2, StartKeeps DEF Buttoned

(* A command that succeeded: what it produced is owed from now on, and asked *)
(* for.                                                                      *)
LEMMA CommandDoneKeeps == ASSUME IInv, NEW i \in DOMAIN commands, CommandDone(i) PROVE IInv'
<1> DEFINE c == commands[i]
           others == RemoveAt(commands, i)
<1>1. commands \in Seq(Commands) /\ c \in Commands /\ c.ver <= version
  BY DEF IInv, TypeOK, CommandsOK
<1>2. /\ others \in Seq(Commands) /\ view # "lms" /\ commands # << >>
      /\ \A j \in DOMAIN others : \E k \in DOMAIN commands : others[j] = commands[k]
  <2>1. /\ others \in Seq(Commands) /\ Len(others) = Len(commands) - 1
        /\ \A j \in DOMAIN others :
               others[j] = IF j < i THEN commands[j] ELSE commands[j + 1]
    BY <1>1, RemoveAtElements
  <2>2. \A j \in DOMAIN others : \E k \in DOMAIN commands : others[j] = commands[k]
    BY <1>1, <2>1
  <2>3. commands # << >>
    BY <1>1
  <2> QED BY <2>1, <2>2, <2>3 DEF IInv, LmsOK
<1>3. c.btn \in Buttoned /\ c.ver \in Versions
  BY <1>1 DEF Commands, Buttoned
<1>4. owed' \in Versions /\ owed' <= version
  BY <1>1, <1>3 DEF CommandDone, Promised, IInv, TypeOK, NotBehind
<1>5. \E b \in Buttoned, x \in Buttoned :
          StartLoad(b, others) /\ pane' = Enable(Loading, x)
  BY <1>3 DEF CommandDone, Buttoned
<1>6. UNCHANGED <<version, view, cache>> /\ who' \in MaybeUser
  BY DEF CommandDone, IInv, TypeOK
<1> HIDE DEF c, others
<1> QED BY <1>2, <1>4, <1>5, <1>6, StartKeeps


-----------------------------------------------------------------------------
(* Answers *)

(* The server answers a load, or refuses it: what is asked for later is at   *)
(* least as new.                                                             *)
LEMMA ServeLoadKeeps == ASSUME IInv, NEW i \in DOMAIN asked, ServeLoad(i) PROVE IInv'
<1>1. /\ asked \in Seq(Loads) /\ answers \in Seq(Loads) /\ asked[i] \in Loads
      /\ version \in Versions /\ version \in Nat
      /\ ~asked[i].ok /\ ~asked[i].late /\ asked[i].ver = 0
  BY ViewsAssumption DEF IInv, TypeOK, AskedOK, Versions
<1>2. asked' = RemoveAt(asked, i)
      /\ UNCHANGED <<version, who, view, cache, pane, commands, owed>>
  BY DEF ServeLoad
<1>3. PICK c \in Loads : /\ answers' = Append(answers, c) /\ ~c.late
                         /\ c.ver <= version /\ (c.ok => c.ver = version)
  <2> DEFINE d == [asked[i] EXCEPT !.ok = TRUE, !.ver = version]
  <2>1. d \in Loads /\ d.late = asked[i].late /\ d.ver = version /\ d.ok
    BY <1>1 DEF Loads
  <2>2. answers' = Append(answers, d) \/ answers' = Append(answers, asked[i])
    BY DEF ServeLoad
  <2> HIDE DEF d
  <2> QED BY <1>1, <2>1, <2>2
<1>4. /\ answers' \in Seq(Loads) /\ answers' # << >> /\ answers'[Len(answers')] = c
      /\ \A j \in DOMAIN answers' :
             \/ j \in DOMAIN answers /\ answers'[j] = answers[j]
             \/ j = Len(answers) + 1 /\ answers'[j] = c
  BY <1>1, <1>3, Appended
<1>5. asked' \in Seq(Loads) /\ AskedOK'
  <2>1. /\ asked' \in Seq(Loads) /\ Len(asked') = Len(asked) - 1
        /\ \A j \in DOMAIN asked' : asked'[j] = IF j < i THEN asked[j] ELSE asked[j + 1]
    BY <1>1, <1>2, RemoveAtElements
  <2>2. \A j \in DOMAIN asked' : \E k \in DOMAIN asked : asked'[j] = asked[k]
    BY <1>1, <2>1
  <2> QED BY <2>1, <2>2 DEF IInv, AskedOK
<1>6. AnswersOK'
  <2>1. ASSUME NEW j \in DOMAIN answers' PROVE answers'[j].ver <= version'
    BY <1>2, <1>3, <1>4 DEF IInv, AnswersOK
  <2>2. ASSUME NEW j \in DOMAIN answers', NEW k \in DOMAIN answers', j < k,
               answers'[j].ok, answers'[k].ok
        PROVE  answers'[j].ver <= answers'[k].ver
    <3>1. CASE k \in DOMAIN answers /\ answers'[k] = answers[k]
      <4>1. j \in DOMAIN answers /\ answers'[j] = answers[j]
        BY <1>1, <1>4, <2>2, <3>1
      <4> QED BY <2>2, <3>1, <4>1 DEF IInv, AnswersOK
    <3>2. CASE k = Len(answers) + 1 /\ answers'[k] = c
      BY <1>2, <1>3, <2>1, <2>2, <3>2
    <3> QED BY <1>4, <3>1, <3>2
  <2> QED BY <2>1, <2>2 DEF AnswersOK
<1>7. NotBehind'
  <2>1. ASSUME NEW j \in DOMAIN answers', Fresh(answers'[j])
        PROVE  /\ Cached' => cache'.ver <= answers'[j].ver
               /\ pane'.shows = "data" => pane'.data.ver <= answers'[j].ver
    <3>1. CASE j \in DOMAIN answers /\ answers'[j] = answers[j]
      BY <1>2, <2>1, <3>1 DEF IInv, NotBehind, Cached
    <3>2. CASE answers'[j] = c
      BY <1>2, <1>3, <2>1, <3>2 DEF IInv, NotBehind, Fresh
    <3> QED BY <1>4, <3>1, <3>2
  <2> QED BY <1>2, <2>1 DEF IInv, NotBehind
<1>8. Newest'
  BY <1>2, <1>3, <1>4 DEF Newest, IInv, NotBehind
<1>9. TypeOK'
  BY <1>2, <1>4, <1>5 DEF IInv, TypeOK
<1>10. CommandsOK' /\ CacheShown' /\ Owes' /\ LmsOK'
  BY <1>2, <1>8 DEF IInv, CommandsOK, CacheShown, Cached, Owes, LmsOK
<1> QED BY <1>5, <1>6, <1>7, <1>9, <1>10 DEF IInv

(* The answers that are left when one has landed: those given before it are  *)
(* late.                                                                     *)
LEMMA Overtaken ==
    ASSUME IInv, NEW i \in DOMAIN answers, LoadAnswered(i)
    PROVE  /\ answers' \in Seq(Loads) /\ Len(answers') = Len(answers) - 1
           /\ \A j \in DOMAIN answers' :
                  IF j < i THEN /\ answers'[j].ok = answers[j].ok
                                /\ answers'[j].ver = answers[j].ver /\ answers'[j].late
                  ELSE /\ answers'[j].ok = answers[j + 1].ok
                       /\ answers'[j].ver = answers[j + 1].ver
                       /\ answers'[j].late = answers[j + 1].late
<1> DEFINE rest == [j \in 1 .. Len(answers) - 1 |->
                       IF j < i THEN [answers[j] EXCEPT !.late = TRUE] ELSE answers[j + 1]]
<1>1. /\ answers \in Seq(Loads) /\ Len(answers) \in Nat /\ i \in 1 .. Len(answers)
      /\ Len(answers) - 1 \in Nat
  BY DEF IInv, TypeOK
<1>2. ASSUME NEW l \in Loads
      PROVE  /\ [l EXCEPT !.late = TRUE] \in Loads
             /\ [l EXCEPT !.late = TRUE].ok = l.ok
             /\ [l EXCEPT !.late = TRUE].ver = l.ver
             /\ [l EXCEPT !.late = TRUE].late
  BY DEF Loads
<1>3. ASSUME NEW j \in 1 .. Len(answers) - 1
      PROVE  /\ rest[j] \in Loads
             /\ IF j < i THEN /\ rest[j].ok = answers[j].ok
                              /\ rest[j].ver = answers[j].ver /\ rest[j].late
                ELSE rest[j] = answers[j + 1]
  <2>1. answers[j] \in Loads /\ answers[j + 1] \in Loads
    BY <1>1
  <2>2. CASE j < i
    <3>1. rest[j] = [answers[j] EXCEPT !.late = TRUE]
      BY <2>2
    <3> HIDE DEF rest
    <3> QED BY <1>2, <2>1, <2>2, <3>1
  <2>3. CASE ~(j < i)
    BY <2>1, <2>3
  <2> QED BY <2>2, <2>3
<1>4. rest \in Seq(Loads) /\ Len(rest) = Len(answers) - 1 /\ DOMAIN rest = 1 .. Len(answers) - 1
  <2>1. DOMAIN rest = 1 .. Len(answers) - 1 /\ rest \in [1 .. Len(answers) - 1 -> Loads]
    BY <1>3
  <2> HIDE DEF rest
  <2> QED BY <1>1, <2>1
<1>5. answers' = DetachIf(Painted(answers[i]), rest)
  BY DEF LoadAnswered
<1>6. Painted(answers[i]) \in BOOLEAN
  BY DEF Painted
<1> HIDE DEF rest
<1>7. SameLoads(answers', rest)
  BY <1>4, <1>5, <1>6, LoadsDetach
<1>8. /\ answers' \in Seq(Loads) /\ Len(answers') = Len(answers) - 1
      /\ DOMAIN answers' = 1 .. Len(answers) - 1
  BY <1>1, <1>4, <1>7 DEF SameLoads
<1>9. \A j \in 1 .. Len(answers) - 1 :
          answers'[j].ok = rest[j].ok /\ answers'[j].ver = rest[j].ver
          /\ answers'[j].late = rest[j].late
  BY <1>4, <1>7 DEF SameLoads
<1> QED BY <1>3, <1>8, <1>9


(* What is left of answers in order is in order. *)
LEMMA RestInOrder ==
    ASSUME IInv, NEW i \in DOMAIN answers, version' = version,
           answers' \in Seq(Loads), Len(answers') = Len(answers) - 1,
           \A j \in DOMAIN answers' :
               /\ j < i => answers'[j].ok = answers[j].ok /\ answers'[j].ver = answers[j].ver
               /\ ~(j < i) => /\ answers'[j].ok = answers[j + 1].ok
                              /\ answers'[j].ver = answers[j + 1].ver
    PROVE  AnswersOK'
<1>1. /\ answers \in Seq(Loads) /\ Len(answers) \in Nat
      /\ DOMAIN answers = 1 .. Len(answers) /\ DOMAIN answers' = 1 .. Len(answers) - 1
      /\ i \in 1 .. Len(answers)
  BY DEF IInv, TypeOK
<1> DEFINE Was(j) == IF j < i THEN j ELSE j + 1
<1>2. ASSUME NEW j \in DOMAIN answers'
      PROVE  /\ Was(j) \in DOMAIN answers
             /\ answers'[j].ok = answers[Was(j)].ok /\ answers'[j].ver = answers[Was(j)].ver
  BY <1>1
<1>3. ASSUME NEW j \in DOMAIN answers', NEW k \in DOMAIN answers', j < k
      PROVE  Was(j) < Was(k)
  BY <1>1, <1>3
<1> HIDE DEF Was
<1>4. ASSUME NEW j \in DOMAIN answers' PROVE answers'[j].ver <= version'
  BY <1>2 DEF IInv, AnswersOK
<1>5. ASSUME NEW j \in DOMAIN answers', NEW k \in DOMAIN answers', j < k,
             answers'[j].ok, answers'[k].ok
      PROVE  answers'[j].ver <= answers'[k].ver
  BY <1>2, <1>3, <1>5 DEF IInv, AnswersOK
<1> QED BY <1>4, <1>5 DEF AnswersOK

(* An answer lands.  One that is good is painted and remembered, and those   *)
(* that are not late were given after it; one that failed settles nothing.   *)
LEMMA LoadAnsweredKeeps == ASSUME IInv, NEW i \in DOMAIN answers, LoadAnswered(i) PROVE IInv'
<1> DEFINE l == answers[i]
           d == [of |-> l.owner, ver |-> l.ver]
<1>1. /\ answers \in Seq(Loads) /\ Len(answers) \in Nat /\ i \in 1 .. Len(answers)
      /\ DOMAIN answers = 1 .. Len(answers)
      /\ l \in Loads /\ l.ver <= version /\ version \in Nat
  BY ViewsAssumption DEF IInv, TypeOK, AnswersOK, Versions
<1>2. d \in Data /\ d.ver = l.ver /\ l.ok \in BOOLEAN /\ l.late \in BOOLEAN /\ l.ver \in Versions
  BY <1>1 DEF Loads, Data
<1>3. /\ pane' = Enable(Outcome(l), l.btn) /\ UNCHANGED <<version, view>>
      /\ l.ok => cache' = IF view \in WithCache THEN d ELSE cache
      /\ ~l.ok => cache' = cache
      /\ owed' = IF l.ok /\ ~l.late THEN owed ELSE 0
      /\ who' \in {who, NoUser}
  BY DEF LoadAnswered, Remember
<1>4. /\ answers' \in Seq(Loads) /\ Len(answers') = Len(answers) - 1
      /\ \A j \in DOMAIN answers' :
             IF j < i THEN /\ answers'[j].ok = answers[j].ok
                           /\ answers'[j].ver = answers[j].ver /\ answers'[j].late
             ELSE /\ answers'[j].ok = answers[j + 1].ok
                  /\ answers'[j].ver = answers[j + 1].ver
                  /\ answers'[j].late = answers[j + 1].late
  BY Overtaken
<1>5. AnswersOK'
  BY <1>3, <1>4, RestInOrder
<1>6. ASSUME NEW j \in DOMAIN answers', Fresh(answers'[j])
      PROVE  /\ j + 1 \in DOMAIN answers /\ i < j + 1
             /\ Fresh(answers[j + 1]) /\ answers'[j].ver = answers[j + 1].ver
  <2>1. ~(j < i)
    BY <1>4, <1>6 DEF Fresh
  <2> QED BY <1>1, <1>4, <1>6, <2>1 DEF Fresh
<1>7. /\ asked' \in Seq(Loads) /\ AskedOK' /\ (asked # << >> => asked' # << >>)
      /\ commands' \in Seq(Commands) /\ CommandsOK'
      /\ commands = << >> => commands' = << >>
  <2>1. Painted(l) \in BOOLEAN /\ asked \in Seq(Loads) /\ commands \in Seq(Commands)
    BY DEF Painted, IInv, TypeOK
  <2>2. SameLoads(asked', asked)
    BY <2>1, LoadsDetach DEF LoadAnswered
  <2>3. SameCommands(commands', commands)
    BY <2>1, CommandsDetach DEF LoadAnswered
  <2> QED BY <1>3, <2>1, <2>2, <2>3, AskedKept, CommandsKept
<1>8. /\ PaneOK(Outcome(l))
      /\ l.ok => Outcome(l).shows = "data" /\ Outcome(l).data = d
      /\ ~l.ok => \/ Outcome(l) = pane
                  \/ Outcome(l).shows # "data" /\ Outcome(l).data.ver = 0
      /\ view = "lms" => Outcome(l).on = {} /\ Outcome(l).off = {}
  <2>1. PaneOK(pane)
    BY DEF IInv, TypeOK, PaneOK
  <2>2. CASE l.ok
    <3>1. Outcome(l) = Render(d)
      BY <2>2 DEF Outcome, Revalidated, Filled
    <3> HIDE DEF l, d
    <3> QED BY <1>2, <2>2, <3>1, RenderShows
  <2>3. CASE ~l.ok
    <3>1. Outcome(l) = Notice("error") \/ (Outcome(l) = pane /\ view \in WithCache)
      BY <2>3 DEF Outcome, Revalidated, Filled
    <3>2. view \in WithCache => view # "lms"
      BY DEF WithCache
    <3> HIDE DEF l, d
    <3> QED BY <2>1, <2>3, <3>1, <3>2, NoticeShows
  <2> QED BY <2>2, <2>3
<1> HIDE DEF l, d
<1>9. /\ PaneOK(pane') /\ pane'.shows = Outcome(l).shows /\ pane'.data = Outcome(l).data
      /\ view = "lms" => pane'.on = {} /\ pane'.off = {}
  BY <1>3, <1>8, EnableShows
<1>10. TypeOK'
  <2>1. cache' \in Data /\ owed' \in Versions /\ who' \in MaybeUser
    BY <1>2, <1>3, ViewsAssumption DEF IInv, TypeOK, MaybeUser, Versions
  <2> QED BY <1>3, <1>4, <1>7, <1>9, <2>1 DEF IInv, TypeOK, PaneOK
<1>11. NotBehind' /\ CacheShown'
  <2>1. owed' <= version'
    BY <1>1, <1>3 DEF IInv, NotBehind
  <2>2. CASE l.ok
    <3>1. pane'.data.ver = l.ver /\ (view \in WithCache => cache'.ver = l.ver)
      BY <1>2, <1>3, <1>8, <1>9, <2>2
    <3>2. cache'.ver <= version'
      BY <1>1, <1>3, <2>2, <3>1 DEF IInv, NotBehind
    <3>3. ASSUME NEW j \in DOMAIN answers', Fresh(answers'[j]) PROVE l.ver <= answers'[j].ver
      BY <1>6, <2>2, <3>3 DEF IInv, AnswersOK, Fresh, l
    <3>4. Cached' => view \in WithCache
      BY <1>3 DEF Cached
    <3> QED BY <1>1, <1>3, <2>1, <3>1, <3>2, <3>3, <3>4 DEF NotBehind, CacheShown
  <2>3. CASE ~l.ok
    <3>1. cache' = cache /\ Cached' = Cached
      BY <1>3, <2>3 DEF Cached
    <3>2. \/ pane'.shows = pane.shows /\ pane'.data = pane.data
          \/ pane'.shows # "data" /\ pane'.data.ver = 0
      BY <1>8, <1>9, <2>3
    <3>3. ASSUME NEW j \in DOMAIN answers', Fresh(answers'[j])
          PROVE  /\ Cached' => cache'.ver <= answers'[j].ver
                 /\ pane'.shows = "data" => pane'.data.ver <= answers'[j].ver
      BY <1>6, <3>1, <3>2, <3>3 DEF IInv, NotBehind
    <3>4. cache'.ver <= version' /\ pane'.data.ver <= version'
      BY <1>1, <1>3, <3>1, <3>2 DEF IInv, NotBehind
    <3> QED BY <2>1, <3>1, <3>2, <3>3, <3>4 DEF IInv, NotBehind, CacheShown
  <2> QED BY <1>2, <2>2, <2>3
<1>12. Owes'
  <2> SUFFICES ASSUME owed' > 0
               PROVE  asked' # << >> \/ Newest' \/ (pane'.shows = "data" /\ pane'.data.ver >= owed')
    BY DEF Owes
  <2>1. l.ok /\ ~l.late /\ owed' = owed /\ pane'.shows = "data" /\ pane'.data.ver = l.ver
    BY <1>2, <1>3, <1>8, <1>9
  <2>2. CASE asked # << >>
    BY <1>7, <2>2
  <2>3. CASE Newest
    <3>1. CASE i = Len(answers)
      BY <2>1, <2>3, <3>1 DEF Newest, l
    <3>2. CASE i # Len(answers)
      <4>1. Len(answers') \in DOMAIN answers' /\ ~(Len(answers') < i)
            /\ Len(answers') + 1 = Len(answers) /\ answers' # << >>
        BY <1>1, <1>4, <3>2
      <4> QED BY <1>4, <2>1, <2>3, <4>1 DEF Newest
    <3> QED BY <3>1, <3>2
  <2>4. CASE pane.shows = "data" /\ pane.data.ver >= owed
    <3>1. pane.data.ver <= l.ver
      BY <2>1, <2>4 DEF IInv, NotBehind, Fresh, l
    <3>2. pane.data.ver \in Int /\ l.ver \in Int /\ owed \in Int
      BY <1>2 DEF IInv, TypeOK, Panes, Data, Versions
    <3> QED BY <2>1, <2>4, <3>1, <3>2
  <2> QED BY <2>1, <2>2, <2>3, <2>4 DEF IInv, Owes
<1>13. LmsOK'
  BY <1>3, <1>7, <1>9 DEF IInv, LmsOK
<1> QED BY <1>5, <1>7, <1>10, <1>11, <1>12, <1>13 DEF IInv

(* Moodle wants a sign-in: the courses are not shown. *)
LEMMA LmsSignInKeeps ==
    ASSUME IInv, NEW i \in DOMAIN answers, LmsSignInRequired(i) PROVE IInv'
<1>1. /\ view = "lms" /\ pane' = Notice("error") /\ answers' = RemoveAt(answers, i)
      /\ UNCHANGED <<version, who, view, cache, asked, commands, owed>>
      /\ answers \in Seq(Loads)
  BY DEF LmsSignInRequired, IInv, TypeOK
<1>2. /\ answers' \in Seq(Loads) /\ Len(answers') = Len(answers) - 1
      /\ \A j \in DOMAIN answers' :
             answers'[j] = IF j < i THEN answers[j] ELSE answers[j + 1]
  BY <1>1, RemoveAtElements
<1>3. AnswersOK'
  BY <1>1, <1>2, RestInOrder
<1>4. /\ PaneOK(pane') /\ pane'.shows # "data" /\ pane'.data.ver = 0
      /\ pane'.on = {} /\ pane'.off = {}
  BY <1>1, NoticeShows
<1>5. ~Cached' /\ version \in Nat
  BY <1>1, ViewsAssumption DEF Cached, WithCache, IInv, TypeOK, Versions
<1>6. TypeOK'
  BY <1>1, <1>2, <1>4 DEF IInv, TypeOK, PaneOK
<1>7. NotBehind' /\ CacheShown'
  BY <1>1, <1>4, <1>5 DEF IInv, NotBehind, CacheShown
<1>8. AskedOK' /\ CommandsOK' /\ Owes' /\ LmsOK'
  BY <1>1, <1>4 DEF IInv, AskedOK, CommandsOK, Owes, LmsOK
<1> QED BY <1>3, <1>6, <1>7, <1>8 DEF IInv


-----------------------------------------------------------------------------
(* Buttons *)

(* The pane changes in its buttons only; loads are as they were. *)
LEMMA SameData ==
    ASSUME IInv, UNCHANGED <<version, view, cache, owed>>, who' \in MaybeUser,
           PaneOK(pane'), pane'.shows = pane.shows, pane'.data = pane.data,
           SameLoads(asked', asked), SameLoads(answers', answers),
           commands' \in Seq(Commands), CommandsOK', LmsOK'
    PROVE  IInv'
<1>1. asked' \in Seq(Loads) /\ AskedOK' /\ (asked # << >> => asked' # << >>)
  BY AskedKept
<1>2. /\ answers' \in Seq(Loads) /\ AnswersOK' /\ DOMAIN answers' = DOMAIN answers
      /\ \A j \in DOMAIN answers :
             (Fresh(answers'[j]) <=> Fresh(answers[j])) /\ answers'[j].ver = answers[j].ver
      /\ Newest => Newest'
  BY AnswersKept
<1>3. Cached' = Cached
  BY DEF Cached
<1>4. TypeOK'
  BY <1>1, <1>2 DEF IInv, TypeOK, PaneOK
<1>5. NotBehind'
  <2>1. ASSUME NEW j \in DOMAIN answers', Fresh(answers'[j])
        PROVE  /\ Cached' => cache'.ver <= answers'[j].ver
               /\ pane'.shows = "data" => pane'.data.ver <= answers'[j].ver
    BY <1>2, <1>3, <2>1 DEF IInv, NotBehind
  <2> QED BY <2>1 DEF IInv, NotBehind
<1>6. CacheShown' /\ Owes'
  BY <1>1, <1>2, <1>3 DEF IInv, CacheShown, Owes
<1> QED BY <1>1, <1>2, <1>4, <1>5, <1>6 DEF IInv

(* Nothing happens to the loads. *)
LEMMA LoadsStay ==
    ASSUME IInv, UNCHANGED <<asked, answers>>
    PROVE  SameLoads(asked', asked) /\ SameLoads(answers', answers)
BY DEF IInv, TypeOK, SameLoads

(* What is shown is painted again. *)
LEMMA RepaintKeeps == ASSUME IInv, Repaint PROVE IInv'
<1>1. /\ pane.shows = "data" /\ pane' = Render(pane.data) /\ pane.data \in Data
      /\ UNCHANGED <<version, who, view, cache, owed>>
  BY DEF Repaint, IInv, TypeOK, Panes
<1>2. /\ PaneOK(pane') /\ pane'.shows = pane.shows /\ pane'.data = pane.data
      /\ view = "lms" => pane'.on = {} /\ pane'.off = {}
  BY <1>1, RenderShows
<1>3. /\ asked' = DetachIf(TRUE, asked) /\ answers' = DetachIf(TRUE, answers)
      /\ commands' = DetachIf(TRUE, commands)
  BY DEF Repaint, DetachIf
<1>4. asked \in Seq(Loads) /\ answers \in Seq(Loads) /\ commands \in Seq(Commands)
  BY DEF IInv, TypeOK
<1>5. SameLoads(asked', asked) /\ SameLoads(answers', answers)
  BY <1>3, <1>4, LoadsDetach
<1>6. /\ commands' \in Seq(Commands) /\ CommandsOK'
      /\ commands = << >> => commands' = << >>
  BY <1>1, <1>3, <1>4, CommandsDetach, CommandsKept
<1>7. LmsOK' /\ who' \in MaybeUser
  BY <1>1, <1>2, <1>6 DEF IInv, LmsOK, TypeOK
<1> QED BY <1>1, <1>2, <1>5, <1>6, <1>7, SameData

(* A button is pressed: it is disabled, and its command sent. *)
LEMMA PressKeeps == ASSUME IInv, NEW b \in Buttons, Press(b) PROVE IInv'
<1> DEFINE held == IF b = "token" THEN NoButton ELSE b
           c == [by |-> b, btn |-> held, stage |-> "sent", ver |-> 0]
           p == [pane EXCEPT !.on = pane.on \ {held}, !.off = pane.off \cup ({held} \ {NoButton})]
<1>1. c \in Commands /\ c.ver = 0
  BY ViewsAssumption DEF Commands, Versions
<1>2. /\ pane' = p /\ commands' = Append(commands, c) /\ b \in pane.on
      /\ UNCHANGED <<version, who, view, cache, asked, answers, owed>>
  BY DEF Press
<1>3. PaneOK(p) /\ p.shows = pane.shows /\ p.data = pane.data
  <2>1. pane \in Panes /\ pane.on \cap pane.off = {}
    BY DEF IInv, TypeOK
  <2>2. pane.off \cup ({held} \ {NoButton}) \in SUBSET Buttons /\ pane.on \ {held} \in SUBSET Buttons
    BY <2>1 DEF Panes
  <2>3. (pane.on \ {held}) \cap (pane.off \cup ({held} \ {NoButton})) = {}
    BY <2>1
  <2> HIDE DEF held
  <2>4. /\ p \in Panes /\ p.shows = pane.shows /\ p.data = pane.data
        /\ p.on = pane.on \ {held} /\ p.off = pane.off \cup ({held} \ {NoButton})
    BY <2>1, <2>2 DEF Panes
  <2> QED BY <2>3, <2>4 DEF PaneOK
<1> HIDE DEF c, p, held
<1>4. commands \in Seq(Commands)
  BY DEF IInv, TypeOK
<1>5. /\ commands' \in Seq(Commands)
      /\ \A j \in DOMAIN commands' :
             \/ j \in DOMAIN commands /\ commands'[j] = commands[j]
             \/ j = Len(commands) + 1 /\ commands'[j] = c
  BY <1>1, <1>2, <1>4, Appended
<1>6. CommandsOK'
  <2>1. version \in Nat
    BY ViewsAssumption DEF IInv, TypeOK, Versions
  <2>2. ASSUME NEW j \in DOMAIN commands'
        PROVE  /\ commands'[j].ver <= version'
               /\ commands'[j].by \in WhatIf => commands'[j].ver = 0
    BY <1>1, <1>2, <1>5, <2>1 DEF IInv, CommandsOK
  <2> QED BY <2>2 DEF CommandsOK
<1>7. LmsOK' /\ who' \in MaybeUser
  BY <1>2 DEF IInv, LmsOK, TypeOK
<1> QED BY <1>2, <1>3, <1>5, <1>6, <1>7, LoadsStay, SameData

(* A click is a repaint or a command. *)
LEMMA ClickKeeps == ASSUME IInv, Click PROVE IInv'
<1>1. Repaint \/ \E b \in Buttons : Press(b)
  BY DEF Click, filterTimetableDay, editWhatIfCourses, triggerLiveTimetableSync,
         triggerLiveAttendanceSync, triggerCalendarReconcile, triggerCacheOnlyReconcile,
         syncAcademicResults, runWhatIfTargetCgpa, runWhatIfScenario, refreshAllAcademics,
         promptCreateAgentToken, Buttons
<1> QED BY <1>1, RepaintKeeps, PressKeeps

(* The data at the server grows; nothing in the page changes but what a      *)
(* command has been answered.                                                *)
LEMMA GrowKeeps ==
    ASSUME IInv, version' \in Versions, version <= version',
           UNCHANGED <<who, view, cache, pane, asked, answers, owed>>,
           commands' \in Seq(Commands), CommandsOK', LmsOK'
    PROVE  IInv'
<1>1. version \in Int /\ version' \in Int /\ owed \in Int /\ cache.ver \in Int /\ pane.data.ver \in Int
  BY DEF IInv, TypeOK, Versions, Data, Panes
<1>2. ASSUME NEW j \in DOMAIN answers PROVE answers[j].ver \in Int
  <2>1. answers[j] \in Loads
    BY DEF IInv, TypeOK
  <2> QED BY <2>1 DEF Loads, Versions
<1>3. TypeOK' /\ AskedOK'
  BY DEF IInv, TypeOK, AskedOK
<1>4. AnswersOK' /\ NotBehind'
  BY <1>1, <1>2 DEF IInv, AnswersOK, NotBehind, Cached
<1>5. CacheShown' /\ Owes'
  BY DEF IInv, CacheShown, Cached, Owes, Newest
<1> QED BY <1>3, <1>4, <1>5 DEF IInv

(* The command is carried out. *)
LEMMA ServeCommandKeeps == ASSUME IInv, NEW i \in DOMAIN commands, ServeCommand(i) PROVE IInv'
<1>1. /\ version' \in Versions /\ version <= version' /\ version \in Nat /\ version' \in Nat
  BY ViewsAssumption DEF ServeCommand, IInv, TypeOK, Versions
<1>2. PICK stage \in {"done", "failed"} :
          commands' = [commands EXCEPT
              ![i].stage = stage, ![i].ver = IF commands[i].by \in WhatIf THEN 0 ELSE version']
  BY DEF ServeCommand
<1> DEFINE v == IF commands[i].by \in WhatIf THEN 0 ELSE version'
           c == [commands[i] EXCEPT !.stage = stage, !.ver = v]
<1>3. commands \in Seq(Commands) /\ commands[i] \in Commands
  BY DEF IInv, TypeOK
<1>4. /\ c \in Commands /\ c.by = commands[i].by
      /\ c.ver = IF commands[i].by \in WhatIf THEN 0 ELSE version'
  <2>1. v \in Versions
    BY <1>1, ViewsAssumption DEF Versions
  <2>2. v = IF commands[i].by \in WhatIf THEN 0 ELSE version'
    OBVIOUS
  <2> HIDE DEF v
  <2>3. c \in Commands /\ c.by = commands[i].by /\ c.ver = v
    BY <1>3, <2>1 DEF Commands
  <2> QED BY <2>2, <2>3
<1>5. commands' = [commands EXCEPT ![i] = c]
  BY <1>2
<1> HIDE DEF c
<1>6. /\ commands' \in Seq(Commands) /\ DOMAIN commands' = DOMAIN commands
      /\ \A j \in DOMAIN commands : commands'[j] = IF j = i THEN c ELSE commands[j]
  BY <1>3, <1>4, <1>5
<1>7. CommandsOK'
  <2>1. ASSUME NEW j \in DOMAIN commands'
        PROVE  /\ commands'[j].ver <= version'
               /\ commands'[j].by \in WhatIf => commands'[j].ver = 0
    <3>1. CASE j = i
      BY <1>1, <1>4, <1>6, <3>1
    <3>2. CASE j # i
      <4>1. commands[j] \in Commands
        BY <1>3, <1>6
      <4>2. commands[j].ver \in Int
        BY <4>1 DEF Commands, Versions
      <4> QED BY <1>1, <1>6, <3>2, <4>2 DEF IInv, CommandsOK
    <3> QED BY <3>1, <3>2
  <2> QED BY <2>1 DEF CommandsOK
<1>8. LmsOK'
  <2>1. view # "lms"
    BY <1>3 DEF IInv, LmsOK
  <2> QED BY <2>1 DEF ServeCommand, LmsOK
<1> QED BY <1>1, <1>6, <1>7, <1>8, GrowKeeps DEF ServeCommand

(* A command is over, and nothing is loaded: a what-if promises nothing.     *)
LEMMA CommandEndedKeeps == ASSUME IInv, NEW i \in DOMAIN commands, CommandEnded(i) PROVE IInv'
<1> DEFINE c == commands[i]
<1>1. /\ commands \in Seq(Commands) /\ c \in Commands /\ PaneOK(pane)
      /\ c.by \in WhatIf => c.ver = 0
  BY DEF IInv, TypeOK, PaneOK, CommandsOK
<1>2. /\ pane' = Enable(pane, c.btn) /\ commands' = RemoveAt(commands, i)
      /\ owed' = Promised(c) /\ UNCHANGED <<version, view, cache, asked, answers>>
      /\ who' \in MaybeUser
      /\ c.stage = "failed" \/ c.by \in WhatIf
  BY DEF CommandEnded, ReloadsAfter, IInv, TypeOK, MaybeUser
<1>3. owed' = owed
  BY <1>1, <1>2 DEF Promised, IInv, TypeOK, Versions
<1>4. PaneOK(pane') /\ pane'.shows = pane.shows /\ pane'.data = pane.data
  BY <1>1, <1>2, EnableShows
<1>5. /\ commands' \in Seq(Commands) /\ Len(commands') = Len(commands) - 1
      /\ \A j \in DOMAIN commands' :
             commands'[j] = IF j < i THEN commands[j] ELSE commands[j + 1]
  BY <1>1, <1>2, RemoveAtElements
<1>6. \A j \in DOMAIN commands' : \E k \in DOMAIN commands : commands'[j] = commands[k]
  BY <1>1, <1>5
<1>7. CommandsOK'
  <2>1. ASSUME NEW j \in DOMAIN commands'
        PROVE  /\ commands'[j].ver <= version'
               /\ commands'[j].by \in WhatIf => commands'[j].ver = 0
    <3>1. PICK k \in DOMAIN commands : commands'[j] = commands[k]
      BY <1>6
    <3> QED BY <1>2, <3>1 DEF IInv, CommandsOK
  <2> QED BY <2>1 DEF CommandsOK
<1>8. LmsOK'
  <2>1. view # "lms"
    BY <1>1 DEF IInv, LmsOK
  <2> QED BY <1>2, <2>1 DEF LmsOK
<1> QED BY <1>2, <1>3, <1>4, <1>5, <1>7, <1>8, LoadsStay, SameData

-----------------------------------------------------------------------------
(* The data changes without this view. *)
LEMMA ScheduledSyncKeeps == ASSUME IInv, ScheduledSync PROVE IInv'
<1>1. version' \in Versions /\ version <= version' /\ version \in Nat
  BY ViewsAssumption DEF ScheduledSync, IInv, TypeOK, Versions
<1>2. commands' \in Seq(Commands) /\ LmsOK'
  BY DEF ScheduledSync, IInv, TypeOK, LmsOK
<1>3. CommandsOK'
  <2>1. ASSUME NEW j \in DOMAIN commands PROVE commands[j].ver \in Int /\ commands[j].ver <= version
    <3>1. commands[j] \in Commands
      BY DEF IInv, TypeOK
    <3> QED BY <3>1 DEF Commands, Versions, IInv, CommandsOK
  <2> QED BY <1>1, <2>1 DEF ScheduledSync, IInv, CommandsOK
<1> QED BY <1>1, <1>2, <1>3, GrowKeeps DEF ScheduledSync

(* The cache expires, or the user signs out. *)
LEMMA ForgetKeeps == ASSUME IInv, Expire \/ SignOut PROVE IInv'
<1>1. CASE Expire
  <2>1. /\ cache' \in Data /\ cache'.ver = 0 /\ ~Cached'
        /\ UNCHANGED <<version, who, view, pane, asked, answers, commands, owed>>
    BY <1>1, ViewsAssumption DEF Expire, NoData, Data, MaybeUser, Versions, Cached
  <2>2. TypeOK' /\ version \in Nat
    BY <2>1, ViewsAssumption DEF IInv, TypeOK, Versions
  <2>3. NotBehind' /\ CacheShown'
    BY <2>1, <2>2 DEF IInv, NotBehind, CacheShown
  <2>4. AskedOK' /\ AnswersOK' /\ CommandsOK' /\ Owes' /\ LmsOK'
    BY <2>1 DEF IInv, AskedOK, AnswersOK, CommandsOK, Owes, Newest, LmsOK
  <2> QED BY <2>2, <2>3, <2>4 DEF IInv
<1>2. CASE SignOut
  <2>1. UNCHANGED <<version, view, cache, pane, asked, answers, commands, owed>>
        /\ who' \in MaybeUser
    BY <1>2 DEF SignOut, MaybeUser
  <2>2. TypeOK' /\ AskedOK' /\ AnswersOK' /\ CommandsOK' /\ LmsOK'
    BY <2>1 DEF IInv, TypeOK, AskedOK, AnswersOK, CommandsOK, LmsOK
  <2>3. NotBehind' /\ CacheShown' /\ Owes'
    BY <2>1 DEF IInv, NotBehind, CacheShown, Cached, Owes, Newest
  <2> QED BY <2>2, <2>3 DEF IInv
<1> QED BY <1>1, <1>2

-----------------------------------------------------------------------------
(* Every step keeps the invariant. *)
THEOREM StepHolds == IInv /\ [Next]_vars => IInv'
<1> SUFFICES ASSUME IInv, [Next]_vars PROVE IInv'
  OBVIOUS
<1>1. CASE Visit \/ (\E u \in Users : SignIn(u))
  BY <1>1, VisitKeeps
<1>2. CASE \E i \in DOMAIN asked : ServeLoad(i)
  BY <1>2, ServeLoadKeeps
<1>3. CASE \E i \in DOMAIN answers : LoadAnswered(i) \/ LmsSignInRequired(i)
  BY <1>3, LoadAnsweredKeeps, LmsSignInKeeps
<1>4. CASE Click
  BY <1>4, ClickKeeps
<1>5. CASE \E i \in DOMAIN commands : ServeCommand(i) \/ CommandAnswered(i)
  BY <1>5, ServeCommandKeeps, CommandDoneKeeps, CommandEndedKeeps DEF CommandAnswered
<1>6. CASE ScheduledSync
  BY <1>6, ScheduledSyncKeeps
<1>7. CASE Expire \/ SignOut
  BY <1>7, ForgetKeeps
<1>8. CASE UNCHANGED vars
  BY <1>8 DEF vars, IInv, TypeOK, AskedOK, AnswersOK, CommandsOK, NotBehind, CacheShown,
              Cached, Owes, Newest, LmsOK
<1> QED BY <1>1, <1>2, <1>3, <1>4, <1>5, <1>6, <1>7, <1>8 DEF Next

(* The inductive invariant holds in every behaviour. *)
THEOREM Inductive == Spec => []IInv
BY InitHolds, StepHolds, PTL DEF Spec

(* Every variable keeps its type. *)
THEOREM TypeCorrect == Spec => []TypeOK
<1>1. IInv => TypeOK
  BY DEF IInv
<1> QED BY <1>1, Inductive, PTL

(* What a command produced is shown once no load of the view is under way,   *)
(* unless its load failed or an overtaken answer landed last.                *)
THEOREM CommandIsShown == Spec => []SyncIsShown
<1>1. IInv => SyncIsShown
  BY DEF IInv, Owes, Newest, SyncIsShown
<1> QED BY <1>1, Inductive, PTL


-----------------------------------------------------------------------------
(* A loader that starts paints what was shown, or what is remembered of it.  *)
LEMMA LoadingKeepsData ==
    ASSUME IInv, NEW x, pane' \in {Loading, Enable(Loading, x)},
           pane.shows = "data", pane'.shows = "data"
    PROVE  pane'.data.ver = pane.data.ver
<1>1. pane'.shows = Loading.shows /\ pane'.data = Loading.data
  BY LoadingShows, EnableShows DEF IInv
<1> QED BY <1>1, LoadingShows DEF IInv, CacheShown

(* An answer that is not late is no older than what is shown. *)
LEMMA AnswerIsNewer ==
    ASSUME IInv, NEW i \in DOMAIN answers, LoadAnswered(i), ~answers[i].late,
           pane.shows = "data", pane'.shows = "data"
    PROVE  pane.data.ver <= pane'.data.ver
<1> DEFINE l == answers[i]
           d == [of |-> l.owner, ver |-> l.ver]
<1>1. l \in Loads /\ PaneOK(pane) /\ pane.data.ver \in Int
  BY DEF IInv, TypeOK, PaneOK, Panes, Data, Versions
<1>2. d \in Data /\ d.ver = l.ver
  BY <1>1 DEF Loads, Data
<1>3. pane' = Enable(Outcome(l), l.btn)
  BY DEF LoadAnswered
<1>4. CASE l.ok
  <2>1. Outcome(l) = Render(d)
    BY <1>4 DEF Outcome, Revalidated, Filled
  <2> HIDE DEF d
  <2>2. PaneOK(Outcome(l)) /\ Outcome(l).data = d
    BY <1>2, <2>1, RenderShows
  <2>3. pane'.data = d
    BY <1>3, <2>2, EnableShows
  <2> QED BY <1>2, <1>4, <2>3 DEF IInv, NotBehind, Fresh
<1>5. CASE ~l.ok
  <2>1. Outcome(l) = pane \/ Outcome(l) = Notice("error")
    BY <1>5 DEF Outcome, Revalidated, Filled
  <2>2. pane'.shows = Outcome(l).shows /\ pane'.data = Outcome(l).data
    BY <1>1, <1>3, <2>1, EnableShows, NoticeShows
  <2>3. pane'.data = pane.data
    BY <2>1, <2>2, NoticeShows
  <2> QED BY <1>1, <2>3
<1> QED BY <1>4, <1>5

(* What a user sees never gives way to an older state, unless an answer      *)
(* lands that a later one has overtaken.                                     *)
THEOREM NeverGoesBack == Spec => NeverBack
<1> DEFINE Back == /\ pane.shows = "data" /\ pane'.shows = "data"
                   /\ pane'.data.of = pane.data.of
                   /\ pane'.data.ver < pane.data.ver
           Overtook == \E i \in DOMAIN answers : answers[i].late /\ LoadAnswered(i)
<1>1. IInv /\ [Next]_vars => [Back => Overtook]_vars
  <2> SUFFICES ASSUME IInv, Next, Back PROVE Overtook
    OBVIOUS
  <2>1. pane.shows = "data" /\ pane'.shows = "data" /\ ~(pane.data.ver <= pane'.data.ver)
    <3>1. PaneOK(pane) /\ pane.data.ver \in Int /\ pane'.data.ver \in Int
      <4>1. IInv'
        BY StepHolds
      <4> QED BY <4>1 DEF IInv, TypeOK, PaneOK, Panes, Data, Versions
    <3> QED BY <3>1
  <2>2. pane'.data # pane.data /\ pane'.data.ver # pane.data.ver
    <3>1. pane.data.ver \in Int
      BY DEF IInv, TypeOK, Panes, Data, Versions
    <3> QED BY <2>1, <3>1
  <2> HIDE DEF Back
  <2>3. ASSUME Visit \/ (\E u \in Users : SignIn(u)) PROVE FALSE
    BY <2>1, <2>2, <2>3, LoadingKeepsData DEF Visit, SignIn
  <2>4. ASSUME NEW i \in DOMAIN commands, CommandDone(i) PROVE FALSE
    <3>1. \E x : pane' = Enable(Loading, x)
      BY <2>4 DEF CommandDone
    <3> QED BY <2>1, <2>2, <3>1, LoadingKeepsData
  <2>5. ASSUME NEW i \in DOMAIN commands, CommandEnded(i) PROVE FALSE
    <3>1. \E x : pane' = Enable(pane, x)
      BY <2>5 DEF CommandEnded
    <3>2. PaneOK(pane)
      BY DEF IInv, TypeOK, PaneOK
    <3> QED BY <2>2, <3>1, <3>2, EnableShows
  <2>6. ASSUME Click PROVE FALSE
    <3>1. Repaint \/ \E b \in Buttons : Press(b)
      BY <2>6 DEF Click, filterTimetableDay, editWhatIfCourses, triggerLiveTimetableSync,
             triggerLiveAttendanceSync, triggerCalendarReconcile, triggerCacheOnlyReconcile,
             syncAcademicResults, runWhatIfTargetCgpa, runWhatIfScenario,
             refreshAllAcademics, promptCreateAgentToken, Buttons
    <3>2. ASSUME Repaint PROVE FALSE
      BY <2>2, <3>2, RenderShows DEF Repaint
    <3>3. ASSUME NEW b \in Buttons, Press(b) PROVE FALSE
      <4>1. pane \in Panes
        BY DEF IInv, TypeOK
      <4>2. pane'.data = pane.data
        BY <3>3, <4>1 DEF Press, Panes
      <4> QED BY <2>2, <4>2
    <3> QED BY <3>1, <3>2, <3>3
  <2>7. ASSUME NEW i \in DOMAIN answers, LoadAnswered(i) PROVE Overtook
    BY <2>1, <2>7, AnswerIsNewer
  <2>8. ASSUME NEW i \in DOMAIN answers, LmsSignInRequired(i) PROVE FALSE
    BY <2>1, <2>8, NoticeShows DEF LmsSignInRequired
  <2>9. ASSUME NEW i \in DOMAIN asked, ServeLoad(i) PROVE FALSE
    BY <2>2, <2>9 DEF ServeLoad
  <2>10. ASSUME NEW i \in DOMAIN commands, ServeCommand(i) PROVE FALSE
    BY <2>2, <2>10 DEF ServeCommand
  <2>11. ASSUME ScheduledSync \/ Expire \/ SignOut PROVE FALSE
    BY <2>2, <2>11 DEF ScheduledSync, Expire, SignOut
  <2> HIDE DEF Overtook
  <2> QED BY <2>3, <2>4, <2>5, <2>6, <2>7, <2>8, <2>9, <2>10, <2>11 DEF Next, CommandAnswered
<1> QED BY <1>1, Inductive, PTL DEF Spec, NeverBack

=============================================================================

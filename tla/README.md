# NexusNode in TLA+

NexusNode is a single-process Python server for one phone or small board: a
threaded HTTP server (`app.py`) with an SQLite database, a background task
worker, a browser it launches when an agent asks for one, clients of a
university's portals (Moodle, UPES, a Google calendar), and a console: one page
of JavaScript (`static/js`) from which users work with all of it. The modules
here model the parts of it whose correctness depends on the order in which
threads, processes, clocks, remote services and the answers to requests act. Paths below are relative to the
repository's root.

## 1. Inventory

### Components, their state and operations

| Component | State | Operations | Interacts with |
|---|---|---|---|
| Consequential actions (`agent/consequential.py`) | rows of `consequential_actions`, `approval_requests`, `approval_grants`; `ACTIVE_EXECUTIONS` in memory | prepare, approve, deny, execute, expire | LMS service, REST and MCP handlers |
| LMS service and Moodle client (`agent/lms_service.py`, `lms/moodle.py`) | `submission_plans`; the state of an assignment on Moodle | prepare a plan, submit it, read it back | vault files, browser |
| Task runner (`app.py`, `BoundedTaskRunner`) | `tasks`, `task_queue`, `background_tasks` rows, child process, partial files | enqueue, work, cancel, load after a restart | download and backup jobs, resource governor, scheduler |
| Browser sessions (`agent/browser_service.py`, `browser/bg6_cdp.py`, `browser/chromium_runtime.py`) | `_sessions`, `_active_sessions`, the lock file and its inode, the Chromium process | open, close, idle release, launch, shutdown, watchdog | resource governor, agent |
| Synchronisation leases (`timetable_sync.py`, `attendance_sync.py`) | one row per user with a token and an expiry | acquire, release | scheduler, REST handlers |
| UPES authentication (`upes/auth.py`) | `upes_auth_sessions`, `_is_authenticating`, circuit breaker | ensure_authenticated, import, logout | timetable, attendance and results services |
| Legacy approvals (`agent/policy.py`, `agent/registry.py`) | `approvals` rows | create, approve, deny, execute with a grant | MCP tools |
| Timetable reconciliation (`timetable_sync.py`) | event map, calendar, last known good timetable | synchronize, bulk clean-up | calendar, lease, broker |
| UPES journal and broker (`timetable_sync.py`) | two-phase session bundle | prepare, commit, recover, renew | UPES |
| OAuth provider (`agent/oauth_provider.py`) | codes, access and refresh tokens | authorize, exchange, refresh, revoke | MCP gateway |
| MCP gateway (`agent/mcp_server.py`, `agent/semantic_facade.py`, ...) | rate windows, SSE sessions | dispatch | every service above |
| Scheduler, retention sweep (`app.py`) | `scheduled_jobs`, all logs | tick, sweep | task runner |
| Sessions, shares, playback tokens, log writer, search index (`app.py`) | rows and in-memory tables | login, share, stream, log, index | HTTP handlers |
| Console, session of a window (`api.js`, `app.js`, the log stream of `diagnostics.js`) | `authState`, localStorage, the sign-in form and the header, the tab and the hash of the address, poll timers, the log stream | opening check, sign-in, sign-out, 401, tabs, polls, reload | session table of the server |
| Console, views (`dashboard.js`, `academics.js`, `mcp.js`, `diagnostics.js`) | per view: its pane, its entry of `NexusStateCache` | visit, refresh, ten kinds of buttons that send a command and load again | every service above |
| Console, academic accounts (`accounts.js`) | the view of the tab, the modal, the wizard's step and student | list, 11-step enrolment of a student | accounts, UPES, timetable |
| Console, vault (`vault.js`) | path, last listing, rows on the screen | navigate, create, upload, rename, delete | vault service |

The parts that are not modelled are listed with their reasons in section 6.

### What is hard, and what makes each component correct

* **Read, then write.** SQLite makes a transaction atomic, but most handlers
  read a row in one statement and update it in a later one whose `WHERE` names
  only the identifier. An authority to submit must nevertheless be issued and
  spent at most once (consequential actions), and a lease must have one holder.
* **State outside the lock.** The task runner has a lock; its jobs write the
  status of their task without it. A task cancelled in the queue must not run,
  what is recorded as completed must have gone well, a failed task must leave
  nothing unfinished, and rows must catch up with memory.
* **Processes and files.** The browser lock is a file that its holder removes;
  the downloader leaves partial files; Chromium may outlive its session.
* **Waiting and staleness.** A caller that waited for a renewal judges by what
  it read before it waited; a lease is judged by a clock read before the
  transaction began.
* **Answers that cross.** The page runs on one thread but waits at every
  `await`: requests of an earlier visit, folder, wizard or user land after later
  ones and paint what they brought. Nothing is cancelled and no answer asks
  whether it is still wanted.
* **State kept twice.** The session is in memory and in localStorage, the path
  of the vault in the crumbs and in the rows, the student of the wizard in a
  variable and in the modal, the data in the cache and on the screen.
* **Restart.** Memory is lost and rows stay: an action in the middle of its
  execution, a queued task, a lease of a run that has gone.
* **Remote failure.** Every answer of Moodle, UPES, yt-dlp and Chromium may be
  an error, before or after the effect.

`PROJECT.json` lists each hazard at its line with the properties that cover it.

## 2. Modules

### ConsequentialActions, SingleUseAuthority

`ConsequentialActions` models the path of an assignment submission: a plan is
prepared, a request creates an action with its approval request, a user approves
(which issues a grant) or denies, and the approve call goes on to execute: load,
expire, read the grant, inspect Moodle, consume the grant, run the pipeline
(verify the files, look at Moodle, click, read back, gather evidence), persist
the outcome. `pc` names the next step of a thread; a step is one SQLite
transaction, one remote call or one critical section. `table`-like variables are
the rows, `active` is `ACTIVE_EXECUTIONS`, `remote` is Moodle. A restart
(`Crash`) clears the threads and `active`. An action and its approval request
are created together and share an identifier.

Conventions: requests of a user who does not own the plan or the approval change
nothing and are left out; DRAFT and READY_FOR_REVIEW of a plan are one state,
for nothing distinguishes them later; Moodle is assumed to show the submit
control only while the assignment is a draft and never to take a submission
back. `ClickBridge` says whether the browser service has the `pinchtab`
attribute that `lms/moodle.py` clicks with: the one `app.py` builds has not
(run `actions_noclient`), the ones of the tests have.

`SingleUseAuthority` is the abstract promise: authority goes from none to issued
to spent, and takes effect at most once, only when spent.

### TaskRunner

`BoundedTaskRunner` with one worker and one thread inside `cancel_task` (which
holds the runner's lock from beginning to end, so there is never a second).
Saving a row is two steps, the reading of the fields and the write that waits for
`DB_LOCK`; and `_save_task_to_db` passes over every exception (`app.py:2335`), so
a save may be lost without anybody noticing (`lost`, counted with the restarts
in `faults`). The download job is followed line by line between its writes to the
task; the backup job stands for every job that never looks at its status. The
variable `outside` collects the child process, its handle and the files. Of a
download these are an unfinished `.part`, streams that yt-dlp has finished but
not merged or converted, and the output. The clean-up takes the unfinished files
of whatever download it finds in the folder and leaves the finished ones, and the
check of the output (`app.py:4640`) accepts any file that is young enough or
fits the custom name, another task's or one of the `Strays` that were there
before. `promised` remembers the callers that were told their task will start.

### BrowserSessions

One session is one call of `open_session`, with the runtime and lock object made
for it. The lock is `flock` on an inode; the path names an inode or none, since
`release` unlinks it. A session is `in` (served), `lost` (its navigation failed
and the caller never learnt of it), `ended` (closed in the provider because it
was idle) or `closed`. A `lost` session is in the provider's table only and keeps
its lock, for nobody has the identifier to close it. Killing a Chromium is a step
of whoever kills it. When `shutdown` is called twice for one session (watchdog and close) it is one
shutdown. When a launch ends in an exception the runtime object becomes garbage
and CPython closes its lock file; the Chromium it spawned remains.

### SyncLease, DatabaseSyncLease, AttendanceSyncLease

`DatabaseSyncLease` is the timetable's lease: clock reading, then one
transaction that deletes an expired row and inserts the own one. It implements
`SyncLease` (at most one holder, taken only when free). `AttendanceSyncLease`
looks and upserts in two steps and does not; run `lease_race` shows it.

### UpesAuth

`ensure_authenticated` of all threads: the fast path, the wait for
`_is_authenticating`, the second look, the circuit breaker, the tiers (refresh,
identity-provider session, give up or log in), the save and the `finally`.
`import_authenticated_context` and `logout` happen at any time. A stored session
is its expiry and its two means of renewal. Left out: generations, telemetry,
encryption, the browser tier (its function returns None in every case), the
expiry of cookies (part of the renewal's outcome), rows without an expiry, and
the older writers of `upes_auth_sessions` in `timetable_sync.py`, which belong
to the broker.

### WebSession

One window: what a page shows and stores of its session, against the tokens the
server holds. A handler is one action up to its request (`apiCheckAuth`,
`apiLogin`, `apiLogout`, a data request) and another from the answer on; between
them tabs are clicked, other answers land and users change. `auth` is
`authState`, `stored` localStorage, `overlay` and `header` what `updateAuthUI`
displays, `stream` the `EventSource` of the logs, `timers` the two polls. The
data requests sent with one token are one, since only their 401 matters here.
`torn` records that a session began or ended while the opening check was under
way: `apiCheckAuth` then pairs the answer about one user with the token of
another (section 5).

### ConsoleViews

Any one of the ten views (`view` is chosen in the initial state), for the views share nothing in the
page. `pane` is what it displays with its enabled and disabled buttons; `asked`
and `answers` are its loads before and after the server has answered, in that
order; `commands` are the requests of its buttons. Painting replaces the pane
with its buttons, so a request may hold a button that is no longer on the screen
(`Detached`). The loaders differ in whether they paint from the cache first,
blank the pane, and what they do with a failure, and are followed in that; of
the data only the owner and the version matter, and the renderers are taken not
to throw on what their endpoints send. `late` marks a load that a later
answer has overtaken; `owed` is the version the latest successful command has
promised.

### OnboardingWizard

The accounts tab: which view is painted for whom, and the wizard. `wizard` is
the pair of page variables, `modal` what the modal shows, which is gone when the
pane under it is painted. `calls` are the requests, `on` says whether the
elements a request has kept hold of are on the screen. `torn` records that
requests of two rounds overlapped: a new wizard was opened, or a student
submitted, while an earlier request was under way.

### VaultExplorer

`current` is the path that was asked for last, `cached` the listing that landed
last, painted under it. The server's tree changes through the operations of this
window (create a folder, upload, rename, delete, with the refusals of the
endpoints in `app.py`) and through others. Each request has a slot; `newest` is
the slot of the listing asked for last, `acked` the version that the latest
operation acknowledged to this window had left. `chooser` says that the dialog
for the file to upload is open: it is modal for the page, but answers land behind
it, so the file may be chosen over a pane that is loading or shows an error.
`TreeOK` is about the server:
whatever requests made of old rows do to a tree that has changed since, no entry
is left without the folders it lies in.

Variants of definitions named `Slip_...` stand for plausible mistakes in the
code. No behaviour uses them; substituting one for the definition it varies must
break a property, which shows that the property can fail.

## 3. Runs

All runs are finite and complete. "Violation" runs check one statement that a
comment, document or test of the repository makes and the code does not keep.

| Run | Instance | Question and answer |
|---|---|---|
| `actions_authority` | 2 threads, 2 actions on 2 plans of one assignment, 1 restart | Is authority issued and spent at most once, is a submission clicked at most once, is success recorded only with a submission on Moodle and then left alone, do the tables agree, and do the handlers implement `SingleUseAuthority`? Yes. |
| `actions_live` | 2 threads, 1 action, 2 file contents, lifetimes of 1 and a clock to 2, fair, no restart | Has an invalidated action (expired, or its files changed) submitted nothing; does each execution reach an outcome, and each approved action a decision under retries? Yes. |
| `tasks_jobs` | a download and a backup, 1 restart or lost save, fair | Does a task cancelled in the queue never run, do rows settle to what memory says unless the latest save was lost, has what is recorded as completed gone well (yt-dlp succeeded, the archive is there and listed), does a failed task leave nothing unfinished, does every queued task end or is forgotten by a restart? Yes. |
| `browser_lock` | 2 sessions, 3 inodes, limit 2, fair | Can the lock always be released (its holder is at work on it, or in both tables where closing finds it; a session lost by a failed navigation excepted), does Chromium in service run under a lock, is each request to open answered? Yes. |
| `lease_timetable` | 3 runs, lease of 2, clock to 5, crash, fair | Does the row implement the lease, is it released by its owner only, and does every run get its turn? Yes. |
| `lease_race` | the same | At most one attendance run holds its lease. Violated. |
| `auth_flight` | 2 calls, 1 user, token of lifetime 3, margin 2, slack 1, cooldown 1, clock to 2, fair | One renewal at a time; none made unnecessary by the one waited for; none while the breaker is open; a password sent unasked only for a user without a session; every call returns. Yes. |
| `web_session` | an administrator and a student, 4 tabs, 2 sessions, 1 reload, fair | Do localStorage, the form, the header, the open tab and the log stream agree with who is signed in, is the user shown the one the token belongs to (`torn` aside), and is a session that ended noticed on the MCP tab? Yes. |
| `console_views` | 2 users, each of 10 views, 1 change, 2 loads and commands, fair | Is a command's result shown, does data never go back (unless an overtaken answer lands), does no pane stay at "loading" and no button disabled? Yes. |
| `console_cache` | the same | The cache is cleared on sign-out and on a 401. Violated. |
| `onboarding` | 1 administrator, 2 students, 3 requests | Is the student the wizard shows enrolled, are its reports about him (`torn` aside), do only administrators see it? Yes. |
| `vault` | 2 names, depth 2, 1 change, 2 requests | Do the rows belong to the folder of the crumbs and hold what was acknowledged, once the listing asked for last has landed and no earlier one after it? Yes. |

Beside them there are configurations for the statements that section 5 names,
each of which TLC refutes: `MC_actions_crash`, `MC_actions_denial`,
`MC_actions_dedupe`, `MC_actions_noclient`, `MC_tasks_backup`,
`MC_tasks_restart`, `MC_auth_lockout`, `MC_auth_usable`, `MC_auth_logout`,
`MC_auth_nocreds` and `MC_web_stale401` state one each; `MC_tasks_refuted` and
`MC_browser_refuted` state several, to be checked one at a time.
`MC_console_deep` (2 changes, 3 requests), `MC_vault_deep` (2 changes, from a
vault with one folder) and `MC_tasks_types` (2 faults) repeat the safety
properties of their modules, with the types (and, for the vault, `TreeOK`), on
larger instances; these hold.

**Why these bounds are enough to be interesting.** Every race here is between
two parties and at most one that disturbs them, so two or three threads, runs or
sessions suffice (and what is proved holds for any number of them); a second
action is needed only because two may name one assignment. Clocks run past every lifetime: an action can expire before, during
and after its execution, a lease can be overrun twice, a token is comfortable,
then usable. Restarts and lost saves are limited to one, which meets every step (`MC_tasks_types`
has two). Three inodes
let two sessions each create a lock file after an unlink. In the console two users, two requests that cross and
one change of the data at the server are what every anomaly of ordering needs; a
third request (wizard, and the larger instances) lets a round overlap with two
others. The
bounds are constants (`MaxTime`, `MaxCrashes`, `MaxFaults`, `MaxLogins`, `MaxReloads`,
`MaxVersion`, `MaxRequests`, `MaxCalls`, `MaxDepth`) or the sizes of sets;
nothing else is capped. `CHECK_DEADLOCK FALSE` is set, except for the vault,
because requests, tasks, runs, sessions and sign-ins are finitely many and the
system rests when they are used up and the clock has reached its bound; that
nothing hangs before is what the liveness runs say.

**Fairness.** Threads of the server and the worker thread are scheduled by the
operating system: weak fairness of their steps, never of the arrival of
requests. The clock ticks. `yt-dlp` exits in the end, since its connections time
out. Requests to UPES carry timeouts, so each returns. In `actions_live` the
owner of an approved action repeats the approve call (strong fairness of the
retry, for a retry is possible only while a thread is free); in the lease runs a
refused run tries again, as the scheduler does. In the console the poll of
the MCP tab fires while its timer is set (weak fairness of `PollMcp`, a
`setInterval`), and a request with the token of an ended session is refused in
the end, though others of the page may fail otherwise each time (strong fairness
of `DataRefused`); a view's requests come back or fail, the eldest first (weak
fairness). Nobody has to cancel, close, restart, click, reload or log out.

## 4. Proofs

TLAPS checks, for every value of the constants that satisfies the modules'
assumptions:

* `ConsequentialActions_proof`: `TypeCorrect`; `GrantsDisciplined`, the
  inductive invariant; from it `SubmitsAtMostOnce`, `ExecutesOneAtATime` and
  `Refinement` (the module implements `SingleUseAuthority`).
  *Argument.* "Clicked at most once" is not inductive: it needs to know where
  the grant is. `GrantDiscipline` says, for each action, which state its grant
  may have at each step of the thread that executes it: fresh only before the
  consuming step, consumed from there on, one thread at most in flight per
  action (`active` is the witness), and a click counted only by a thread that
  has passed the consuming step or after it. The update that spends the grant
  asks for nothing, but only the holder of the flight entry reaches it, and it
  read the grant fresh under that entry; a restart forgets the thread but not
  the row, so the grant cannot come back. Each action of `Next` disturbs few of the conjuncts; frame lemmas
  (`NotApproving` and its like) dispose of the rest.
  The second inductive invariant is `OutcomesSound`; from it `PendingAgree`,
  `SuccessProven`, `InvalidatedUntouched` and the action property
  `SettledForever`.
  *Argument.* A handler writes the rows it touches in one step, but decides on
  what it read steps before. `Tables` says what the rows tell of each other: the
  properties themselves, and that a grant was issued only for a request that no
  longer waits. `Pursuit` says what a thread may rely on at each of its steps:
  what it works on exists and, once it executes, has a grant; at `recover`,
  `submitted` and a `finish` with a verified result Moodle holds the submission;
  and whoever goes on to submit has an action that is not INVALIDATED. Only the
  thread in an action's flight invalidates it, and it does so before the click,
  so with `GrantDiscipline` nothing was dispatched; Moodle never forgets a submission, so what a thread saw stays true until it
  records it, whatever approval, denial or expiry it crosses. `SettledStays`
  needs besides that a thread comes to the click only from a look at Moodle that
  found a draft (`ClickAfterDraft`).
* `BackgroundJobs_proof` holds the proofs of two components that share no state.
  Of `TaskRunner`: `Invariance`, `TypeCorrect`, `RowsTellMemory`,
  `CompletedKept`, `FailedClean` and the action property
  `CancelledUnstartedStays`.
  *Argument.* The row of a task that somebody is at work on may say anything,
  because a save reads first and writes later; so `RowsFollow` speaks only of
  tasks at which neither the worker nor `cancel_task` is and whose latest save
  was not lost, and each of the two
  leaves a task with a save of what memory says by then (`CancelOK` keeps that
  for the canceller's last save, and needs the worker to be elsewhere; the
  `finally` clause does it for the worker, under the lock). That what is recorded
  as completed went well is said task by task along the steps of the job
  (`DownloadOK`, `BackupOK`): only a download whose process ended with success
  gets as far as the check, and its process does not change any more; a backup
  that somebody cancels no longer completes, which is why its archive may be
  removed. A failed task has cleaned up before it says so and nobody writes its
  files afterwards (`FailedOK`); the clean-up of another may take its partial
  files, which is all that a step changes of a task it is not about (`Same`).
  The queue holds a task once and only
  before it starts (`QueueOK`), so what was cancelled unstarted is at no job.
  Of `DatabaseSyncLease`: `SyncTypeCorrect`, `ClockNeverAhead`, `OwnRowOnly` and
  `LeaseImplemented` (it implements `SyncLease`).
  *Argument.* The mapped holder is the token of an unexpired row. A run deletes
  a row it believes expired by the clock it read earlier; since that reading is
  never ahead of the clock, the row has expired by the clock of that moment too,
  so the abstract lease was free.
* `BrowserSessions_proof`: `TypeCorrect`, `LockNotForgotten`, `ChromiumUnderLock`.
  *Argument.* Together with the types: who holds an inode has it open and is
  between its `flock` and its unlock (`LockHasOwner`), and a session in service
  is in the provider's table and the registry, for whoever removes it from one
  shuts it down in the same step (`TablesAgree`); so the only holder that nobody
  finds is a lost one. A Chromium in service has a holder; a session being shut
  down kills before it unlocks; a session opens its file before it locks.
* `UpesAuth_proof`: `TypeCorrect`, `SingleFlight`, `SilentWhileOpen`,
  `PasswordOnlyAtFirst`, and the action property `RenewsWhenDue`.
  *Argument.* Whoever is in flight has raised the flag, and there is one of
  them; so when a failure opens the breaker there is no other call between its
  look at the breaker and UPES. A call that did not force a login found the
  breaker closed when it entered, and until it is released only its own failure
  can open it. The types say besides that a call under way has a user. A call
  judges the stored session by the time at which it began (`NotAhead`), which can
  only make a token look fresher than it is: what is not comfortable by that
  time is not comfortable by the clock.
* `WebSession_proof`: `TypeCorrect`, `Mirrored`, `OverlayTruthful`,
  `DiagnosticsGuarded`, `IdentityKept`.
  *Argument.* The four are proved together. `IdentityMatches` speaks of the
  signed-in user only; inductive is what is known of a request under way
  (`CallOK`): the answer to a sign-in names the owner of the token it brings,
  and, while nothing is torn, the opening check was sent with the token that is
  still in memory. There is one such check (`OneCheck`), and it ends `booting`.
* `OnboardingWizard_proof`: `Inductive`, `TypeCorrect`, `EnrolledShown`,
  `ReportsTruthful`, `WizardGuarded`.
  *Argument.* The properties speak of the screen, the reason is in the requests:
  while nothing is torn each request of a round is about the wizard's student
  (`InRound`), an answered creation is about a student who has an account
  (`Named`), so whoever leaves the first step has one (`Enrolled`). A request
  that still holds an output belongs to the modal on the screen (`Held`),
  because painting the modal detaches every request.
* `VaultExplorer_proof`: `CrumbsTruthful`, `AcknowledgedShown`, `TreeSound`,
  `TypeCorrect`.
  *Argument.* A listing is as late as the version at its serving, so the newest
  one, asked for after the latest acknowledgement, holds whatever was
  acknowledged (`NewestOK`); any other that lands after it marks the pane stale.
  That the tree stays whole rests on lemmas about paths and their prefixes. A
  rename replaces one name in every path that begins with the renamed one
  (`MovedNames`), so the prefixes of a path move with it (`MovedPrefix`), and two
  entries could meet only if one of them lay under the new name (`MovedApart`),
  where nothing lies because the endpoint refuses a name that exists
  (`NothingBelow`). A request under way may be about a path that is gone by
  then; all it needs is what it was sent with (`AsksOK`).
* `ConsoleViews_proof`: `TypeCorrect`, `CommandIsShown`, `NeverGoesBack`.
  *Argument.* Answers are appended in the order of their versions, and one that
  lands marks those before it late; so neither the pane nor the cache is newer
  than an answer that is not late (`NotBehind`), and what is shown is what the
  cache remembers (`CacheShown`). What a command owes its user is at every
  moment asked for, brought by the newest answer, or shown (`Owes`).

Every invariant and every action property of a passing run is proved. Only
model-checked: the liveness properties (`ExecutionResolves`, `ApprovedIsDecided`,
`EveryOpenIsAnswered`, `EveryRunGetsItsTurn`, `EveryTaskEnds`, `EveryCallReturns`,
`LoadingIsAnswered`, `EveryButtonComesBack`, `RevokedIsNoticed`), which need
fairness and ENABLED, out of the prover's reach, and the types of
`AttendanceSyncLease`, whose one property is refuted.

## 5. Findings

The two "violation" runs are findings in `PROJECT.json`, with the line of the
code and the sentence it contradicts: two attendance runs can hold one lease,
and the console's cache outlives the sign-out, so the next user of the window is
shown the last one's data until his own arrives.

The configurations beside the runs show the rest. A restart strands an executing
action; a denial can be overwritten by an approval; equal requests are
duplicated under concurrency; the production browser service never clicks; a
cancelled download may go on, leave its partial file, or keep a wrong stage; a
failed download leaves the streams that yt-dlp had finished, since
`_cleanup_partial_files` (`app.py:2271`) removes only unfinished ones; a download
may be recorded as completed with another's file as its output (`app.py:4640`),
although the job means to raise "Output file missing or 0 bytes after yt-dlp
completion."; a save may be lost in silence, and the row then keeps an older state
than memory (`app.py:2335`, against "authoritative SQLite persistence"); a
cancelled backup loses an archive that its row calls complete; a queued task
cannot be cancelled after a restart; a refused task is announced as queued; the
browser lock admits two browsers, its sweep kills the session in service, a
failed connection orphans a Chromium, a session whose navigation raised keeps the
lock (`browser_service.py:316` and `:342`, against "Releases abandoned sessions
exceeding idle TTL."), idle sessions count against the limit and
uncalled ones are never timed out; a failure of one user's UPES login refuses
another's valid token, a logout can be undone, and the breaker that protects
from lockouts can be closed by a later network error; a 401 to a request of an
earlier session ends the session of the user who has signed in since
(`MC_web_stale401`, against the comment "Session expired or invalid" in
`apiFetch`).

What the conditions of the properties set aside are behaviours of the code too:

* A sign-in or sign-out during the opening check (`torn` of `WebSession`): the
  page takes the user of the one and the token of the other.
* An answer that was overtaken lands last (`late` of `ConsoleViews`, `stale` of
  `VaultExplorer`): older data, or the rows of another folder, stand on the
  screen until something else is loaded.
* Cancel and a new wizard while a creation is under way (`torn` of
  `OnboardingWizard`): the late answer moves the new wizard to its second step,
  about a student nobody has created; and a cancelled wizard appears again when
  its answer lands. A verification of one student that is answered after the
  wizard was opened for the next writes its record into the tiles of that one
  (`accounts.js:972`).
* A file of an assignment that is replaced between the second hash and the upload
  is not noticed; `InvalidatedSubmitsNothing` is about the changes the hash sees.
* A save that fails (`lost` of `TaskRunner`) and a navigation that raises (`lost`
  of `BrowserSessions`), named above.

Seen while reading, and modelled as the code has it:

* Steps 4 and 5 of the wizard act for the administrator who is signed in and not
  for the student: `configure_upes_credentials` (`app.py`) takes the user of the
  session, whatever user `accounts.js:893` and `accounts.js:945` send along.
* The login test of step 5 (`accounts.js:959`) calls `/api/upes/auth/test-login`,
  a route the server does not have.
* `settings.js:100` sends `old_password`; the server's handler reads
  `current_password`.
* The restart button of the settings is never enabled again
  (`settings.js:113`).
* A view that is painted while its command runs offers the command's button a
  second time.

## 6. Not modelled

* Reading, parsing and formatting of portal pages, calendars and results; the
  page operations of the browser (click, type, extract); the read-only queries
  of the LMS: they change no state that an order of events could spoil.
* The resource governor, whose answer (admit or refuse) is a free choice here.
* Of the console: `settings.js` and `ui.js` (forms
  that send one request, and formatting); the search in the vault and the
  preview; the inspection of a student; of the views what is drawn beyond the
  owner and the version of the data; two windows that share one localStorage.
* The command line, the administration and deployment scripts: clients of the
  interfaces above.
* `scripts/`, `migrations/` and `services/` are run by hand or by init.
* Of the modelled parts: reads of an action by its owner's listing pages, and
  the operations that `PROJECT.json` names in the notes of its components.
* The components of the next section that have no module: each keeps rows of its
  own and is reached by the modelled ones only through the answers they treat as
  free choices.

## 7. What a continuation would model

1. `LegacyApprovals`: the grant of `agent/policy.py` around the handler that
   `agent/registry.py` executes; at most one execution per grant, against
   `SingleUseAuthority`.
2. `OAuthProvider`: single use of codes, the family of a rotated refresh token,
   revocation; two concurrent refreshes.
3. `TimetableSync`: `synchronize` over the event map and the calendar; no event
   duplicated by a crash between creation and recording, none deleted from a
   partial fetch, nothing of the user's own touched; composed with
   `DatabaseSyncLease`.
4. `SessionJournal` and the broker: a crash at any step leaves the old or the new
   bundle, never a mixture.
5. `Scheduler` composed with `TaskRunner`, and the retention sweep.
6. `RateLimiter`, `ExecutionRouter`, observation epochs, safe-absence
   arithmetic: pure definitions against reference definitions.
7. `LogWriter`, playback tokens, the search index.
8. Proofs: `Scheduler` on top of `TaskRunner`'s invariant, and the safety
   properties of the modules above as they are written.

# Verification of Frequência UFMG

Frequência UFMG keeps a student's attendance: it imports courses, timetables and
plans from the university (SIGA, Moodle, Diário), generates the sessions of each
course, captures the student's location twice per session on an Android phone and
turns what it captured into an attendance. The repository holds a Python function
(`appwrite-python/`, run by Appwrite, with its data in Firestore under the student's
own rules and some rows in Appwrite tables), a domain library (`backend/`), a Flutter
client with Kotlin services (`apps/client/`) and the Firestore rules.

This directory models the parts of it whose correctness depends on the order in which
things happen: TLA+ modules, configurations that TLC checks, and theorems TLAPS proves.
`PROJECT.json` lists the components, the runs, the line of code behind every definition,
the hazards and the theorems.

## 1. The system

### Components

| component | state it keeps | operations | hard because |
|---|---|---|---|
| **Durable sync job** `academic_sync_job.py` | the document `syncJobs/current`: operation, status, force, started_at | start, read, claim, finish, fail; the endpoint that starts and the worker that runs | two GETs and a conditional write per operation; executions redelivered, late or lost; a lease instead of an owner |
| **Attendance classification** `models.py`, `checkpoint_service.py` | none (pure) | classify pings, count absences, decide what evidence does to a session | missing and late evidence, windows, clock skew |
| **Sessions and schedule** `schedule_*`, `session_*`, `official_calendar_*` | per course: course, meetings and sessions documents | replace the schedule, edit attendance, change the calendar status, deliver evidence, apply holidays | every operation reads, computes, writes; only evidence conditions its write |
| **Firestore rules** `firestore.rules` | none | accept or refuse a write | the only guard several operations share |
| **Firestore REST client** `firestore_rest.py` | none | get, list, patch, atomic commit | a request may be applied and its answer lost |
| **Quota guard** `quota_guard.py` | rows of two Appwrite tables | consume a token and a unit of a budget | races to create the window's row, a capped increment, lost answers |
| **Per-course policy** `course_sync_policy.py`, `course_activities.py` | per course and source a `syncState` document, the copy it speaks of, the user's pause | run, confirm_plan, manual_paused | a state read before a fetch of minutes is saved unconditionally after it |
| **Unified sync** `unified_academic_sync.py`, `moodle_sync.py`, `moodle_teaching_plan_import.py` | the result of one run | SIGA, Moodle, then per course: import the plan, preview, apply | failures of one course and of everything, half-done imports, two synchronisations at once |
| **Sync progress** `academic_sync_progress.py` | the document `syncProgress/current` | observe, finish | patches of any run, late or lost, without a precondition |
| **Entry point** `main.py` | none | routes, authentication, telemetry | composes all of the above |
| **Credentials** `ufmg_session_*.py`, `moodle_token_store.py`, `moodle_mobile_capability.py` | one sealed row per user and table | connect, disconnect, load, save, delete, the cache of a request | rows deleted by user and not by version, key rotation, expiry, failing table calls |
| **SIGA imports** `ufmg_course_import.py`, `ufmg_schedule_import.py`, `ufmg_sync.py` | none of their own | create or complete courses, replace their schedules | decided from lists read before the first write, beside the user |
| **Courses** `course_repository.py`, `overview_repository.py` | course documents and their subcollections | save, recursive delete, overview | check-then-act on lists |
| **Dates, catalogs, plans** `academic_date_repository.py`, `moodle_date_import.py`, `moodle_content_discovery.py`, `moodle_material_catalog*.py`, `teaching_plan_reconciliation*.py` | documents per course | save, delete, import, discover, reconcile with the sessions | what is the user's and what an import may take back; partial answers; no preconditions |
| **Checkpoints on Android** `CheckpointDelivery*.kt`, `FirstCheckpoint*.kt`, `BackgroundLocationProof.kt` and the Dart scheduler | reports in shared preferences, alarms, WorkManager work, captures in memory | schedule, dispatch, capture, deliver, cancel, unschedule, clear, restore | process death, alarms lost, logout, several writers of a report, an outbox |
| **Material downloads on Android** `MaterialDownload*.kt` | slots, files, an index | prepare, download, cancel | slots and files under process death |
| **Client caches, controllers, logger** (Dart) | cached values, requests in flight, a bounded queue | refresh, invalidate, change of account | answers that arrive after the account changed |
| **Screens, build and release, demo, prototypes** | — | — | not behaviour the models can say anything about |

### Interactions

The client starts a synchronisation at the entry point; the guard authorises it (QuotaGuard),
the job record admits it (SyncJob), the worker runs the pipeline and tells its progress
(AcademicSync). The pipeline presents the stored session and tokens to each source (Credentials),
imports courses and schedules (Timetable), asks each course's policy for its turn (CoursePolicy),
writes dates and catalogs (CourseDocuments) and plans, and reconciles plans with sessions
(PlanReconciliation). Schedules, edits, holidays and the phone's evidence meet on the session
documents (CourseSessions), where the evidence is classified (Attendance) and the rules have the
last word. The phone captures and delivers (CheckpointDevice) and repeats what it has no answer for.

### What makes it correct

* job: one worker per user at a time, its record its own, which the deployed limits miss by the
  seconds between `started_at` and the sealing of the envelope (section 4); an outcome never
  recorded on another operation; a dead worker frees the user after the lease.
* pipeline: the progress shown of a run only goes forward and its end is one it had; a visit that
  nothing crossed leaves dates, plan and sessions of a course agreed.
* credentials: taken away only for a reason; a synchronisation presents one session to all its
  sources; nothing comes back after a disconnection.
* timetable: a call makes a second course of a code only of what another call coded since it read;
  no two classes at one hour, unless two calls wrote at once; an import leaves the user's meetings
  alone and settles in one go.
* sessions: the schedule and the sessions agree; attendance is lost only to a decision that could not
  know of it, or to a confirmed one; evidence fills blanks and never makes an absence out of a missing
  ping; the rules refuse a computed write only if another one came in between, so nothing is ever
  refused for good.
* documents of a course: the user's dates stand; an event goes only if an answer covers it; nothing
  a call wrote locks the next one out; a deletion leaves nothing it could have seen.
* plans: a reconciliation loses nothing the user entered before it, makes no two classes overlap
  and does what its preview told.
* guard: no window lets more than its limit through; a token lets one request through.
* policy: a state speaks only of copies that exist; the last complete copy survives failures;
  a pause holds until the user resumes.
* phone: the armed reports of a session are of one revision; what ended a report stands; nothing
  that may still change is sent; an answer acknowledges only what it was about; every report is
  delivered in the end, or removed.

## 2. Plan

Done, in this order: `SyncJob` with `SyncJobLifecycle`; `Attendance` and `CourseSessions`;
`QuotaGuard`; `CoursePolicy`; `CheckpointDevice`; `Credentials`; `AcademicSync`; `AcademicDates` and
`CourseDocuments`; `PlanReconciliation`; `Timetable`; the
proofs of section 5.

What is left, by value: the material downloads on Android (slots, files and an index under process
death); the client's caches under a change of account; the logger's queue; the official calendar's
comparison as operators of `CourseSessions`' holiday requests.

Every module keeps its bounds and parameters as CONSTANTS with named assumptions, one action per
request or handler, and no RECURSIVE operator.

## 3. Modules and the code

### SyncJob, SyncJobLifecycle (`academic_sync_job.py`, `main.py`)

State: `job` the record, `jobAge` the ticks since `started_at`, `valid` the invocations whose first
GET still names the stored `updateTime` (any write empties it, which is what a Firestore
precondition means), `queue` how long an envelope of each operation can still be opened, `proc` the
locals of every invocation, with its age and the age at which it took the `started_at` it is about to
write (`Stamped`; the write makes `jobAge` what has passed since). `TIMEOUT` is the one limit of
`deploy-production.yml` on requests and workers alike. `past` (operations whose record another one
replaced) and `lapse` (what has gone against the single flight so far) are auxiliary.

Each storage request is an action: `StartGet`, `StartRead`, `StartPut`/`StartConflict`, `Enqueue`
or `EnqueueRaises` for `start`; `Open`, `ClaimGet`, `ClaimRead`, `ClaimPut`/`ClaimConflict`,
`ReadForce`, `SyncEnds` for the worker; `EndGet`, `EndRead`, `EndPut` for `finish`/`fail`
(`_terminal`). `heard = FALSE` is a write applied with its answer lost; `StoreFails`, `Crash` and
`TimedOut` end a step. An execution in the queue may be opened any number of times while its
envelope lasts. `Tick` lets no invocation outlive its limit.

`SyncJobLifecycle` has each operation in one step; `ImplementsLifecycle` says the reads and the
conditional write amount to it.

### Attendance, CourseSessions (`models.py`, `checkpoint_service.py`, `schedule_*`, `session_*`, `official_calendar_*`, `firestore.rules`)

`Attendance` has the pure part: `Classify`, `Absences`, `ValidAttendance`, and `Outcome`, the
server's decision on a payload.

`CourseSessions` has one course: `course` (days of the period, updated), `grade` (meetings), `docs`
(sessions, one per day and meeting, as the generated ids are), `rollCall` (the attendance policy),
`fresh` (deliveries whose revision is still the stored one) and the locals of editors, deliveries,
savers and holiday requests. `mixed` is history: a replacement was committed while another one, or a
holiday, that may have read was under way, or a holiday while a replacement was. Reads, decisions and writes are actions of their own; `SessionAllowed`,
`MeetingAllowed` and `CommitAllowed` are the rules; a commit is atomic and unconditional, a
checkpoint's patch needs its revision. Instants are `0..MAXTIME`.

Abstracted: the title and notes of a session, the meetings of other courses, lists of more than 500
documents. All session ids are generated ones.

### QuotaGuard (`quota_guard.py`, `main._authentication`)

`spent` has the tokens with a replay row, `rate` the count of each window's row. `Arrive` is a
verified request, `SpendToken`, `CreateRow` and `Increment` the table calls, `StoreFails` each of
them raising something other than 409, applied or not. Row ids (hashes) are the tuples they are
computed from. `admitted` and `used` record what was let through.

### CoursePolicy (`course_sync_policy.py`, `course_activities.py`, `moodle_teaching_plan_import.py`)

One course: `stored` (the state document of each source), `copy` (what the last fetch stored),
`preference` (the pause), `term`, and the locals of runs and of the user's requests. `Begin`,
`CheckCopy`, `CheckResult`, `ReadState`, `ReadPreference`, `Fetch`/`FetchFails`, `Save` follow
`sync_snapshots` and `run`; `Ends` is the function's timeout or a failed request anywhere.
`Doublings` and the periods are parameters; with 1, 1, 2 and 3 ticks for backoff, refresh, day and
search window every comparison of the code has instants on both sides. `overtaken` is history: the
runs whose state another run has saved over since they read it.

### Credentials (`ufmg_session_store.py`, `ufmg_session_service.py`, `moodle_token_store.py`, `moodle_mobile_capability.py`, and who deletes a rejected session)

`rows` has the user's row in each of the two tables: which credential (by number, in the order of
issue), which key version sealed it, when. A `call` is one invocation on a deployment (its keyring),
going through the `Stages` of its route; `hand`, `cache` and `stage` are its locals. Each call of a
table, of the portal or of Moodle is an action: `LoadSession`, `LoadTokens`, `LoadFails`, `Delete`,
`Put` (both applied or not, heard or not), `Login`, `Use`, `Authorize`, `UseTokens`. `Raised` is
where an exception of a stage goes: `moodle_sync.py` swallows any in its snapshots and all but a
rejected session in its probe. `found`, `calm`, `shown`, `left` and `old` are history.

Abstracted: a route reads the clock once; encryption opens a row or does not; a route's work between
two presentations of its session is one `Use`.

### AcademicSync (`unified_academic_sync.py`, `moodle_teaching_plan_import.py`, `academic_sync_progress.py`)

`run` has the locals of each synchronisation: where it is, how many stages are complete, what became
of each course (`out`), a progress write under way (`wr`), whether progress is disabled (`mute`).
`dates`, `plan`, `sessions` hold, per course, the version of the published plan they are of; `doc` is
`syncProgress/current`, `late` the writes the client of the store gave up on and the store may still
apply. `Siga`, `Moodle`, `Admit`, `Fetch`, `ImportDates`, `SavePlan`, `Preview`, `Apply`, `Commit` are
the steps of a visit with their writes; `FatalFailure` and `CourseFailure` split exceptions as
`_FATAL_FAILURES` does; `Last` builds the result or raises its ValueError; every step waits for its
progress write, as `observe` does.

Abstracted: the policy's answer for a course is any of `Answers` (CoursePolicy says which); the changes of a
reconciliation are "none" or "some" (PlanReconciliation says which); a preview reads in one step.
`Followed` are the runs with a progress id, `Changing` the courses whose plan and sessions change
beside the runs.

### AcademicDates, CourseDocuments (`academic_date_repository.py`, `moodle_date_import.py`, `moodle_content_discovery.py`, `moodle_material_catalog*.py`, `course_repository.py`, `firestore.rules`)

`AcademicDates` is the pure part: what saving, deleting, importing from Moodle or from a plan makes
of the list of a course's dates. `CourseDocuments` has the documents (`course`, `dates`, `catalog`,
`rest`) and the invocations that list and write them, one request per step: the user's dates, both
imports, a discovery (`Stamp`, `ListCatalog`, `WriteCatalog` course by course) and a deletion
(`ListCollection` seven times, `WriteDelete`). `Allowed` is `preservesAuditFields` with the course's
existence. `unseen` is history: the documents written since the call listed their collection.

Abstracted: title, instant and kind of a date are one value; a course's code is its number and an
event carries the courses its text names; a catalog is its size and its semester; documents of other
collections are there or not. `Initially`, `Mixes`, `Answers`, `Found`, `Changing`, `Edited` bound
what a behaviour starts with and contains.

### PlanReconciliation (`teaching_plan_reconciliation*.py`, with `save_schedule` and the edits of a session)

One course: `docs` (sessions, by generated or occurrence id), `grade` (meetings), `plan`, `course`.
`Created`, `Linked`, `Removed`, `Told` are `reconcile_teaching_plan_schedule` and its workload;
`LoadPlan`, `ListSessions`, `ListMeetings`, `Now`, `CommitReconciliation` its repository;
`BeginSchedule`, `CommitSchedule` and `BeginEdit`, `PatchSession` the calls beside it. `calm` is
history: every commit so far was decided on what was still stored.

Abstracted: one weekday, a fixed period, times in lessons of the day; call counts and evidence are
CourseSessions'.

### Timetable (`course_repository.py`, `schedule_repository.py`, `schedule_service.py`, `ufmg_course_import.py`, `ufmg_schedule_import.py`)

All courses of a user and their weekly meetings. SIGA's import is `BeginSiga`, then
`SaveEnrollment`/`ListAgain` for each course to create or complete, `ListMeetings` for every course,
and `GetCourse`, `ListMine`, `CommitImport` for each schedule that differs, with the list held in
memory as the code holds it; the user's `BeginCourse`/`SaveCourse` and `BeginSchedule` …
`CommitSchedule` run beside it. `LastOf` is what a dict built from a list keeps of two entries of one
key. `apart`, `moved` and, of each call, `alone` and `recoded` (the courses other calls gave a code
since this one read them) are history.

Abstracted: one weekday; audit instants; whether a schedule would delete sessions unconfirmed is
nondeterministic for an import (`destructive`) and left out for the user, who may confirm; courses
are deleted in CourseDocuments.

### CheckpointDevice (`FirstCheckpoint*.kt`, `CheckpointDelivery*.kt`, `BackgroundLocationProof.kt`, `checkpoint_service.py`)

One session per account. `device` is what survives the process: the account the preferences
belong to, the index of reports, the reports (each with its owner, its `slot`, that is the revision
of the session, moment, status, ping and delivery), the alarms, and WorkManager's unique work, one
for each account and revision (`workName`). `capture` and `worker` are in the memory of the process,
`doc` is the session on the server, `stray` a request its worker gave up on.

What the code does under `FirstCheckpointBridge.LOCK` is one step: the operators from one device to
another (`Clear`, `Enter`, `Reconcile`, `Enqueue`, `Superseded`, `Forget`, `Record`) are its methods, and
`Schedule`, `Read`, `Cancel`, `UnscheduleAutomatic`, `ClearCompleted`, `Deactivate`, `Restore` the
bridge's calls, each with the reconciliation that `reports()` does at its end. A capture is
`AlarmRings` (dispatch and the executor's start), `CaptureSaves` and `CaptureEnds`. The worker takes
three steps around the requests it waits for: `WorkStarts` (to the identity token), `WorkChecks` (the
second look), `Serve` on the server, `WorkRecords`; `WorkFails` is any exception or timeout in
between. `WorkStarts` joins three short sections that each take the lock, because what another
thread can do between them it can do, to the same effect, before the first or after the last. They
read the clock one after another: `S` are the reports reconciled after it struck, and the others were
looked at an instant before, so a body may be built with a report that is still open. Removing a
report cancels its alarm only where the code does (`unschedule_automatic`): an alarm may ring for a
key that is not in the index.

`Die` and `Reboot` end the process anywhere; `ScheduleDies` and `ClearDies` in the middle of the two
calls that commit more than once.

Abstracted: initial delays and backoff (work may run as soon as it is enqueued: it then finds that
it is too early); the one-thread executor of captures; several `running` saves of one capture; an
enqueue that fails does so at once; `alarms.schedule` does not raise in `schedule`; every report is
automatic and delivered; the server decides in one step with the phone's clock (`SKEW = 0`), and a
conflict or an unavailable store is a `WorkFails`.

## 4. Runs

All runs but `sync_job_edge` end with no error. Every property of those has a mutant: a plausible bug of one definition (an
operator beside it, commented as a mutant) with which the same run finds the property violated.

| run | question | instance |
|---|---|---|
| `sync_job` | is work duplicated only for the three reasons below, a runner's record its own, an outcome recorded where it belongs, and a dead worker's user freed? (`SingleFlight`, `RunnerOwnsRecord`, `OutcomeOfItsOwner`, `ImplementsLifecycle`, `LeaseFrees`) | 1 request at a time, 2 workers, an operation asked for with force and one without, ids reused; an envelope opened in the instant of its sealing, limits of 1 tick and a lease of 1, exactly both; fair |
| `sync_job_edge` | do the deployed limits keep repeated starts and deliveries from duplicating work, as `test_academic_sync_job.py:51` says? (`StartsRunOnce`, violated) | the same, with an envelope of 1 tick and a lease of 2, exactly both |
| `course_sessions` | schedules, holidays, edits and evidence on the sessions of a course (`ScheduleComplete`, `AbsenceHasEvidence`, `RefusalHasCause`, `LossHasCause`, `CheckpointFillsBlank`) | sessions of one block, with two configurations, on two days; one editor, one saver, one holiday request, two deliveries of evidence for either configuration; any two in flight |
| `quota_guard` | is the budget kept and a token spent once? (`WithinBudget`, `TokenSpentOnce`) | 3 requests, limit 2, two windows |
| `policy_sources` | a course's plan, or its activities, through its whole life (`ResultHasCopy`, `PauseRespected`, `LastCopyKept`) | two runs that may overlap at first, one user, two terms, time to 3, one of the two sources per behaviour |
| `credentials` | why are credentials lost, and do they stay lost? (`OneSessionPerSync`, `DisconnectSticks`, `CredentialLostHasCause`) | two invocations, two deployments of a rotation, connect, disconnect, status, files, whole synchronisations |
| `academic_sync` | does the progress tell the truth, and do visits agree? (`ProgressTruthful`, `ProgressForward`, `VisitAgrees`) | two synchronisations of two courses, one followed; a limit of one exception |
| `course_documents` | what may a call do to a course's dates, catalogs and subcollections? (`RefusedHasCause`, `CatalogListable`, `UserDateStands`, `GoneIfAnswered`, `DeletedWhole`) | two courses, two semesters, any two of seven pairs of calls, calendars with moved, ambiguous and unknown events |
| `plan_reconciliation` | what may a reconciliation do to a course's sessions? (`OverlapHasCause`, `ReconcileLossHasCause`, `AppliedAsTold`) | two meetings, three hours, two plans; two calls |
| `timetable` | do codes and hours stay apart, and what does an import change? (`SharedCodeHasRace`, `NoClash`, `ImportKeepsManual`, `ImportSettles`) | up to three courses of two codes, last day of a semester and first of the next, two calls |
| `device_delivery` | do reports, captures, workers and the server agree? (`AcknowledgedWasSent`, `NothingOpenSent`, `OneActivePlan`, `ServerAgrees`, `SettledStands`) | two accounts, two reports, two revisions, two workers, one disturbance, instants 0 to 3 |
| `device_settles` | is every report delivered in the end? (`EventuallySettled`) | one report, two disturbances; fair |

**What the code does not promise.** Several properties say "only if …", and the exception is a
behaviour the model has and the run reaches:

* `StartsRunOnce` is what `test_repeated_start_and_delivery_do_not_duplicate_work` is named for, and
  `sync_job_edge` finds it violated. `LEASE_SECONDS` (1800, `academic_sync_job.py:16`) is the
  envelope's 900 s (line 56) and the function's 900 s (`deploy-production.yml:208`) to the second, but
  the lease counts from the `started_at` taken before the record is written (line 115) and the
  envelope from its sealing after that. An envelope opened at its last moment gives a worker that
  outlives the lease; the record is then answered as failed, another operation is started, and two
  workers synchronise. `fail()` of the first finds another operation's record and leaves it alone.
* `SingleFlight` excuses just that, an envelope opened when its queued record is older than envelopes
  live (`lapse = "late"`), and two things `StartsRunOnce` excuses too (`lapse = "excused"`): `start`
  takes any exception of the dispatch for a dispatch that did not happen, while Appwrite may have
  created the execution, and the next start goes in beside it; and an operation started again after
  another one replaced its record (the client resumes the id it stored) may be opened with the
  envelope of either start. `RunnerOwnsRecord` speaks of the time before any of the three.
* `LossHasCause`: a schedule's commit has no precondition, so it deletes attendance stored after its
  list of sessions was read. The rules' `updatedAt` check stops a write that was decided *earlier*
  than the stored one, not one decided later on an older read; a holiday's commit is the same.
* `RefusalHasCause`: that check refuses a whole batch for one later edit, also one older than the
  batch's reads of the sessions but later than its one look at the clock (`apply_holidays`). What it
  says is that nothing else is refused, whatever earlier writes left.
* `LastCopyKept`: a run that read the state before another run saved it puts the result it had
  read, or none, over the other's when it fails (`overtaken`). An answer a run fetched itself
  replaces any other, also one of a run that began later.
* `CredentialLostHasCause`: every delete is by user, so a call that began before a login was stored
  may delete it (`Races`).
* `UserDateStands`, `ReconcileLossHasCause`, `OverlapHasCause`, `NoClash`, `SharedCodeHasRace`: writes are
  decided from lists. What is stored between a list and the write that follows may be overwritten
  (dates, sessions), doubled (codes) or made to overlap (classes); with nothing in between it is not.
* `CatalogListable`: a discovery that ends halfway, or that meets another one or an edit of a
  course, may leave catalogs `list_catalog` refuses; the next one alone repairs it.
* `ScheduleComplete` ends with `mixed`: a holiday's commit, which has no precondition, writes back a
  session that a schedule deleted or moved after the holiday's read, and two savers may each leave
  sessions the other's meetings do not have. Before that it holds across any sequence of replacements
  and holidays.

**Why the bounds are enough.** Every interference in these components is between two invocations
and one document, or one document and its environment: two workers are what it
takes for a write to fall between another's two reads, for a redelivery to meet a running worker
and for one operation to replace another. For the same reason `INFLIGHT = 2` in
`CourseSessions` lets any two invocations of different kinds overlap, one after another without
end, and no third at the same moment; the theorems of section 5 hold for every `INFLIGHT`. Three
requests are needed in the guard: one that creates the row, one that reaches the limit and one
beyond it. The clock of `CourseSessions` has three instants: before, in and after the windows, whose
length and skew are 0. Two savers at once are the theorem's: in the run it is the holiday that makes
a schedule `mixed`. The two instances of `SyncJob` keep the code's relation of limits, the lease
exactly an envelope and a worker; in `sync_job` an envelope lives for the instant of its sealing, so
the request's own time already makes one late, and in `sync_job_edge` it lives as long as a worker. `MaxSources = 1` in `CoursePolicy` has each behaviour ask one of the two
sources: their documents are apart and `run` never reads the other's; `LastOverlap = 0` lets two
runs overlap only while no time passes, which is where one overtakes the other.

In `AcademicSync` one run has progress and the other none, because a second writer of the progress
document of another id is ranked apart (`shown`); the second course is the one that changes beside
the runs, the first the one whose failure the loop must survive. `CourseDocuments` pairs calls
(`Mixes`): of two calls in flight, each pair that shares a collection is one of the seven, and two
events in the place of one, an event of two courses, of none, moved and of the other semester are the
shapes of an answer that `_matches` and the batch limits tell apart (two documents, for 500).
`PlanReconciliation` has two classes one after the other and one as long as both, so a meeting can
have an occurrence's hours, its start only, or neither. In `Timetable` the courses' codes are two, the
hours two, and the third document is the one a second course of a code can be; a semester is three
days, so a period can be the whole of it, a part, or apart from another.

In `CheckpointDevice`, two reports are both moments of a session, or a report and the one that
supersedes it; two workers are one that was replaced while it ran and its successor. What does not
go to plan (a death, a reboot, a sign-out, a refused enqueue, a request that outlives its worker, a
permission taken back, a cancellation or a removal by the user, a second copy of an old timetable,
a change on the server) costs one of `Disturbances`; failed requests, late alarms, lost fixes and
captures that never end cost nothing. The instants are the session's start, its two checkpoints
(windows of one instant) and its end; the server holds a single-call session at first (`Planned`). A
session is moved once at most, because a session that moves there and back loses its attendance
without a trace the phone could see.
Symmetry is used only over identical actors, operations
and terms, and in no run with a liveness property.

Deadlock is not checked in `quota_guard`, `policy_sources`, `credentials` and `academic_sync`: there
every invocation may have ended with the clock, the requests or the issued credentials at their
bound.

**Fairness.** `FairSpec` of `SyncJob`: time passes, and the platform ends an invocation
that exceeds its limit. No worker, delivery or client needs to take another step, which is what the
lease is for. `FairSpec` of `CheckpointDevice`: time passes; the app is opened again and reads (weak
fairness of `Read`, which is where the code repairs an outbox whose work was lost); WorkManager runs
what waits; and a worker that is let through again and again is answered in the end (strong fairness
of `WorkStarts`, `WorkChecks`, `Serve`, `WorkRecords`, as a retry with backoff repeats them without
end). Nothing is assumed of alarms or captures: a report whose capture is lost is failed by the
reconciliation and delivered so.

## 5. Proofs

* `Synchronisation_proofs`, of SyncJob: `TypeCorrect`, `ReadsCoherent`, `OutcomeOwned`, `LifecycleImplemented`, for all
  sets of requests, workers and operations and all limits, from `ProcessAssumption`,
  `OpAssumption` and, for the types, `LimitAssumption`. The inductive invariant is `TypeOK /\ Coherent`: a process in `valid` still sees
  what it decided on (`ReadHolds`), because any write empties `valid`. Without it nothing ties the
  record a write replaces to the one its decision was taken on. The refinement follows step by step:
  a write applied is the abstract operation, the tick that passes the lease is `Expire`, and
  everything else stutters.
  `OneSynchronises` and `RunnerOwns` (`SingleFlight`, `RunnerOwnsRecord`) need time:
  `LeaseCovers == ENVELOPE + TIMEOUT <= LEASE`, which the deployed limits meet (900 + 900 <= 1800),
  and `LimitAssumption`, that no request outlives the lease. Nothing is assumed of how long a request
  takes before it seals its envelope. The invariant behind them (`Flight`, as long as nothing has
  lapsed) says of each operation who is left to act for it: one caller before its execution,
  executions of the envelope of its record (`HolderAlone`), one worker (`AuthorAlone`, `Roles`); and
  that each worker of the stored operation is within its limit counted from the record's `started_at`
  (`InTime`), so that when the lease lets another in none is left. `Clocked` (an invocation is inside
  its limit and took its `started_at` since it began) keeps `jobAge` in its type when a record is
  written late.
* `CourseSessions_proofs`: `SessionsTypeCorrect`, `SessionsCheckpointFillsBlank`,
  `SessionsLossHasCause`, `SessionsAbsenceHasEvidence`, `SessionsRefusalHasCause` and
  `SessionsScheduleComplete`. The inductive invariant is `Known == TypeOK /\ Knowledge`: what each
  invocation has read and decided at each of its steps, and that the revision of a fresh delivery is
  the stored document (`FreshIsCurrent`). The properties follow from it action by action,
  with the lemma that a stored attendance fits its lessons (`StoredValid`), which the rules see to.
  `SessionsRefusalHasCause` adds `Timely`, that nothing stored, read or decided is later than the clock
  when it was: with `StoredValid` it makes what an edit, a delivery, a replacement or a holiday computes
  from a document pass the rules over that same document.
  `SessionsScheduleComplete` is for any number of savers and holiday requests beside any edits and
  deliveries. `Generates` is what it adds, until `mixed`: what a replacement has read is what is
  stored, but for attendance that came since (`SaverCurrent`; no edit and no checkpoint takes
  attendance or moves a slot, `Patched`), and what a holiday has read stands where its meeting puts
  it (`HolidayCurrent`).
* `Access_proofs`, of QuotaGuard: `BudgetKept` and `TokensSpentOnce` from `GuardTypeOK /\ Guarded`: a row counts at
  least the requests it let through, and a request past the replay row is alone with its token.
* `Synchronisation_proofs`, of CoursePolicy: `PolicyTypes`, `CopyStandsBehindResult`, `PauseHolds` and `CopyKept`, for all runs,
  users, terms, sources and periods. The inductive invariant is `PolicyTypeOK /\ Holding /\ QuietIsPaused
  /\ ResultHasCopy /\ PauseRespected`: the state a run decides on is one it read (`Holding`), a stored
  result speaks of a copy and no copy ever leaves, and while a plan is marked quiet by history its
  pause is the stored preference (`QuietIsPaused`). `CopyKept` (`LastCopyKept`) adds `Carried`: a run
  nobody has overtaken holds the stored result from its read to its save, or an answer it fetched
  itself. It holds for every `LastOverlap`, so also for runs that overlap while time passes, which
  the run does not reach.
* `Access_proofs`, of Credentials: `CredentialTypes`, `OneSession`, `DisconnectionLasts` and
  `CredentialLost`, for any number of calls, routes, deployments and keys, from
  `DeploymentsAssumption` (a deployment opens what it seals), `NoneAssumption` and the bounds'
  types. The deletes are unconditional, so the properties rest on what a call in flight knows:
  while the row it found when it began is still the stored one, what it has in hand, what it
  failed to open and what it has in its cache are that row's (`Sound`, for every call); a credential
  about to be stored is one nobody has met (`AllFresh`), so a store makes every other call's
  knowledge void instead of wrong; and a call that begins after a disconnection has nothing it could
  store (`Harmless`). A step of a call is stated once, as a relation (`Turns`, and `Fits` of what
  the call becomes), and each action but `Begin` and an applied `Put` is shown to be in it.
* `AcademicSync_proofs`: `SyncTypes`, `ProgressTells`, `ProgressGoesForward` and
  `VisitLeavesAgreed`, for any number of runs, courses and plan versions. The inductive invariant is
  `Inv == TypeOK /\ RunsFit /\ LateFits /\ DocFits`: the write a run is about to send, and each one
  given up that may still arrive, is true of its run and ahead of everything the document has shown
  of it (`Ahead`, `Truth`); and a run that gave a write up is silent from then on (`Silent`), so at
  most one write of it is late, which is what makes a late one harmless. What a run may become
  (`Goes`) is stated once. `VisitLeavesAgreed` adds `AllHold /\ OneAlone`: what a run that nothing
  crossed has in hand of its course is what is stored (`Holds`), and two runs under way are never
  both alone; every step of a run is shown to be a `Turn`.
* `Timetable_proofs`: `TimetableTypes`, `SharedCodesRaced`, `ClassesApart`, `ManualKept` and
  `ImportsSettle`, for any number of courses, calls, codes and enrollments, from the assumptions
  that a behaviour starts with courses of different codes whose classes are clear of each other
  (`WorldsAssumption`), that what the user sends is well formed (`EnteredAssumption`,
  `AsksAssumption`) and that SIGA's list has a code once (`PortalsAssumption`, as the import keeps it).
  The inductive invariant is `Inv == TypeOK /\ Knows` of every call: what it has at each of its
  steps (`Fit`), that no course it listed goes (`Kept`), that what an import alone since it began has read
  is stored (`Current`) and that what it has left to do is all there is to do (`Settling`).
  `SharedCodesRaced` rests on `Coding`: the codes a call has read are the stored ones but for those
  `recoded` since, whose lists a call saves from (`SavedRaced`) or writes back. For `ClassesApart`, every
  step writes nothing, a course (`Saves`) or a schedule (`Schedules`), and each is shown to keep
  `NoClash` while `apart`. That CHOOSE takes the least code or the last course of a list rests on a well-founded order of finite sets
  (`Smallest`).
* `CheckpointDevice_proofs`: `DeviceTypes`, `OnePlan`, `OutcomeStands`, `AckedWasSent`,
  `OpenIsNotSent` and `PhoneAgrees`, from the assumptions on the constants alone. What a method does under the lock is stated once, as a relation between two
  devices (`Follows`: a report stays the one it was or goes, may settle, and once settled only a
  cancellation changes how; `Adds`: as well as that, one new report that no active report of
  another revision or of the same moment stands beside), and every method is shown to be in it;
  actions are then compositions of methods. The inductive invariant is
  `TypeOK /\ KeysUsed /\ CaptureMatches /\ OneActivePlan /\ Deliveries`: `OutcomeStands` fails without
  `CaptureMatches` (a capture's snapshot is of the report its key was given to), which in turn
  needs that a key is never given out again (`KeysUsed`). The other three rest on `Deliveries`: what
  a report says of itself is true (`ReportsTruthful`), an earlier report of a moment is settled once a
  later one is there (`LaterSupersede`), and a worker's body is sound, holds all that the reports it
  was taken from have become, and has an answer only of what the server then held (`JobsOK`).
  Between a worker's read of the reports and its acknowledgement they may be superseded, cancelled or
  removed, and the server's session moved: what a step does to captures, workers, answers and the
  server is a second relation (`DeliveryMoves`) beside the device's.

* `PlanReconciliation_proofs`: `PlanTypes`, `PlanOverlaps`, `PlanLosses` and `PlanTellsAll`, for any
  days, meetings, schedules, plans, edits and calls, from what the code checks of its input: a class
  ends on the day it began (`DaysApart`, `_occurrence`), a plan and a schedule name classes of those
  hours, and the ids of generated and imported sessions differ. The inductive invariant is `TypeOK
  /\ Knowing /\ Placed(docs)`, with `Apart(grade)` and `Clear(docs)` while `calm`: an imported session
  stands where its id says (`Placed`), which makes the slot of an occurrence name one session and
  without which `Created` could overwrite one, and the meetings that added sessions stand for do not
  overlap (`Apart`), without which two sessions added at once could. `AppliedAsTold` is about the
  operators alone: of what it read, a reconciliation leaves nothing to remove (`NothingToRemove`) or
  to title (`NothingToLink`), and its workload is the sum of the same function (`WorkloadTold`).

* `CourseDocuments_proofs`: `DocumentTypes`, `DocumentsRefused`, `DocumentsListable`,
  `DocumentsUserDates`, `DocumentsGone` and `DocumentsDeleted`, for any number of courses, calls,
  dates, events and catalogs, from the assumptions that there is a course
  (`CoursesAssumption`; courses are numbered in the order of their codes), that Moodle's events have its ids and dates (`AnswersAssumption`), that
  None is no document (`NoneAssumption`) and the types of the other constants. The inductive
  invariant `Inv` joins to the types what a call has in hand at each of its steps (`Shape`); that a
  document is as the call listed it, or gone, or in `unseen` (`Watched`), without which a refused
  write has no cause and an import could replace a date of the user's; that a deletion has every
  document of the collections it listed, or has missed it (`Counted`); that nothing stored is later
  than the clock (`DatesPast`, `CatalogsPast`); and, for `CatalogListable`, that a discovery that met
  no other finds the courses as listed or gone and the catalogs it has done with as it announces them
  (`Solo`), of which there is one at a time (`OneAlone`). Between two writes of a discovery the
  catalogs may be over the limit together, which is why `CatalogListable` speaks of what one leaves
  (`settled`). `First`, the next course or event in order, is the least of a set because finite sets
  are well-founded by inclusion (`SmallestSet`).

**Only model-checked**: `LeaseFrees` and `EventuallySettled`, which are liveness under fairness and
out of the prover's reach. Every invariant and every other action property of the passing runs is a
theorem.

## 6. Not modelled

Parsing of portals, Moodle texts and the Diário (`moodle_structured_dates.py`,
`diario_teaching_plan.py`, `moodle_activities.py`, `ufmg_official_calendar.py`): pure functions of
texts whose correctness is about formats, with long tables of tests of their own. Cryptography
(tokens and sealed rows are atoms that open or do not). HTTP and JSON shapes, widgets, logging and
deployment, except the function's timeout. On the client, material downloads, caches and the
logger's queue have behaviour worth modelling and are the next steps of the plan.
`PROJECT.json` gives the status of every component.

Limits of 500 documents in one commit are modelled where a call counts its writes (`FitsBatch`,
`MaxBatch` in `CourseDocuments`) and left out of `CourseSessions` and `PlanReconciliation`, where a
commit that is too long is a failed request.

-------------------------- MODULE CheckpointDevice --------------------------
(***************************************************************************)
(* Checkpoints on the phone.  The app schedules two reports per session    *)
(* through FirstCheckpointBridge; an exact alarm starts the capture of     *)
(* each one; CheckpointDeliveryWorker, a unique WorkManager job for each   *)
(* revision of a session, sends both to the server once neither can        *)
(* change.  The reports live in shared preferences, behind one lock: what  *)
(* runs inside it is one step here, and a process may die in the middle of *)
(* the steps that commit more than once.  The server decides as            *)
(* checkpoint_decision does (Attendance).  One session of each account.    *)
(***************************************************************************)
EXTENDS Attendance, FiniteSets

CONSTANTS
  Account, NoAccount,
  Store,         \* keys of reports, 1..n: each schedule takes the next one
  Slot,          \* what the timetable has said of the session: its revisions
  Planned,       \* those a session may have at first
  Worker,        \* runs of the delivery worker that may overlap
  NoReportYet,   \* preferences without a report
  NoWork,        \* no unfinished work of this name
  NoDoc,         \* the session is not on the server
  Fixes,         \* how a place is classified: on campus, away or both
  Capacity,      \* reports the index may hold, 50
  MAXTIME,       \* bound of the clock
  Disturbances   \* bound of deaths, refusals, lost requests, edits, sign-outs

ASSUME SlotAssumption ==
  \A s \in Slot : s \in [start : Nat, end : Nat, lessons : {1, 2, 4}, calls : {1, 2}]
ASSUME PlannedAssumption == Planned \subseteq Slot
ASSUME StoreAssumption == Store \subseteq Nat \ {0}
ASSUME BoundsAssumption == {Capacity, MAXTIME, Disturbances} \subseteq Nat
ASSUME FixesAssumption == Fixes \subseteq {"no_campus", "fora"}
ASSUME AccountAssumption == NoAccount \notin Account

VARIABLES
  now,       \* the clock of the phone and of the server
  user,      \* whom Firebase has signed in
  allowed,   \* AlarmManager.canScheduleExactAlarms
  device,    \* preferences, alarms and WorkManager's database
  used,      \* keys given to reports so far
  capture,   \* captures in the memory of the service, by key
  worker,    \* what each run of the delivery worker is doing
  doc,       \* the session of each account on the server
  stray,     \* a request its worker gave up on, still to be served
  answered,  \* history: reports known to a request the server answered for good
  left       \* disturbances left

vars == <<now, user, allowed, device, used, capture, worker, doc, stray, answered, left>>
-----------------------------------------------------------------------------
Moment == {"first", "second"}
Active == {"scheduled", "running"}
Terminal == {"applied", "already_applied", "preserved", "unresolved", "discarded", "rejected"}
Status == Active \cup {"succeeded", "failed", "cancelled", "superseded"}
Checkpoint ==
  [owner : Account, slot : Slot, moment : Moment, status : Status, ping : Ping,
   captured : {Unset} \cup 0..MAXTIME, rung : BOOLEAN, delivery : {"pending", "sending", "retry"} \cup Terminal]
ASSUME NoReportAssumption == NoReportYet \notin Checkpoint
Key == Account \X Slot    \* workName
KeyOf(r) == <<r.owner, r.slot>>

Settled(r) == r.status \notin Active
Acknowledged(r) == r.delivery \in Terminal

(* late *)
Late(r, t) == \/ t < Expected(r.slot)[r.moment]
              \/ t > Expected(r.slot)[r.moment] + WINDOW \/ t >= r.slot.end

(* pendingFailure: the report can no longer be captured. *)
Hopeless(r, t) ==
  /\ ~Settled(r)
  /\ \/ t >= r.slot.end \/ t > Expected(r.slot)[r.moment] + WINDOW
     \/ r.status = "scheduled" /\ ~allowed

Fail(r) == [r EXCEPT !.status = "failed", !.ping = "indisponivel"]
-----------------------------------------------------------------------------
(* Operators from a state of the device to another, each what its method   *)
(* does while it holds the lock.                                           *)

(* clear: the account is removed before its work, alarms and reports. *)
Clear(d) == [d EXCEPT !.account = NoAccount, !.index = {}, !.alarms = {},
                      !.report = [s \in Store |-> NoReportYet],
                      !.work = [k \in Key |-> NoWork]]

(* handle: a call for another account clears the one there was. *)
Enter(d, a) == IF d.account = a THEN d ELSE [Clear(d) EXCEPT !.account = a]

(* reconcile, of some reports; deliveryReports and reports: of the index. *)
ReconcileOnly(d, S) ==
  LET gone == {s \in S : Hopeless(d.report[s], now)}
  IN  [d EXCEPT !.alarms = @ \ gone,
                !.report = [s \in Store |-> IF s \in gone THEN Fail(@[s]) ELSE @[s]]]
Reconcile(d) == ReconcileOnly(d, d.index)

(* enqueueSafely, for a report of the account: its work begins or is       *)
(* replaced, or the report says that it could not be.                      *)
Enqueue(d, s, ok) ==
  IF d.report[s].owner # d.account \/ Acknowledged(d.report[s]) THEN d
  ELSE IF ok THEN [Reconcile(d) EXCEPT
                     !.work[KeyOf(d.report[s])] = [store |-> s, by |-> "queue"]]
  ELSE [Reconcile(d) EXCEPT !.report[s].delivery = "retry"]

(* Mutant: only what a worker has tried before is tried again. *)
OwedAfterFailure(d) ==
  {s \in d.index : d.report[s].owner = d.account /\ d.report[s].delivery = "retry"}

(* Reports that nobody has acknowledged, and one of each revision among    *)
(* them: the one whose work comes first (KEEP) or last (REPLACE) in the    *)
(* order the index happens to have.                                        *)
Owed(d) == {s \in d.index : d.report[s].owner = d.account /\ ~Acknowledged(d.report[s])}
Chosen(d) == {C \in SUBSET Owed(d) :
                \A s \in Owed(d) :
                  Cardinality({c \in C : KeyOf(d.report[c]) = KeyOf(d.report[s])}) = 1}
EnqueueAll(d, C, replace, ok) ==
  IF ~ok THEN [d EXCEPT !.report = [s \in Store |->
                 IF s \in Owed(d) THEN [@[s] EXCEPT !.delivery = "retry"] ELSE @[s]]]
  ELSE [d EXCEPT !.work = [k \in Key |->
     IF (replace \/ @[k] = NoWork) /\ \E c \in C : KeyOf(d.report[c]) = k
     THEN [store |-> CHOOSE c \in C : KeyOf(d.report[c]) = k, by |-> "queue"]
     ELSE @[k]]]

(* Mutant: the other moment of an old revision stays. *)
SupersedesSameMoment(new, old) == old.status \in Active /\ old.moment = new.moment

(* schedule: same session, and same moment or another revision. *)
Supersedes(new, old) ==
  old.status \in Active /\ (old.moment = new.moment \/ old.slot # new.slot)
Superseded(d, new) ==
  LET olds == {s \in d.index : Supersedes(new, d.report[s])}
  IN  [d EXCEPT !.alarms = @ \ olds,
                !.report = [s \in Store |->
                   IF s \in olds
                   THEN [@[s] EXCEPT !.status = "superseded", !.ping = "indisponivel"]
                   ELSE @[s]]]

(* Mutant: the answer is taken for every revision of the session. *)
RecordAnyRevision(d, a, slot, known, outcome) ==
  [d EXCEPT !.report = [s \in Store |->
     IF /\ d.account = a /\ s \in d.index \cap known /\ @[s].owner = a
        /\ ~(Acknowledged(@[s]) /\ outcome \in {"sending", "retry"})
     THEN [@[s] EXCEPT !.delivery = outcome] ELSE @[s]]]

(* record: an outcome on the reports of a revision that a worker knew of. *)
Record(d, a, slot, known, outcome) ==
  [d EXCEPT !.report = [s \in Store |->
     IF /\ d.account = a /\ s \in d.index \cap known /\ KeyOf(@[s]) = <<a, slot>>
        /\ ~(Acknowledged(@[s]) /\ outcome \in {"sending", "retry"})
     THEN [@[s] EXCEPT !.delivery = outcome] ELSE @[s]]]

(* The work of a worker ends, well or to be tried again, unless it was     *)
(* stopped: replaced or cancelled while it ran.                            *)
KeyOfWorker(w) == <<worker[w].owner, worker[w].slot>>
Recorded(d, w, outcome) ==
  Record(d, worker[w].owner, worker[w].slot, worker[w].known, outcome)
Stopped(d, w) == d.work[KeyOfWorker(w)] = NoWork \/ d.work[KeyOfWorker(w)].by # w
Success(d, w) == IF Stopped(d, w) THEN d ELSE [d EXCEPT !.work[KeyOfWorker(w)] = NoWork]
Retry(d, w) == IF Stopped(d, w) THEN d
               ELSE [d EXCEPT !.work[KeyOfWorker(w)].by = "queue"]
-----------------------------------------------------------------------------
Idle == [pc |-> "idle"]
NoCapture == [pc |-> "none"]
Blank(slot) == [slot |-> slot, calendar |-> "scheduled", first |-> None, second |-> None,
                status |-> None, absences |-> Unset, moved |-> FALSE]

(* The app is installed, with an account signed in. *)
Init ==
  /\ now = 0 /\ user \in Account /\ allowed = TRUE /\ used = 0
  /\ device = [account |-> NoAccount, index |-> {}, alarms |-> {},
               report |-> [s \in Store |-> NoReportYet], work |-> [k \in Key |-> NoWork]]
  /\ capture = [s \in Store |-> NoCapture]
  /\ worker = [w \in Worker |-> Idle]
  /\ doc \in [Account -> {Blank(s) : s \in Planned}]
  /\ stray = Idle /\ answered = {}
  /\ left = Disturbances
-----------------------------------------------------------------------------
(* What disturbs the device is bounded: a step of that kind costs one. *)
Disturb == left > 0 /\ left' = left - 1
DisturbUnless(ok) == IF ok THEN left' = left ELSE Disturb

(* Calls of the app, for whoever is signed in. *)
NewReport(a, slot, m) ==
  [owner |-> a, slot |-> slot, moment |-> m, status |-> "scheduled", ping |-> "indisponivel",
   captured |-> Unset, rung |-> FALSE, delivery |-> "pending"]

(* validate; its other conditions are on the shape of the arguments. *)
Valid(new) ==
  LET expected == Expected(new.slot)
  IN  /\ allowed /\ expected[new.moment] \in (now + 1)..(new.slot.end - 1)
      /\ new.moment = "second" => expected.first < expected.second

AlreadyScheduled(d, new) ==
  \E s \in d.index : /\ d.report[s].moment = new.moment /\ d.report[s].slot = new.slot
                     /\ d.report[s].status \in Active \cup {"succeeded"}

(* The new report is stored, then what it supersedes, then the index, then *)
(* its alarm and its work.                                                 *)
Stored(d, s, new) == [Superseded(d, new) EXCEPT !.report[s] = new]
Indexed(d, s) == [d EXCEPT !.index = @ \cup {s}]
Armed(d, s) == [d EXCEPT !.alarms = @ \cup {s}]

Current(a, slot) == doc[a] # NoDoc /\ doc[a].slot = slot

Schedule(a, slot, m, ok) ==
  LET d == Enter(device, a)
      new == NewReport(a, slot, m)
      s == used + 1
  IN  /\ user = a
      /\ \/ ~Valid(new) /\ device' = d /\ used' = used
         \/ /\ Valid(new) /\ AlreadyScheduled(d, new)
            /\ device' = Reconcile(d) /\ used' = used
         \/ /\ Valid(new) /\ ~AlreadyScheduled(d, new)
            /\ Cardinality(d.index) >= Capacity
            /\ device' = d /\ used' = used
         \/ /\ Valid(new) /\ ~AlreadyScheduled(d, new)
            /\ Cardinality(d.index) < Capacity /\ s \in Store
            /\ device' = Reconcile(Enqueue(Armed(Indexed(Stored(d, s, new), s), s), s, ok))
            /\ used' = s
      /\ DisturbUnless(ok /\ Current(a, slot))
      /\ UNCHANGED <<now, user, allowed, capture, worker, doc, stray, answered>>

Read(a, replace, ok) ==
  LET d == Reconcile(Enter(device, a))
  IN  /\ user = a
      /\ \E C \in Chosen(d) : device' = EnqueueAll(d, C, replace, ok)
      /\ DisturbUnless(ok /\ ~replace)
      /\ UNCHANGED <<now, user, allowed, used, capture, worker, doc, stray, answered>>

(* "cancel" looks at no status: the list the user saw may be old. *)
Cancel(a, s) ==
  LET d == Enter(device, a)
  IN  /\ user = a /\ s \in d.index
      /\ device' = Reconcile([d EXCEPT !.alarms = @ \ {s}, !.report[s].status = "cancelled",
                                       !.report[s].ping = "indisponivel"])
      /\ Disturb
      /\ UNCHANGED <<now, user, allowed, used, capture, worker, doc, stray, answered>>

Forget(d, S) == [d EXCEPT !.index = @ \ S,
                          !.report = [s \in Store |-> IF s \in S THEN NoReportYet ELSE @[s]]]

UnscheduleAutomatic(a, s) ==
  LET d == Enter(device, a)
  IN  /\ user = a /\ s \in d.index
      /\ d.report[s].status = "scheduled" /\ ~d.report[s].rung
      /\ device' = Reconcile(Forget([d EXCEPT !.alarms = @ \ {s}], {s}))
      /\ Disturb
      /\ UNCHANGED <<now, user, allowed, used, capture, worker, doc, stray, answered>>

(* canClear, and the notice that keeps a report from being cleared         *)
(* automatically: reviewed stands for the reports without one, because the *)
(* user saw it or because what was applied is a presence, and for all of   *)
(* them when it is the user who clears.                                    *)
MayClear(d, s) ==
  LET r == d.report[s]
      related == {t \in d.index : d.report[t].slot = r.slot}
  IN  /\ \A t \in related : Acknowledged(d.report[t]) /\ Settled(d.report[t])
      /\ r.status = "succeeded" /\ now < r.slot.end =>
           \E t \in related : d.report[t].moment # r.moment
Quiet(r) == r.delivery \in {"preserved", "discarded"}

(* An alarm that restore set again after it had rung outlives its report.  *)
ClearCompleted(a, reviewed) ==
  LET d == Reconcile(Enter(device, a))
      ended == {s \in d.index : MayClear(d, s) /\ (s \in reviewed \/ Quiet(d.report[s]))}
  IN  /\ user = a
      /\ device' = Forget(d, ended)
      /\ UNCHANGED <<now, user, allowed, used, capture, worker, doc, stray, answered, left>>

Deactivate ==
  /\ Disturb
  /\ device' = Clear(device)
  /\ UNCHANGED <<now, user, allowed, used, capture, worker, doc, stray, answered>>

Unarmed == \E s \in device.index \ device.alarms :
             device.report[s].status = "scheduled" /\ ~device.report[s].rung

(* restore: after a boot, an update or a change of clock or permission. *)
Restore(ok) ==
  LET d == Reconcile(device)
  IN  /\ \E C \in Chosen(d) :
           device' = [EnqueueAll(d, C, TRUE, ok) EXCEPT
             !.alarms = @ \cup {s \in d.index : /\ d.report[s].owner = d.account
                                               /\ d.report[s].status = "scheduled"}]
      /\ DisturbUnless(ok /\ Unarmed)
      /\ UNCHANGED <<now, user, allowed, used, capture, worker, doc, stray, answered>>
-----------------------------------------------------------------------------
(* FirstCheckpointService.  An alarm starts it, at its time or later; the  *)
(* capture is remembered in the memory of the process alone.               *)
SaveFailure(d, s, ok) ==
  IF s \in d.index /\ d.report[s].owner = d.account /\ ~Settled(d.report[s])
  THEN Enqueue([d EXCEPT !.report[s] = Fail(@)], s, ok) ELSE d

Due(s) ==
  /\ s \in device.alarms
  /\ device.report[s] # NoReportYet =>
       now >= Expected(device.report[s].slot)[device.report[s].moment]

(* startForeground raises: the report fails. *)
AlarmFails(s, ok) ==
  /\ Due(s)
  /\ device' = SaveFailure([device EXCEPT !.alarms = @ \ {s}], s, ok)
  /\ DisturbUnless(ok)
  /\ UNCHANGED <<now, user, allowed, used, capture, worker, doc, stray, answered>>

(* dispatch, and run once its executor has it: the report it loads is the  *)
(* one it saves in the end.  A key whose capture is under way starts no    *)
(* other, and a key that is not in the index nothing.  Permissions,        *)
(* location services or battery may forbid the capture.                    *)
AlarmRings(s, status) ==
  LET d == ReconcileOnly([device EXCEPT !.alarms = @ \ {s}], {s} \cap device.index)
      r == d.report[s]
      starts == s \in d.index /\ r.owner = d.account /\ r.status = "scheduled"
      rung == [r EXCEPT !.rung = TRUE]
  IN  /\ Due(s)
      /\ IF starts
         THEN /\ device' = [d EXCEPT !.report[s] = rung]
              /\ capture' = IF capture[s] # NoCapture THEN capture ELSE
                   [capture EXCEPT ![s] = [pc |-> "save",
                                           snap |-> [rung EXCEPT !.status = status]]]
         ELSE device' = d /\ capture' = capture
      /\ UNCHANGED <<now, user, allowed, used, worker, doc, stray, answered, left>>

(* Mutant: a settled report is written over. *)
MaySaveSettled(s) == /\ device.report[s] # NoReportYet
                     /\ device.report[s].owner = device.account

(* save: refused when the report is not the account's or is settled. *)
MaySave(s) == /\ device.report[s] # NoReportYet
              /\ device.report[s].owner = device.account /\ ~Settled(device.report[s])
CaptureSaves(s, ok) ==
  LET snap == capture[s].snap
      put == [device EXCEPT !.report[s] = snap]
  IN  /\ capture[s].pc = "save"
      /\ device' = IF ~MaySave(s) THEN device
                   ELSE IF snap.status = "running" THEN put ELSE Enqueue(put, s, ok)
      /\ capture' = [capture EXCEPT ![s] = IF snap.status = "running"
                                           THEN [pc |-> "locating", snap |-> snap] ELSE NoCapture]
      /\ DisturbUnless(ok)
      /\ UNCHANGED <<now, user, allowed, used, worker, doc, stray, answered>>

(* A fix is classified if its moment is not over; a fix too old or too     *)
(* coarse keeps its ping beside its failure.  No fix, or an interruption.  *)
CaptureEnds(s, status, ping) ==
  LET snap == capture[s].snap
      fix == [snap EXCEPT !.captured = now]
  IN  /\ capture[s].pc = "locating"
      /\ \/ /\ ~Late(snap, now) /\ ping # "indisponivel"
            /\ capture' = [capture EXCEPT ![s] =
                 [pc |-> "save", snap |-> [fix EXCEPT !.status = status, !.ping = ping]]]
         \/ /\ Late(snap, now) /\ status = "failed" /\ ping = "indisponivel"
            /\ capture' = [capture EXCEPT ![s] =
                 [pc |-> "save", snap |-> [fix EXCEPT !.status = status]]]
         \/ /\ status = "failed" /\ ping = "indisponivel"
            /\ capture' = [capture EXCEPT ![s] =
                 [pc |-> "save", snap |-> [snap EXCEPT !.status = status]]]
      /\ UNCHANGED <<now, user, allowed, used, device, worker, doc, stray, answered, left>>
-----------------------------------------------------------------------------
(* CheckpointDeliveryWorker. *)
Latest(seen, m) == {s \in DOMAIN seen : /\ seen[s].moment = m
                                        /\ \A t \in DOMAIN seen : seen[t].moment = m => t <= s}

(* payload: of the latest report of each moment, if there is one. *)
Payload(seen) ==
  [m \in Moment |-> {[id |-> s, status |-> seen[s].status, ping |-> seen[s].ping,
                      captured |-> seen[s].captured] : s \in Latest(seen, m)}]

(* Mutant: the window ends a moment early. *)
TooEarlyByOne(slot, seen) ==
  \E m \in Moment : /\ \A s \in Latest(seen, m) : ~Settled(seen[s])
                    /\ now < Expected(slot)[m] + WINDOW /\ now < slot.end

(* readyAt: a moment without a settled report may still be captured. *)
TooEarly(slot, seen) ==
  \E m \in Moment : /\ \A s \in Latest(seen, m) : ~Settled(seen[s])
                    /\ now <= Expected(slot)[m] + WINDOW /\ now < slot.end

SameRevision(d, a, slot) ==
  LET same == {s \in d.index : d.report[s].owner = a /\ d.report[s].slot = slot}
  IN  [s \in IF d.account = a THEN same ELSE {} |-> d.report[s]]

(* WorkManager runs work that waits.  doWork reads its seed and the         *)
(* reports of that revision; it ends if all are acknowledged, waits if it  *)
(* is too early, and otherwise marks them and asks for its identity.  The  *)
(* clock may strike while the reports are reconciled, so that those        *)
(* outside S, looked at before, are still open when it counts as ready.    *)
WorkStarts(w, k, S) ==
  LET seed == device.report[device.work[k].store]
      begins == seed # NoReportYet /\ seed.owner = device.account
      d == ReconcileOnly([device EXCEPT !.work[k].by = w], S)
      seen == SameRevision(d, seed.owner, seed.slot)
      known == {s \in d.index : d.report[s].owner = seed.owner}
      done == DOMAIN seen # {} /\ \A s \in DOMAIN seen : Acknowledged(seen[s])
      early == TooEarly(seed.slot, seen)
      marked == Record(d, seed.owner, seed.slot, known, "sending")
  IN  /\ worker[w] = Idle /\ device.work[k] # NoWork /\ device.work[k].by = "queue"
      /\ S \subseteq device.index
      /\ \A s \in device.index \ S : ~Hopeless(device.report[s], now - 1)
      /\ \/ /\ ~begins
            /\ device' = [device EXCEPT !.work[k] = NoWork] /\ worker' = worker
         \/ /\ begins
            /\ \/ /\ done \/ early
                  /\ device' = [d EXCEPT !.work[k] =
                                  IF done THEN NoWork ELSE [@ EXCEPT !.by = "queue"]]
                  /\ worker' = worker
               \/ /\ ~done /\ ~early /\ user # seed.owner
                  /\ device' = [Record(marked, seed.owner, seed.slot, known, "retry")
                                  EXCEPT !.work[k].by = "queue"]
                  /\ worker' = worker
               \/ /\ ~done /\ ~early /\ user = seed.owner
                  /\ device' = marked
                  /\ worker' = [worker EXCEPT ![w] =
                       [pc |-> "identified", owner |-> seed.owner, slot |-> seed.slot,
                        known |-> known, body |-> Payload(seen), answer |-> None]]
      /\ UNCHANGED <<now, user, allowed, used, capture, doc, stray, answered, left>>

(* With its tokens, the worker looks again before it sends. *)
WorkChecks(w) ==
  LET gone == Stopped(device, w) \/ device.account # worker[w].owner
      d == IF gone THEN device ELSE Reconcile(device)
      same == Payload(SameRevision(d, worker[w].owner, worker[w].slot))
                = worker[w].body
  IN  /\ worker[w].pc = "identified"
      /\ IF ~gone /\ same
         THEN device' = d /\ worker' = [worker EXCEPT ![w].pc = "http"]
         ELSE device' = Success(d, w) /\ worker' = [worker EXCEPT ![w] = Idle]
      /\ UNCHANGED <<now, user, allowed, used, capture, doc, stray, answered, left>>

(* A token or the request fails, the answer is lost or cannot be read; a   *)
(* request given up on may still be on its way.                            *)
WorkFails(w, onItsWay) ==
  /\ worker[w].pc \in {"identified", "http", "answered"}
  /\ device' = Retry(Recorded(device, w, "retry"), w)
  /\ worker' = [worker EXCEPT ![w] = Idle]
  /\ IF onItsWay THEN worker[w].pc = "http" /\ stray = Idle /\ stray' = worker[w]
                 ELSE stray' = stray
  /\ DisturbUnless(~onItsWay)
  /\ UNCHANGED <<now, user, allowed, used, capture, doc, answered>>

(* httpOutcome of the server's answer, and the reports it speaks of. *)
WorkRecords(w) ==
  LET answer == worker[w].answer
      d == Recorded(device, w, answer)
  IN  /\ worker[w].pc = "answered"
      /\ device' = IF answer = "retry" THEN Retry(d, w) ELSE Success(d, w)
      /\ worker' = [worker EXCEPT ![w] = Idle]
      /\ UNCHANGED <<now, user, allowed, used, capture, doc, stray, answered, left>>
-----------------------------------------------------------------------------
(* The server: validate_checkpoint_payload, checkpoint_decision. *)
ReportOf(slot, m, part) ==
  IF part = {} THEN NoReport
  ELSE LET r == CHOOSE x \in part : TRUE
       IN  [ping |-> IF r.status = "succeeded" THEN r.ping ELSE "indisponivel",
            expected |-> Expected(slot)[m], captured |-> r.captured]
EvidenceOf(job) ==
  [slot |-> job.slot, first |-> ReportOf(job.slot, "first", job.body["first"]),
                      second |-> ReportOf(job.slot, "second", job.body["second"])]

Unfinished(job) == \E m \in Moment : \E x \in job.body[m] : x.status \in Active

Answer(job) ==
  IF Unfinished(job) THEN "rejected"
  ELSE IF doc[job.owner] = NoDoc THEN "discarded"
  ELSE LET outcome == Outcome(doc[job.owner], EvidenceOf(job), now)
       IN  IF outcome = "waiting" THEN "retry"
           ELSE IF outcome \in Terminal THEN outcome ELSE "preserved"

(* Mutant: the second ping is written over the first. *)
DecidedOverFirst(job) ==
  LET old == doc[job.owner]
      verdict == Verdict(old.slot, EvidenceOf(job), now)
  IN  IF Answer(job) # "applied" THEN doc
      ELSE [doc EXCEPT ![job.owner] =
              [old EXCEPT !.first = verdict.second, !.second = verdict.second,
                          !.status = verdict.status, !.absences = verdict.absences]]

Decided(job) ==
  LET old == doc[job.owner]
      verdict == Verdict(old.slot, EvidenceOf(job), now)
  IN  IF Answer(job) # "applied" THEN doc
      ELSE [doc EXCEPT ![job.owner] =
              [old EXCEPT !.first = verdict.first, !.second = verdict.second,
                          !.status = verdict.status, !.absences = verdict.absences]]

Serve(w) ==
  /\ worker[w].pc = "http"
  /\ doc' = Decided(worker[w])
  /\ worker' = [worker EXCEPT ![w].pc = "answered", ![w].answer = Answer(worker[w])]
  /\ answered' = IF Answer(worker[w]) \in Terminal
                 THEN answered \cup
                      {s \in worker[w].known : /\ device.report[s] # NoReportYet
                                              /\ KeyOf(device.report[s]) = KeyOfWorker(w)}
                 ELSE answered
  /\ UNCHANGED <<now, user, allowed, used, device, capture, stray, left>>

ServeStray ==
  /\ stray # Idle
  /\ doc' = Decided(stray) /\ stray' = Idle
  /\ UNCHANGED <<now, user, allowed, used, device, capture, worker, answered, left>>

(* The user decides the attendance, or the timetable drops the session or  *)
(* moves it: once at most, not back to where an old report expects it.     *)
ServerEdit(a) ==
  /\ doc[a] # NoDoc
  /\ \E new \in {NoDoc, [doc[a] EXCEPT !.status = "presente", !.absences = 0]}
                \cup {[Blank(slot) EXCEPT !.moved = TRUE] : slot \in Slot \ {doc[a].slot}} :
       /\ new # NoDoc /\ doc[a].moved => new.slot = doc[a].slot
       /\ doc' = [doc EXCEPT ![a] = new]
  /\ Disturb
  /\ UNCHANGED <<now, user, allowed, used, device, capture, worker, stray, answered>>
-----------------------------------------------------------------------------
Tick ==
  /\ now < MAXTIME /\ now' = now + 1
  /\ UNCHANGED <<user, allowed, used, device, capture, worker, doc, stray, answered, left>>

(* The app's sign out: the bridge is deactivated first, unless that fails. *)
SignOut ==
  /\ user # NoAccount /\ user' = NoAccount
  /\ DisturbUnless(device.account = NoAccount)
  /\ UNCHANGED <<now, allowed, used, device, capture, worker, doc, stray, answered>>
SignIn(a) ==
  /\ user = NoAccount /\ user' = a
  /\ UNCHANGED <<now, allowed, used, device, capture, worker, doc, stray, answered, left>>

(* Android takes the permission back with the alarms, or gives it again. *)
Permission(granted) ==
  /\ allowed # granted /\ allowed' = granted
  /\ device' = IF granted THEN device ELSE [device EXCEPT !.alarms = {}]
  /\ DisturbUnless(granted)
  /\ UNCHANGED <<now, user, used, capture, worker, doc, stray, answered>>

(* The process dies: with it the captures and workers, whose work is run   *)
(* again.  A reboot or a forced stop takes the alarms too.                 *)
Dead(d) == [d EXCEPT !.work = [k \in Key |-> IF @[k] = NoWork THEN NoWork
                                             ELSE [@[k] EXCEPT !.by = "queue"]]]
Dies(d) ==
  /\ Disturb
  /\ device' = Dead(d)
  /\ capture' = [s \in Store |-> NoCapture]
  /\ worker' = [w \in Worker |-> Idle]
  /\ UNCHANGED <<now, user, allowed, doc, stray, answered>>

Die == Dies(device) /\ UNCHANGED used
Reboot == Dies([device EXCEPT !.alarms = {}]) /\ UNCHANGED used

(* It dies inside schedule, before the index or before the alarm, or       *)
(* inside clear, with nothing but the account removed.                     *)
ScheduleDies(a, slot, m) ==
  LET d == Enter(device, a)
      new == NewReport(a, slot, m)
      s == used + 1
  IN  /\ user = a /\ s \in Store
      /\ Valid(new) /\ ~AlreadyScheduled(d, new) /\ Cardinality(d.index) < Capacity
      /\ used' = s
      /\ Dies(Stored(d, s, new)) \/ Dies(Indexed(Stored(d, s, new), s))
ClearDies == Dies([device EXCEPT !.account = NoAccount]) /\ UNCHANGED used
-----------------------------------------------------------------------------
Calls(a) ==
  \/ \E slot \in Slot, m \in Moment :
       ScheduleDies(a, slot, m) \/ \E ok \in BOOLEAN : Schedule(a, slot, m, ok)
  \/ \E replace \in BOOLEAN, ok \in BOOLEAN : Read(a, replace, ok)
  \/ \E s \in Store : Cancel(a, s) \/ UnscheduleAutomatic(a, s)
  \/ \E reviewed \in SUBSET Store : ClearCompleted(a, reviewed)

Captures(s) ==
  \/ \E status \in {"running", "failed"} : AlarmRings(s, status)
  \/ \E ok \in BOOLEAN : AlarmFails(s, ok) \/ CaptureSaves(s, ok)
  \/ \E status \in {"succeeded", "failed"}, ping \in Fixes \cup {"indisponivel"} :
       CaptureEnds(s, status, ping)

Works(w) ==
  \/ \E k \in Key, S \in SUBSET Store : WorkStarts(w, k, S)
  \/ WorkChecks(w) \/ Serve(w) \/ WorkRecords(w)
  \/ \E onItsWay \in BOOLEAN : WorkFails(w, onItsWay)

Next ==
  \/ \E a \in Account : Calls(a) \/ SignIn(a) \/ ServerEdit(a)
  \/ \E s \in Store : Captures(s)
  \/ \E w \in Worker : Works(w)
  \/ \E ok \in BOOLEAN : Restore(ok)
  \/ \E granted \in BOOLEAN : Permission(granted)
  \/ Deactivate \/ SignOut \/ ServeStray \/ Tick
  \/ Die \/ Reboot \/ ClearDies

Spec == Init /\ [][Next]_vars

(* Time passes, the app is opened again, WorkManager runs what waits, and  *)
(* a request that is made over and over is answered in the end.            *)
Fairness ==
  /\ WF_vars(Tick)
  /\ \A a \in Account : WF_vars(Read(a, FALSE, TRUE))
  /\ \A w \in Worker :
       /\ \A k \in Key : SF_vars(\E S \in SUBSET Store : WorkStarts(w, k, S))
       /\ SF_vars(WorkChecks(w)) /\ SF_vars(Serve(w)) /\ SF_vars(WorkRecords(w))
FairSpec == Spec /\ Fairness
-----------------------------------------------------------------------------
Work == [store : Store, by : Worker \cup {"queue"}]
Device == [account : Account \cup {NoAccount}, index : SUBSET Store, alarms : SUBSET Store,
           report : [Store -> Checkpoint \cup {NoReportYet}], work : [Key -> Work \cup {NoWork}]]
Capture == [pc : {"save", "locating"}, snap : Checkpoint]
Part == [id : Store, status : Status, ping : Ping, captured : {Unset} \cup 0..MAXTIME]
Job == {job \in [pc : {"identified", "http", "answered"}, owner : Account, slot : Slot,
                  known : SUBSET Store, body : [Moment -> SUBSET Part],
                  answer : {None, "retry"} \cup Terminal] :
          job.pc = "answered" <=> job.answer # None}

(* Types.  The index names stored reports, of keys given before; an alarm  *)
(* may be of a report that was removed.                                    *)
TypeOK ==
  /\ now \in 0..MAXTIME /\ user \in Account \cup {NoAccount}
  /\ allowed \in BOOLEAN /\ used \in {0} \cup Store
  /\ device \in Device
  /\ \A s \in device.index : s <= used /\ device.report[s] # NoReportYet
  /\ capture \in [Store -> {NoCapture} \cup Capture]
  /\ worker \in [Worker -> {Idle} \cup Job] /\ stray \in {Idle} \cup Job
  /\ answered \subseteq Store

(* CheckpointDelivery.kt, record: a report that counts as delivered is     *)
(* settled, and was one of the revision some request was about when the    *)
(* server answered it: no answer acknowledges a report of a later revision *)
(* or of another account, or one scheduled after the request was made.     *)
AcknowledgedWasSent ==
  \A s \in device.index :
    Acknowledged(device.report[s]) => Settled(device.report[s]) /\ s \in answered

(* CheckpointDelivery.kt, checkpoint_service.py: no report that could      *)
(* still change is ever sent, so that the server refuses none for good: a  *)
(* worker goes on when every window is closed, and what it had read open   *)
(* before that, it finds failed in its second look and does not send.      *)
NothingOpenSent ==
  /\ \A w \in Worker : worker[w] # Idle /\ worker[w].pc = "http" => ~Unfinished(worker[w])
  /\ stray # Idle => ~Unfinished(stray)

(* FirstCheckpointBridge.schedule: the reports of a session that may still *)
(* be captured are of one revision, one of each moment at most.            *)
OneActivePlan ==
  \A s, t \in device.index :
    s # t /\ ~Settled(device.report[s]) /\ ~Settled(device.report[t])
      => /\ device.report[s].slot = device.report[t].slot
         /\ device.report[s].moment # device.report[t].moment

(* Phone and server: a captured ping the phone shows as applied is the one *)
(* the server has, unless the session was moved or deleted there.          *)
ServerAgrees ==
  \A s \in device.index :
    LET r == device.report[s]
    IN  /\ r.status = "succeeded" /\ r.delivery \in {"applied", "already_applied"}
        /\ doc[r.owner] # NoDoc /\ doc[r.owner].slot = r.slot
        => doc[r.owner][r.moment] = r.ping

(* BackgroundLocationProof.save, reconcile, schedule: what ended a report  *)
(* stands, whatever was capturing it; only the user's cancel replaces it.  *)
SettledStands ==
  [][\A s \in device.index :
       Settled(device.report[s]) /\ device'.report[s] # NoReportYet
         => device'.report[s].status \in {device.report[s].status, "cancelled"}]_vars

(* CheckpointDelivery.kt: every report is delivered in the end, for as     *)
(* long as its owner stays signed in, or is removed.                       *)
EventuallySettled ==
  \A s \in Store :
    s \in device.index ~>
      \/ s \notin device.index \/ Acknowledged(device.report[s])
      \/ user # device.report[s].owner
=============================================================================

------------------------ MODULE PlanReconciliation ------------------------
(***************************************************************************)
(* The saved teaching plan of one course and its class sessions:           *)
(* reconcile (teaching_plan_reconciliation.py and its repository) adds,    *)
(* titles and removes sessions beside the calls that own them, the         *)
(* replacement of the weekly schedule (save_schedule) and the user's edits *)
(* of a session.  CourseSessions has those calls in full; here a schedule  *)
(* keeps the course's period and a session its lessons' hours.             *)
(***************************************************************************)
EXTENDS Integers, FiniteSets, Functions

CONSTANTS
    Day,        \* the days a class can fall on, as clock readings in lessons
    Period,     \* the days of the course's period
    Hours,      \* start and end of a class in its day
    Meeting,    \* identifiers of weekly meetings, all on the weekday of the days
    Saved,      \* bound: the weekly schedules the course may start with
    Asks,       \* bound: those the user saves, and whether deletions are confirmed
    Plans,      \* bound: the plans the portal shows, with their assessments
    Courses,    \* bound: what the course may be
    Edits,      \* bound: attendance and calendar statuses the user enters
    Touched,    \* bound: the sessions the user edits
    Calls,      \* invocations that may be under way at once
    Mixes,      \* bound: what each invocation may do in a behaviour
    None,       \* nothing there
    MaxTime     \* bound of the clock

ASSUME DaysAssumption == Day \subseteq Nat /\ Period \subseteq Day
ASSUME HoursAssumption ==
    Hours \subseteq {h \in [start : Nat, end : Nat] : h.end - h.start \in {1, 2, 4}}
ASSUME MaxTimeAssumption == MaxTime \in Nat
ASSUME EditsAssumption ==
    \A edit \in Edits : \/ edit.kind = "attendance" /\ edit.status # None
                        \/ edit.kind = "calendar"

VARIABLES
    docs,    \* the session documents
    grade,   \* the meeting documents
    plan,    \* teachingPlans/current
    course,  \* modality is "online", and workload; nobody changes them here
    call,    \* what each invocation is doing
    clock,   \* datetime.now(UTC)
    mix,     \* what each invocation may do in this behaviour
    calm     \* history: every commit was of sessions and meetings as they were stored

vars == <<docs, grade, plan, course, call, clock, mix, calm>>

(* "2026-08-04--tuesday-19" of a meeting and                               *)
(* "2026-08-04--diario-1900-2040" of an occurrence, which is its key too.  *)
Occurrence == Day \X Hours
Id == (Day \X Meeting) \union Occurrence
WeeklySchedules == UNION {[meetings -> Hours] : meetings \in SUBSET Meeting}

(* No session's id is of both forms. *)
ASSUME IdAssumption == Meeting \intersect Hours = {}
ASSUME TouchedAssumption == Touched \subseteq Id
ASSUME SchedulesAssumption ==
    Saved \subseteq WeeklySchedules /\ \A ask \in Asks : ask.weekly \in WeeklySchedules
ASSUME PlansAssumption == \A p \in Plans : p.schedule \subseteq Occurrence

Slot(day, h) == [start |-> day + h.start, end |-> day + h.end]
SlotOf(o) == Slot(o[1], o[2])
Lessons(slot) == slot.end - slot.start

There(s) == {i \in Id : s[i] # None}
Blank(slot, title, at) ==
    [slot |-> slot, mark |-> None, calendar |-> "scheduled", title |-> title,
     created |-> at, updated |-> at]

-----------------------------------------------------------------------------
(* reconcile_teaching_plan_schedule, of the sessions s, the meetings g and *)
(* the plan p.                                                             *)

Exact(s, o) == {i \in There(s) : s[i].slot = SlotOf(o)}
Overlap(a, b) == a.start < b.end /\ b.start < a.end

(* _occurrence and _requested_meetings: a class ends on the day it began. *)
ASSUME DaysApart ==
    \A d, e \in Day : d # e => \A h, i \in Hours : ~Overlap(Slot(d, h), Slot(e, i))

Overlapping(s, o) == {i \in There(s) : Overlap(s[i].slot, SlotOf(o))}

(* A mutant: the meeting need not have the occurrence's lessons.           *)
WeeklyStart(g, o) == \E m \in Meeting : g[m] # None /\ g[m].hours.start = o[2].start

Weekly(g, o) == \E m \in Meeting : g[m] # None /\ g[m].hours = o[2]

(* An occurrence has the title of the one assessment within its hours. *)
Title(p, o) ==
    LET mine == {a \in p.assessments : SlotOf(o).start <= a.at /\ a.at <= SlotOf(o).end} IN
    IF Cardinality(mine) = 1 THEN (CHOOSE a \in mine : TRUE).title ELSE None

(* A mutant: attendance does not keep an import from being withdrawn.      *)
UnmodifiedUnmarked(doc) == doc.calendar = "scheduled" /\ doc.title = None

Unmodified(doc) == doc.mark = None /\ doc.calendar = "scheduled" /\ doc.title = None

Removed(s, g, p) ==
    {o \in p.schedule : ~Weekly(g, o) /\ Exact(s, o) = {o} /\ Unmodified(s[o])}
Linked(s, g, p) ==
    {i \in There(s) : /\ s[i].title = None
                      /\ \E o \in p.schedule : /\ Weekly(g, o)
                                               /\ Exact(s, o) = {i}
                                               /\ Title(p, o) # None}
Created(s, g, p) ==
    {o \in p.schedule : Weekly(g, o) /\ Overlapping(s, o) = {}}

TitleOf(s, p, i) == Title(p, CHOOSE o \in p.schedule : SlotOf(o) = s[i].slot)

(* A mutant: a new session waits for the next reconciliation's title.      *)
AddedUntitled(p, o, now) == Blank(SlotOf(o), None, now)

Added(p, o, now) == Blank(SlotOf(o), Title(p, o), now)

(* The whole document of a session it writes. *)
Written(s, p, i, now) ==
    IF s[i] = None THEN Added(p, i, now)
    ELSE [s[i] EXCEPT !.title = TitleOf(s, p, i), !.updated = now]

(* _validate_workload: the lessons there will be, cancelled ones and       *)
(* holidays apart.                                                         *)
Effective(s, g, p) == (There(s) \ Removed(s, g, p)) \union Created(s, g, p)
Held(doc) == doc.calendar \notin {"cancelled", "holiday"}
Told(s, g, p, now) ==
    LET doc(i) == IF s[i] = None THEN Added(p, i, now) ELSE s[i] IN
    SumFunction([i \in {j \in Effective(s, g, p) : Held(doc(j))} |-> Lessons(doc(i).slot)])
-----------------------------------------------------------------------------
(* firestore.rules: an update keeps the creation and does not go back. *)
Allowed(old, new) == old # None => new.created = old.created /\ new.updated >= old.updated

Idle == [kind |-> "none", pc |-> "idle", arg |-> None, sessions |-> None,
         meetings |-> None, now |-> 0]
Starts(k, kind) == call[k] = Idle /\ kind \in mix[k]
Meanwhile(what) == \E k \in Calls : what \in mix[k]
At(k, kind, pc) == call[k].kind = kind /\ call[k].pc = pc
Become(k, x) == call' = [call EXCEPT ![k] = x]

(* _desired_sessions and _reject_internal_overlap, of a schedule that says *)
(* when each of its meetings is.                                           *)
Desired(ask) == Period \X DOMAIN ask
DesiredSlot(ask, i) == Slot(i[1], ask[i[2]])
Consistent(ask) ==
    /\ Period = {} => DOMAIN ask = {}
    /\ \A m, n \in DOMAIN ask : m # n => ~Overlap(ask[m], ask[n])

Init ==
    /\ \E ask \in {a \in Saved : Consistent(a)} :
         /\ docs = [i \in Id |-> IF i \in Desired(ask) THEN Blank(DesiredSlot(ask, i), None, 0)
                                 ELSE None]
         /\ grade = [m \in Meeting |-> IF m \in DOMAIN ask
                                       THEN [hours |-> ask[m], created |-> 0, updated |-> 0]
                                       ELSE None]
    /\ plan \in Plans /\ course \in Courses
    /\ call = [k \in Calls |-> Idle]
    /\ clock = 0 /\ mix \in Mixes /\ calm = TRUE

-----------------------------------------------------------------------------
(* An applied reconciliation: the course and its plan, the sessions, the   *)
(* meetings, the clock and one commit without preconditions.  A preview is *)
(* the same without the commit.  An online course has nothing to compare.  *)
PlanRead == IF course.online THEN [schedule |-> {}, assessments |-> {}] ELSE plan

LoadPlan(k) ==
    /\ Starts(k, "reconcile")
    /\ Become(k, [Idle EXCEPT !.kind = "reconcile", !.pc = "sessions", !.arg = PlanRead])
    /\ UNCHANGED <<docs, grade, plan, course, clock, mix, calm>>

(* What save_schedule reads first, reconcile reads last. *)
ListSessions(k) ==
    /\ call[k].pc = "sessions"
    /\ Become(k, [call[k] EXCEPT !.sessions = docs,
                    !.pc = IF call[k].kind = "reconcile" THEN "meetings" ELSE "now"])
    /\ UNCHANGED <<docs, grade, plan, course, clock, mix, calm>>

ListMeetings(k) ==
    /\ call[k].pc = "meetings"
    /\ Become(k, [call[k] EXCEPT !.meetings = grade,
                    !.pc = IF call[k].kind = "reconcile" THEN "now" ELSE "sessions"])
    /\ UNCHANGED <<docs, grade, plan, course, clock, mix, calm>>

Now(k) ==
    /\ call[k].pc = "now"
    /\ Become(k, [call[k] EXCEPT !.now = clock, !.pc = "commit"])
    /\ UNCHANGED <<docs, grade, plan, course, clock, mix, calm>>

StillAsRead(x) == x.sessions = docs /\ x.meetings = grade

CommitReconciliation(k) ==
    LET x == call[k]
        writes == Created(x.sessions, x.meetings, x.arg) \union Linked(x.sessions, x.meetings, x.arg)
        gone == Removed(x.sessions, x.meetings, x.arg)
        new(i) == Written(x.sessions, x.arg, i, x.now)
    IN  /\ At(k, "reconcile", "commit")
        /\ Become(k, Idle)
        /\ IF \A i \in writes : Allowed(docs[i], new(i))
           THEN /\ docs' = [i \in Id |-> IF i \in writes THEN new(i)
                                         ELSE IF i \in gone THEN None ELSE docs[i]]
                /\ calm' = (calm /\ (writes \union gone # {} => StillAsRead(x)))
           ELSE UNCHANGED <<docs, calm>>
        /\ UNCHANGED <<grade, plan, course, clock, mix>>

-----------------------------------------------------------------------------
(* save_schedule, of a schedule that keeps the course's period. *)
BeginSchedule(k, ask) ==
    /\ Starts(k, "schedule")
    /\ Become(k, [Idle EXCEPT !.kind = "schedule", !.pc = "meetings", !.arg = ask])
    /\ UNCHANGED <<docs, grade, plan, course, clock, mix, calm>>

(* _reconcile_sessions: a session of the plan is a generated one too, and  *)
(* no schedule wants it.                                                   *)
Obsolete(x) == There(x.sessions) \ Desired(x.arg.weekly)
Kept(x, i) == /\ x.sessions[i] # None
              /\ \/ x.sessions[i].slot = DesiredSlot(x.arg.weekly, i)
                 \/ x.sessions[i].mark # None
Upserts(x) == {i \in Desired(x.arg.weekly) : ~Kept(x, i)}
Generated(x, i) ==
    LET new == Blank(DesiredSlot(x.arg.weekly, i), None, x.now) old == x.sessions[i] IN
    IF old = None THEN new
    ELSE [new EXCEPT !.calendar = old.calendar, !.title = old.title, !.created = old.created]

(* The deletion of a session that was marked, moved out of the calendar or *)
(* titled has to be confirmed.                                             *)
Confirmed(x) == x.arg.confirm \/ \A i \in Obsolete(x) : Unmodified(x.sessions[i])

MeetingUpserts(x) ==
    {m \in DOMAIN x.arg.weekly : x.meetings[m] = None \/ x.meetings[m].hours # x.arg.weekly[m]}
MeetingWritten(x, m) ==
    [hours |-> x.arg.weekly[m], updated |-> x.now,
     created |-> IF x.meetings[m] = None THEN x.now ELSE x.meetings[m].created]
ScheduleAllowed(x) ==
    /\ \A i \in Upserts(x) : Allowed(docs[i], Generated(x, i))
    /\ \A m \in MeetingUpserts(x) : Allowed(grade[m], MeetingWritten(x, m))

CommitSchedule(k) ==
    LET x == call[k] IN
    /\ At(k, "schedule", "commit")
    /\ Become(k, Idle)
    /\ IF Consistent(x.arg.weekly) /\ Confirmed(x) /\ ScheduleAllowed(x)
       THEN /\ docs' = [i \in Id |-> IF i \in Upserts(x) THEN Generated(x, i)
                                     ELSE IF i \in Obsolete(x) THEN None ELSE docs[i]]
            /\ grade' = [m \in Meeting |->
                           IF m \in MeetingUpserts(x) THEN MeetingWritten(x, m)
                           ELSE IF m \notin DOMAIN x.arg.weekly /\ x.meetings[m] # None THEN None
                           ELSE grade[m]]
            /\ calm' = (calm /\ StillAsRead(x))
       ELSE UNCHANGED <<docs, grade, calm>>
    /\ UNCHANGED <<plan, course, clock, mix>>

-----------------------------------------------------------------------------
(* save_attendance and save_calendar_status: the session, the clock and a  *)
(* patch of the fields of the edit.                                        *)
BeginEdit(k, i, edit) ==
    /\ Starts(k, "edit")
    /\ docs[i] # None
    /\ edit.kind = "attendance" => docs[i].calendar \in {"scheduled", "makeup"}
    /\ Become(k, [Idle EXCEPT !.kind = "edit", !.pc = "now", !.arg = [id |-> i, edit |-> edit]])
    /\ UNCHANGED <<docs, grade, plan, course, clock, mix, calm>>

Edited(x, old) ==
    IF x.arg.edit.kind = "attendance"
    THEN [old EXCEPT !.mark = x.arg.edit.status, !.updated = x.now]
    ELSE [old EXCEPT !.calendar = x.arg.edit.status, !.updated = x.now]

PatchSession(k) ==
    LET x == call[k] i == x.arg.id IN
    /\ At(k, "edit", "commit")
    /\ Become(k, Idle)
    /\ docs' = IF docs[i] # None /\ x.now >= docs[i].updated
               THEN [docs EXCEPT ![i] = Edited(x, @)] ELSE docs
    /\ UNCHANGED <<grade, plan, course, clock, mix, calm>>

(* An import of the portal's plan stores another one. *)
SavePlan(p) ==
    /\ Meanwhile("plan") /\ p # plan
    /\ plan' = p
    /\ UNCHANGED <<docs, grade, course, call, clock, mix, calm>>

(* An invocation ends, with nothing of it written. *)
Kill(k) ==
    /\ call[k] # Idle
    /\ Become(k, Idle)
    /\ UNCHANGED <<docs, grade, plan, course, clock, mix, calm>>

Tick ==
    /\ clock < MaxTime
    /\ clock' = clock + 1
    /\ UNCHANGED <<docs, grade, plan, course, call, mix, calm>>

Call(k) ==
    \/ LoadPlan(k) \/ ListSessions(k) \/ ListMeetings(k) \/ Now(k) \/ Kill(k)
    \/ CommitReconciliation(k) \/ CommitSchedule(k) \/ PatchSession(k)
    \/ \E ask \in Asks : BeginSchedule(k, ask)
    \/ \E i \in Touched, edit \in Edits : BeginEdit(k, i, edit)

Next == (\E k \in Calls : Call(k)) \/ (\E p \in Plans : SavePlan(p)) \/ Tick

Spec == Init /\ [][Next]_vars

-----------------------------------------------------------------------------
Times == 0..MaxTime
Marks == {e.status : e \in {f \in Edits : f.kind = "attendance"}}
Titles == {a.title : a \in UNION {p.assessments : p \in Plans}} \union {None}
Doc == [slot : {Slot(d, h) : d \in Day, h \in Hours}, mark : Marks \union {None},
        calendar : {"scheduled"} \union {e.status : e \in {f \in Edits : f.kind = "calendar"}},
        title : Titles, created : Times, updated : Times]
MeetingDoc == [hours : Hours, created : Times, updated : Times]

ASSUME NoneAssumption == None \notin Doc

TypeOK ==
    /\ docs \in [Id -> Doc \union {None}]
    /\ grade \in [Meeting -> MeetingDoc \union {None}]
    /\ plan \in Plans /\ course \in Courses
    /\ clock \in Times /\ mix \in Mixes /\ calm \in BOOLEAN

(* Two sessions of a course share an hour only if a call committed what    *)
(* another had changed under it, or if the user's attendance kept one of   *)
(* them where it was when the schedule moved (_overlaps, _matching_meeting *)
(* and _reconcile_sessions each prevent a part of it).                     *)
OverlapHasCause ==
    calm => \A i, j \in There(docs) :
                i # j /\ Overlap(docs[i].slot, docs[j].slot)
                => docs[i].mark # None \/ docs[j].mark # None

(* The lessons the sessions s will be counted for. *)
Workload(s) == SumFunction([i \in {j \in There(s) : Held(s[j])} |-> Lessons(s[i].slot)])

Committing(k) == At(k, "reconcile", "commit") /\ call'[k] = Idle /\ docs' # docs

(* What the user entered for a session, or another plan's title, is lost   *)
(* to a reconciliation only if it was stored after the sessions were       *)
(* listed, and overwritten only if it is not dated after the               *)
(* reconciliation ("attendance_records_preserved" is what it reports).     *)
ReconcileLossHasCause ==
    [][\A k \in Calls : Committing(k) =>
         \A i \in There(docs) :
            LET old == docs[i] new == docs'[i] IN
            \/ new = old
            \/ old # call[k].sessions[i] /\ (new # None => old.updated <= call[k].now)
            \/ new = None /\ <<old.mark, old.calendar, old.title>> = <<None, "scheduled", None>>
            \/ /\ new # None /\ old.title = None
               /\ <<new.mark, new.calendar>> = <<old.mark, old.calendar>>]_vars

(* A reconciliation of what is stored does all it announced: the sessions  *)
(* are those whose workload it answered, and another one would change      *)
(* nothing more than to create a class a session it removed was in the way *)
(* of.                                                                     *)
AppliedAsTold ==
    [][\A k \in Calls : Committing(k) =>
         LET x == call[k] IN
         StillAsRead(x) =>
            /\ Removed(docs', grade', x.arg) = {}
            /\ Linked(docs', grade', x.arg) = {}
            /\ \A o \in Created(docs', grade', x.arg) :
                 \E r \in Removed(x.sessions, x.meetings, x.arg) : Overlap(SlotOf(o), SlotOf(r))
            /\ Told(x.sessions, x.meetings, x.arg, x.now) = Workload(docs')]_vars

=============================================================================

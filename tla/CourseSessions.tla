-------------------------- MODULE CourseSessions --------------------------
(***************************************************************************)
(* The class sessions of one course and the calls that write them, each    *)
(* from its own HTTP invocation: the user's attendance and calendar edits  *)
(* (save_attendance, save_calendar_status), checkpoints delivered by a     *)
(* device (apply_checkpoints), schedule replacements (save_schedule) and   *)
(* holidays taken from the official calendar (apply_holidays).  Every      *)
(* request to Firestore is a step; the security rules decide its writes.   *)
(***************************************************************************)
EXTENDS Attendance, FiniteSets

CONSTANTS
  Editor, Delivery, Saver, Holiday,  \* invocations of each kind of call
  Day,          \* the days of the term a weekly meeting falls on, as clock readings
  Meeting,      \* identifiers of weekly meetings
  Config,       \* what a weekly meeting may be: start and end in its day, lessons, calls
  Change,       \* attendance and calendar payloads of the user's edits
  Evidence,     \* checkpoint payloads of the device
  Saved,        \* the schedules the course may have been given before
  NoDoc,        \* a document that does not exist
  MAXTIME,      \* bound of the clock
  INFLIGHT      \* bound of the invocations that overlap

ASSUME NumbersAssumption == Day \subseteq Nat /\ {MAXTIME, INFLIGHT} \subseteq Nat
ASSUME ConfigAssumption ==
  \A c \in Config :
    /\ c \in [start : Nat, end : Nat, lessons : {1, 2, 4}, calls : {1, 2}]
    /\ <<c.lessons, c.calls>> \in Configuration
ASSUME ChangeAssumption ==
  Change \subseteq [kind : {"attendance"}, status : Situation, absences : Int]
                 \cup [kind : {"calendar"}, status : EditableStatus, absences : {Unset}]
ASSUME EvidenceAssumption ==
  \A x \in Evidence : x.first \in Report /\ x.second \in Report

VARIABLES
  docs,      \* the session documents
  grade,     \* the meeting documents
  course,    \* the course document: the days of its period and its updatedAt
  rollCall,  \* the course's attendance_policy is "required"; nobody changes it here
  clock,     \* datetime.now(UTC)
  fresh,     \* deliveries whose session still has the updateTime they read
  editor, delivery, saver, holiday,  \* the local state of every invocation
  mixed      \* auxiliary: a replacement was committed beside one that had read

vars == <<docs, grade, course, rollCall, clock, fresh,
          editor, delivery, saver, holiday, mixed>>
-----------------------------------------------------------------------------
Session == Day \X Meeting   \* "2026-08-04--tuesday-19"
Time == 0..MAXTIME

(* The slot a meeting of this configuration has on a day. *)
SlotOf(day, c) == [start |-> day + c.start, end |-> day + c.end,
                   lessons |-> c.lessons, calls |-> c.calls]
Slot == {SlotOf(day, c) : day \in Day, c \in Config}

(* byHand is auxiliary: the attendance is one the user set. *)
SessionDoc ==
  [slot : Slot, first : Ping \cup {None}, second : Ping \cup {None},
   status : Situation \cup {None}, absences : {Unset} \cup 0..4,
   calendar : CalendarStatus, created : Time, updated : Time, byHand : BOOLEAN]
MeetingDoc == [config : Config, created : Time, updated : Time]

(* A schedule as a request states it: the days of its period, if it has    *)
(* one, and its meetings.                                                  *)
Period == {{}} \cup {Day \cap (a..b) : a, b \in Day}
Schedule == UNION {[days : Period, meetings : [M -> Config]] : M \in SUBSET Meeting}

(* _meetings_overlap, for meetings of one weekday. *)
Overlap(c1, c2) == c1.start < c2.end /\ c2.start < c1.end

(* _reject_internal_overlap *)
Consistent(ask) ==
  /\ ask.days = {} => DOMAIN ask.meetings = {}
  /\ \A m1, m2 \in DOMAIN ask.meetings :
       m1 # m2 => ~Overlap(ask.meetings[m1], ask.meetings[m2])

ASSUME NoDocAssumption == NoDoc \notin SessionDoc \cup MeetingDoc
ASSUME SavedAssumption == Saved \subseteq {ask \in Schedule : Consistent(ask)}

AuditKept(old, new) == new.created = old.created /\ new.updated >= old.updated

(* firestore.rules: what may replace a session document. *)
SessionAllowed(old, new) ==
  /\ ValidAttendance(new.slot.lessons, new.status, new.absences)
  /\ new.updated >= new.created
  /\ old # NoDoc => AuditKept(old, new)

MeetingAllowed(old, new) == old # NoDoc => AuditKept(old, new)

(* Sessions of W were written: deliveries that read one hold an old revision. *)
Stale(W) == {d \in Delivery : delivery[d].session \in W}
-----------------------------------------------------------------------------
NoSession == <<NoDoc, NoDoc>>
IdleEditor == [pc |-> "idle", session |-> NoSession, change |-> NoDoc,
               seen |-> NoDoc, at |-> 0]
IdleDelivery == [pc |-> "idle", session |-> NoSession, evidence |-> NoDoc,
                 seen |-> NoDoc, at |-> 0]
IdleSaver == [pc |-> "idle", ask |-> NoDoc, confirm |-> FALSE, course |-> NoDoc,
              grade |-> NoDoc, docs |-> NoDoc, at |-> 0]
IdleHoliday == [pc |-> "idle", todo |-> {}, seen |-> NoDoc, at |-> 0]

(* _desired_sessions: the sessions a schedule generates. *)
Desired(ask) == {s \in Session : s[1] \in ask.days /\ s[2] \in DOMAIN ask.meetings}
DesiredSlot(ask, s) == SlotOf(s[1], ask.meetings[s[2]])
Blank(slot, at) ==
  [slot |-> slot, first |-> None, second |-> None, status |-> None, absences |-> Unset,
   calendar |-> "scheduled", created |-> at, updated |-> at, byHand |-> FALSE]

(* The course as its creation, or a schedule saved at time 0, left it. *)
Init ==
  /\ \E ask \in Saved :
       /\ docs = [s \in Session |-> IF s \in Desired(ask)
                                    THEN Blank(DesiredSlot(ask, s), 0) ELSE NoDoc]
       /\ grade = [m \in Meeting |->
                     IF m \in DOMAIN ask.meetings
                     THEN [config |-> ask.meetings[m], created |-> 0, updated |-> 0]
                     ELSE NoDoc]
       /\ course = [days |-> ask.days, updated |-> 0]
  /\ rollCall \in BOOLEAN /\ clock = 0 /\ fresh = {}
  /\ editor = [e \in Editor |-> IdleEditor]
  /\ delivery = [d \in Delivery |-> IdleDelivery]
  /\ saver = [v \in Saver |-> IdleSaver]
  /\ holiday = [h \in Holiday |-> IdleHoliday]
  /\ mixed = FALSE
-----------------------------------------------------------------------------
InFlight == {e \in Editor : editor[e].pc # "idle"}
              \cup {d \in Delivery : delivery[d].pc # "idle"}
              \cup {v \in Saver : saver[v].pc # "idle"}
              \cup {h \in Holiday : holiday[h].pc # "idle"}
MayStart == Cardinality(InFlight) < INFLIGHT

(* The calls that write whole sessions from what they have read before.    *)
Replacing == {v \in Saver : saver[v].pc # "idle"}
OnHolidays == {h \in Holiday : holiday[h].pc \in {"get", "commit"}}

(* save_attendance and save_calendar_status read the session, compute the  *)
(* new one at a time of their own and write their fields over whatever is  *)
(* stored by then.                                                         *)
EditGet(e, s, change) ==
  /\ MayStart
  /\ editor[e].pc = "idle" /\ docs[s] # NoDoc
  /\ editor' = [editor EXCEPT ![e] = [pc |-> "decide", session |-> s,
                  change |-> change, seen |-> docs[s], at |-> 0]]
  /\ UNCHANGED <<docs, grade, course, rollCall, clock, fresh,
                 delivery, saver, holiday, mixed>>

(* replace_attendance and replace_calendar_status refuse a change. *)
EditAccepted(doc, change) ==
  \/ change.kind = "calendar"
  \/ /\ change.kind = "attendance"
     /\ doc.calendar \in RollCallStatus
     /\ change.absences # Omitted =>
          ValidAttendance(doc.slot.lessons, change.status, change.absences)

EditDecide(e) ==
  /\ editor[e].pc = "decide"
  /\ editor' = [editor EXCEPT ![e] =
       IF EditAccepted(editor[e].seen, editor[e].change)
       THEN [editor[e] EXCEPT !.pc = "patch", !.at = clock] ELSE IdleEditor]
  /\ UNCHANGED <<docs, grade, course, rollCall, clock, fresh,
                 delivery, saver, holiday, mixed>>

(* The stored document with the fields of the edit's mask replaced. *)
Edited(old, l) ==
  IF l.change.kind = "calendar"
  THEN [old EXCEPT !.calendar = l.change.status, !.updated = l.at]
  ELSE [old EXCEPT !.status = l.change.status, !.updated = l.at, !.byHand = TRUE,
                   !.absences = EditedAbsences(l.seen, l.change)]

(* A patch of a document deleted meanwhile would create one without most   *)
(* of its fields, which the rules refuse.                                  *)
EditPatch(e) ==
  LET l == editor[e]
      s == l.session
  IN  /\ l.pc = "patch"
      /\ editor' = [editor EXCEPT ![e] = IdleEditor]
      /\ IF docs[s] # NoDoc /\ SessionAllowed(docs[s], Edited(docs[s], l))
         THEN /\ docs' = [docs EXCEPT ![s] = Edited(docs[s], l)]
              /\ fresh' = fresh \ Stale({s})
         ELSE UNCHANGED <<docs, fresh>>
      /\ UNCHANGED <<grade, course, rollCall, clock, delivery, saver, holiday, mixed>>
-----------------------------------------------------------------------------
(* apply_checkpoints reads the course and the session with its revision. *)
CheckpointGet(d, s, evidence) ==
  /\ MayStart
  /\ delivery[d].pc = "idle" /\ rollCall /\ docs[s] # NoDoc
  /\ delivery' = [delivery EXCEPT ![d] = [pc |-> "decide", session |-> s,
                    evidence |-> evidence, seen |-> docs[s], at |-> 0]]
  /\ fresh' = fresh \cup {d}
  /\ UNCHANGED <<docs, grade, course, rollCall, clock,
                 editor, saver, holiday, mixed>>

CheckpointDecide(d) ==
  LET l == delivery[d] IN
  /\ l.pc = "decide"
  /\ IF Outcome(l.seen, l.evidence, clock) = "applied"
     THEN /\ delivery' = [delivery EXCEPT ![d] = [l EXCEPT !.pc = "patch", !.at = clock]]
          /\ UNCHANGED fresh
     ELSE /\ delivery' = [delivery EXCEPT ![d] = IdleDelivery]
          /\ fresh' = fresh \ {d}
  /\ UNCHANGED <<docs, grade, course, rollCall, clock,
                 editor, saver, holiday, mixed>>

Classified(old, l) ==
  LET verdict == Verdict(l.seen.slot, l.evidence, l.at) IN
  [old EXCEPT !.first = verdict.first, !.second = verdict.second,
              !.status = verdict.status, !.absences = verdict.absences,
              !.updated = l.at, !.byHand = FALSE]

(* Mutant: the write is not conditional on the revision. *)
RevisionIgnored(d) == TRUE

(* currentDocument.updateTime *)
RevisionHolds(d) == d \in fresh

CheckpointPatch(d) ==
  LET l == delivery[d]
      s == l.session
  IN  /\ l.pc = "patch"
      /\ delivery' = [delivery EXCEPT ![d] = IdleDelivery]
      /\ IF /\ RevisionHolds(d) /\ docs[s] # NoDoc
            /\ SessionAllowed(docs[s], Classified(docs[s], l))
         THEN /\ docs' = [docs EXCEPT ![s] = Classified(docs[s], l)]
              /\ fresh' = fresh \ Stale({s})
         ELSE fresh' = fresh \ {d} /\ UNCHANGED docs
      /\ UNCHANGED <<grade, course, rollCall, clock, editor, saver, holiday, mixed>>
-----------------------------------------------------------------------------
(* save_schedule reads the course, its meetings and its sessions, and then *)
(* every other course, before it looks at the clock.                       *)
SaveGetCourse(v, ask, confirm) ==
  /\ MayStart
  /\ saver[v].pc = "idle"
  /\ saver' = [saver EXCEPT ![v] = [IdleSaver EXCEPT !.pc = "meetings",
                 !.ask = ask, !.confirm = confirm, !.course = course]]
  /\ UNCHANGED <<docs, grade, course, rollCall, clock, fresh,
                 editor, delivery, holiday, mixed>>

SaveListMeetings(v) ==
  /\ saver[v].pc = "meetings"
  /\ saver' = [saver EXCEPT ![v].pc = "sessions", ![v].grade = grade]
  /\ UNCHANGED <<docs, grade, course, rollCall, clock, fresh,
                 editor, delivery, holiday, mixed>>

SaveListSessions(v) ==
  /\ saver[v].pc = "sessions"
  /\ saver' = [saver EXCEPT ![v].pc = "decide", ![v].docs = docs]
  /\ UNCHANGED <<docs, grade, course, rollCall, clock, fresh,
                 editor, delivery, holiday, mixed>>

(* Mutant: a stored session is never brought to the new schedule. *)
KeptStored(l, s) == l.docs[s] # NoDoc

(* Mutant: a session with attendance is brought to the new schedule. *)
KeptUnlessEvidence(l, s) == l.docs[s] # NoDoc /\ l.docs[s].slot = DesiredSlot(l.ask, s)

(* _reconcile_sessions: a session that already has the slot, or has        *)
(* attendance, is left alone.                                              *)
Kept(l, s) ==
  /\ l.docs[s] # NoDoc
  /\ l.docs[s].slot = DesiredSlot(l.ask, s) \/ HasEvidence(l.docs[s])

Upserts(l) == {s \in Desired(l.ask) : ~Kept(l, s)}
Obsolete(l) == {s \in Session : l.docs[s] # NoDoc} \ Desired(l.ask)

(* _is_protected: the sessions whose deletion has to be confirmed. *)
Protected(doc) == HasEvidence(doc) \/ doc.calendar # "scheduled"
Destructive(l) == {s \in Obsolete(l) : Protected(l.docs[s])}

(* build_schedule_plan refuses the schedule, the deletion of protected     *)
(* sessions has to be confirmed, or there is something to commit.          *)
SaveDecide(v) ==
  LET l == saver[v] IN
  /\ l.pc = "decide"
  /\ saver' = [saver EXCEPT ![v] =
       IF ~Consistent(l.ask) \/ (Destructive(l) # {} /\ ~l.confirm) THEN IdleSaver
       ELSE [l EXCEPT !.pc = "commit", !.at = clock]]
  /\ UNCHANGED <<docs, grade, course, rollCall, clock, fresh,
                 editor, delivery, holiday, mixed>>

(* Mutant: the creation of a session that moves is not kept. *)
GeneratedAnew(l, s) ==
  LET new == Blank(DesiredSlot(l.ask, s), l.at) IN
  IF l.docs[s] = NoDoc THEN new ELSE [new EXCEPT !.calendar = l.docs[s].calendar]

(* The whole documents a commit writes: what is not generated anew is      *)
(* copied from the session as it was read.                                 *)
Generated(l, s) ==
  LET new == Blank(DesiredSlot(l.ask, s), l.at) IN
  IF l.docs[s] = NoDoc THEN new
  ELSE [new EXCEPT !.calendar = l.docs[s].calendar, !.created = l.docs[s].created]

MeetingChanged(l, m) == l.grade[m] = NoDoc \/ l.grade[m].config # l.ask.meetings[m]
MeetingUpserts(l) == {m \in DOMAIN l.ask.meetings : MeetingChanged(l, m)}
MeetingDeletes(l) == {m \in Meeting : l.grade[m] # NoDoc} \ DOMAIN l.ask.meetings
MeetingWritten(l, m) ==
  [config |-> l.ask.meetings[m], updated |-> l.at,
   created |-> IF l.grade[m] = NoDoc THEN l.at ELSE l.grade[m].created]

CourseChanged(l) == l.course.days # l.ask.days

CommitAllowed(l) ==
  /\ \A s \in Upserts(l) : SessionAllowed(docs[s], Generated(l, s))
  /\ \A m \in MeetingUpserts(l) : MeetingAllowed(grade[m], MeetingWritten(l, m))
  /\ CourseChanged(l) => l.at >= course.updated

(* One atomic commit without preconditions; the rules refuse all of it or  *)
(* nothing.                                                                *)
SaveCommit(v) ==
  LET l == saver[v]
      gone == Obsolete(l)
      new == Upserts(l)
  IN  /\ l.pc = "commit"
      /\ saver' = [saver EXCEPT ![v] = IdleSaver]
      /\ IF CommitAllowed(l)
         THEN /\ docs' = [s \in Session |-> IF s \in new THEN Generated(l, s)
                                            ELSE IF s \in gone THEN NoDoc ELSE docs[s]]
              /\ grade' = [m \in Meeting |->
                             IF m \in MeetingUpserts(l) THEN MeetingWritten(l, m)
                             ELSE IF m \in MeetingDeletes(l) THEN NoDoc ELSE grade[m]]
              /\ course' = IF CourseChanged(l)
                           THEN [days |-> l.ask.days, updated |-> l.at] ELSE course
              /\ fresh' = fresh \ Stale(new \cup gone)
              /\ mixed' = (mixed \/ Replacing \ {v} # {} \/ OnHolidays # {})
         ELSE UNCHANGED <<docs, grade, course, fresh, mixed>>
      /\ UNCHANGED <<rollCall, clock, editor, delivery, holiday>>
-----------------------------------------------------------------------------
(* OfficialCalendarService.apply: every requested session is a candidate   *)
(* of the preview it computes again.                                       *)
HolidayPreview(h, S) ==
  /\ MayStart
  /\ holiday[h].pc = "idle" /\ S # {}
  /\ \A s \in S : docs[s] # NoDoc /\ docs[s].calendar = "scheduled"
  /\ holiday' = [holiday EXCEPT ![h] = [IdleHoliday EXCEPT !.pc = "now", !.todo = S]]
  /\ UNCHANGED <<docs, grade, course, rollCall, clock, fresh,
                 editor, delivery, saver, mixed>>

(* apply_holidays looks at the clock before it reads. *)
HolidayNow(h) ==
  /\ holiday[h].pc = "now"
  /\ holiday' = [holiday EXCEPT ![h].pc = "get", ![h].at = clock,
                   ![h].seen = [s \in holiday[h].todo |-> NoDoc]]
  /\ UNCHANGED <<docs, grade, course, rollCall, clock, fresh,
                 editor, delivery, saver, mixed>>

(* One session after the other; one that is gone or no longer scheduled    *)
(* ends the call.                                                          *)
HolidayGet(h, s) ==
  LET l == holiday[h] IN
  /\ l.pc = "get" /\ s \in l.todo
  /\ holiday' = [holiday EXCEPT ![h] =
       IF docs[s] = NoDoc THEN IdleHoliday
       ELSE IF docs[s].calendar # "scheduled" THEN IdleHoliday
       ELSE [l EXCEPT !.todo = @ \ {s}, !.seen[s] = docs[s],
                      !.pc = IF l.todo = {s} THEN "commit" ELSE "get"]]
  /\ UNCHANGED <<docs, grade, course, rollCall, clock, fresh,
                 editor, delivery, saver, mixed>>

OnHoliday(l, s) == [l.seen[s] EXCEPT !.calendar = "holiday", !.updated = l.at]

(* The whole document as it was read, in one commit. *)
HolidayCommit(h) ==
  LET l == holiday[h]
      W == DOMAIN l.seen
  IN  /\ l.pc = "commit"
      /\ holiday' = [holiday EXCEPT ![h] = IdleHoliday]
      /\ IF \A s \in W : SessionAllowed(docs[s], OnHoliday(l, s))
         THEN /\ docs' = [s \in Session |-> IF s \in W THEN OnHoliday(l, s) ELSE docs[s]]
              /\ fresh' = fresh \ Stale(W)
              /\ mixed' = (mixed \/ Replacing # {})
         ELSE UNCHANGED <<docs, fresh, mixed>>
      /\ UNCHANGED <<grade, course, rollCall, clock, editor, delivery, saver>>
-----------------------------------------------------------------------------
(* Any invocation may end: a failed request, a crash, a time limit. *)
Abort ==
  /\ \/ \E e \in Editor : /\ editor[e].pc # "idle"
                          /\ editor' = [editor EXCEPT ![e] = IdleEditor]
                          /\ UNCHANGED <<delivery, saver, holiday, fresh>>
     \/ \E d \in Delivery : /\ delivery[d].pc # "idle"
                            /\ delivery' = [delivery EXCEPT ![d] = IdleDelivery]
                            /\ fresh' = fresh \ {d}
                            /\ UNCHANGED <<editor, saver, holiday>>
     \/ \E v \in Saver : /\ saver[v].pc # "idle"
                         /\ saver' = [saver EXCEPT ![v] = IdleSaver]
                         /\ UNCHANGED <<editor, delivery, holiday, fresh>>
     \/ \E h \in Holiday : /\ holiday[h].pc # "idle"
                           /\ holiday' = [holiday EXCEPT ![h] = IdleHoliday]
                           /\ UNCHANGED <<editor, delivery, saver, fresh>>
  /\ UNCHANGED <<docs, grade, course, rollCall, clock, mixed>>

Tick ==
  /\ clock < MAXTIME /\ clock' = clock + 1
  /\ UNCHANGED <<docs, grade, course, rollCall, fresh,
                 editor, delivery, saver, holiday, mixed>>

EditorStep(e) ==
  \/ \E s \in Session, c \in Change : EditGet(e, s, c)
  \/ EditDecide(e) \/ EditPatch(e)

DeliveryStep(d) ==
  \/ \E s \in Session, x \in Evidence : CheckpointGet(d, s, x)
  \/ CheckpointDecide(d) \/ CheckpointPatch(d)

SaverStep(v) ==
  \/ \E ask \in Schedule, b \in BOOLEAN : SaveGetCourse(v, ask, b)
  \/ SaveListMeetings(v) \/ SaveListSessions(v) \/ SaveDecide(v) \/ SaveCommit(v)

HolidayStep(h) ==
  \/ \E S \in SUBSET Session : HolidayPreview(h, S)
  \/ HolidayNow(h) \/ HolidayCommit(h)
  \/ \E s \in Session : HolidayGet(h, s)

Next ==
  \/ \E e \in Editor : EditorStep(e)
  \/ \E d \in Delivery : DeliveryStep(d)
  \/ \E v \in Saver : SaverStep(v)
  \/ \E h \in Holiday : HolidayStep(h)
  \/ Abort
  \/ Tick

Spec == Init /\ [][Next]_vars
-----------------------------------------------------------------------------
EditorState ==
  [pc : {"idle", "decide", "patch"}, session : Session \cup {NoSession},
   change : Change \cup {NoDoc}, seen : SessionDoc \cup {NoDoc}, at : Time]
DeliveryState ==
  [pc : {"idle", "decide", "patch"}, session : Session \cup {NoSession},
   evidence : Evidence \cup {NoDoc}, seen : SessionDoc \cup {NoDoc}, at : Time]
CourseDoc == [days : SUBSET Day, updated : Time]
Grade == [Meeting -> MeetingDoc \cup {NoDoc}]
Docs == [Session -> SessionDoc \cup {NoDoc}]
SaverState ==
  [pc : {"idle", "meetings", "sessions", "decide", "commit"},
   ask : Schedule \cup {NoDoc}, confirm : BOOLEAN, course : CourseDoc \cup {NoDoc},
   grade : Grade \cup {NoDoc}, docs : Docs \cup {NoDoc}, at : Time]
HolidayState(S) ==
  [pc : {"idle", "now", "get", "commit"}, todo : SUBSET Session, at : Time,
   seen : [S -> SessionDoc \cup {NoDoc}] \cup {NoDoc}]

TypeOK ==
  /\ docs \in Docs /\ grade \in Grade /\ course \in CourseDoc
  /\ rollCall \in BOOLEAN /\ clock \in Time /\ fresh \subseteq Delivery
  /\ mixed \in BOOLEAN
  /\ editor \in [Editor -> EditorState] /\ delivery \in [Delivery -> DeliveryState]
  /\ saver \in [Saver -> SaverState]
  /\ holiday = [h \in Holiday |-> holiday[h]]
  /\ \A h \in Holiday : \E S \in SUBSET Session : holiday[h] \in HolidayState(S)

(* What an invocation under way has read, and what it decided from that. *)
EditorKnows ==
  \A e \in Editor : editor[e].pc # "idle" =>
    /\ editor[e].session \in Session /\ editor[e].change \in Change
    /\ editor[e].seen \in SessionDoc
DeliveryKnows ==
  \A d \in Delivery : delivery[d].pc # "idle" =>
    /\ delivery[d].session \in Session /\ delivery[d].evidence \in Evidence
    /\ delivery[d].seen \in SessionDoc
    /\ delivery[d].pc = "patch" =>
         Outcome(delivery[d].seen, delivery[d].evidence, delivery[d].at) = "applied"
SaverKnows ==
  \A v \in Saver : saver[v].pc # "idle" =>
    /\ saver[v].ask \in Schedule /\ saver[v].course \in CourseDoc
    /\ saver[v].pc # "meetings" => saver[v].grade \in Grade
    /\ saver[v].pc \in {"decide", "commit"} => saver[v].docs \in Docs
    /\ saver[v].pc = "commit" => Destructive(saver[v]) = {} \/ saver[v].confirm
Informed(l) ==
  l.pc \in {"get", "commit"} =>
    /\ DOMAIN l.seen \subseteq Session /\ l.todo \subseteq DOMAIN l.seen
    /\ l.seen \in [DOMAIN l.seen -> SessionDoc \cup {NoDoc}]
    /\ \A s \in DOMAIN l.seen \ l.todo : l.seen[s] \in SessionDoc
    /\ l.pc = "commit" => l.todo = {}
HolidayKnows == \A h \in Holiday : Informed(holiday[h])
FreshIsCurrent ==
  \A d \in fresh : /\ delivery[d].pc # "idle"
                   /\ docs[delivery[d].session] = delivery[d].seen
Knowledge ==
  EditorKnows /\ DeliveryKnows /\ SaverKnows /\ HolidayKnows /\ FreshIsCurrent

Stored(s) == docs[s] # NoDoc
Changes(s) == docs'[s] # docs[s]

(* The rules refuse a call's write only when something else was written    *)
(* between what the call read, or for holidays the look at the clock that  *)
(* comes before their reads, and that write. Otherwise the call would be   *)
(* refused whenever it is repeated: a session whose stored attendance,     *)
(* creation or time does not fit what the handlers compute could never be  *)
(* edited, moved or given a holiday again, nor the batch it is in.         *)
EditRefusedForCause(l) ==
  LET old == docs[l.session] IN
  l.pc = "patch" /\ old = l.seen => SessionAllowed(old, Edited(old, l))
CheckpointRefusedForCause(d) ==
  LET l == delivery[d]
      old == docs[l.session]
  IN  l.pc = "patch" /\ RevisionHolds(d)
        => old # NoDoc /\ SessionAllowed(old, Classified(old, l))
SaveRefusedForCause(l) ==
  l.pc = "commit" =>
    /\ \A s \in Upserts(l) : docs[s] = l.docs[s] => SessionAllowed(docs[s], Generated(l, s))
    /\ \A m \in MeetingUpserts(l) :
         grade[m] = l.grade[m] => MeetingAllowed(grade[m], MeetingWritten(l, m))
    /\ CourseChanged(l) /\ course = l.course => l.at >= course.updated
HolidayRefusedForCause(l) ==
  l.pc = "commit" => \A s \in DOMAIN l.seen :
    docs[s] = l.seen[s] /\ docs[s].updated <= l.at
      => SessionAllowed(docs[s], OnHoliday(l, s))
RefusalHasCause ==
  /\ \A e \in Editor : EditRefusedForCause(editor[e])
  /\ \A d \in Delivery : CheckpointRefusedForCause(d)
  /\ \A v \in Saver : SaveRefusedForCause(saver[v])
  /\ \A h \in Holiday : HolidayRefusedForCause(holiday[h])

(* Attendance the device settled counts as absent just the calls whose     *)
(* ping was captured off campus; a ping that could not be captured never   *)
(* makes an absence, nor does a ping meant for another configuration.      *)
AwayPings(doc) == {m \in {"first", "second"} : doc[m] = "fora"}
EvidenceBacked(doc) ==
  ~doc.byHand /\ doc.status # None =>
    IF doc.slot.calls = 2
    THEN /\ "indisponivel" \notin {doc.first, doc.second}
         /\ doc.absences = (doc.slot.lessons \div 2) * Cardinality(AwayPings(doc))
    ELSE doc.absences = IF Cardinality(AwayPings(doc)) = 2 THEN doc.slot.lessons ELSE 0
AbsenceHasEvidence == \A s \in Session : Stored(s) => EvidenceBacked(docs[s])

(* A checkpoint is only ever written on a session that has no attendance,  *)
(* takes a roll call and is the one the device was told about.             *)
CheckpointIsFirst(d) ==
  delivery[d].pc = "patch" /\ delivery'[d] # delivery[d] =>
    \A s \in Session : Changes(s) =>
      /\ Stored(s) /\ ~HasEvidence(docs[s])
      /\ docs[s].calendar \in RollCallStatus
      /\ docs[s].slot = delivery[d].evidence.slot
CheckpointIsFirstStep == \A d \in Delivery : CheckpointIsFirst(d)
CheckpointFillsBlank == [][CheckpointIsFirstStep]_vars

(* Attendance is lost to a schedule or a holiday only when it was stored   *)
(* after that call had read the session, or when the deletion was          *)
(* confirmed.                                                              *)
SameAttendance(old, new) ==
  /\ new # NoDoc
  /\ \A f \in {"first", "second", "status", "absences"} : old[f] = new[f]
SaverMayLose(v, s) ==
  /\ saver[v].pc = "commit" /\ saver'[v].pc = "idle"
  /\ saver[v].docs[s] # docs[s] \/ (docs'[s] = NoDoc /\ saver[v].confirm)
HolidayMayLose(h, s) ==
  /\ holiday[h].pc = "commit" /\ holiday'[h].pc = "idle"
  /\ holiday[h].seen[s] # docs[s]
Edits(e, s) == editor[e].pc = "patch" /\ editor[e].session = s /\ editor'[e].pc = "idle"
LossStep ==
  \A s \in Session : Stored(s) /\ HasEvidence(docs[s]) =>
    \/ SameAttendance(docs[s], docs'[s])
    \/ \E e \in Editor : Edits(e, s)
    \/ \E v \in Saver : SaverMayLose(v, s)
    \/ \E h \in Holiday : HolidayMayLose(h, s)
LossHasCause == [][LossStep]_vars

(* The sessions are those the stored period and meetings generate, at the  *)
(* time and configuration of their meeting unless attendance keeps them    *)
(* where they were, and the meetings never overlap: whatever edits,        *)
(* checkpoints, refusals and deaths there are, and in whatever order       *)
(* replacements and holidays follow each other, until one of them was      *)
(* committed while another that may have read was under way.               *)
Timetable == {s \in Session : s[1] \in course.days /\ grade[s[2]] # NoDoc}
Complete ==
  /\ {s \in Session : Stored(s)} = Timetable
  /\ \A s \in Timetable :
       HasEvidence(docs[s]) \/ docs[s].slot = SlotOf(s[1], grade[s[2]].config)
  /\ \A m1, m2 \in Meeting :
       m1 # m2 /\ NoDoc \notin {grade[m1], grade[m2]}
         => ~Overlap(grade[m1].config, grade[m2].config)
ScheduleComplete == mixed \/ Complete
=============================================================================

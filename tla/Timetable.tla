----------------------------- MODULE Timetable -----------------------------
(***************************************************************************)
(* The courses of one user and their weekly meetings, and the calls that   *)
(* write them: the import of SIGA's enrollments (ufmg_course_import.py and *)
(* ufmg_schedule_import.py, one after the other as ufmg_sync.py runs them),*)
(* the user's schedules (schedule_repository.py) and the user's courses    *)
(* (course_repository.py).  The sessions a schedule generates are in       *)
(* CourseSessions; here a schedule may be refused for what it would        *)
(* delete.  Instants of audit fields are left out: a document created on   *)
(* top of a stored one is refused, and any other write may be (Kill).      *)
(***************************************************************************)
EXTENDS Integers, FiniteSets

CONSTANTS
    NCourses,    \* course documents there can be, 1..NCourses
    Codes,       \* course codes, in their order
    Terms,       \* semesters, in their order
    ImportedId,  \* "ufmg-2026-2-dcc001" of a semester and a code
    Own,         \* identifiers of meetings the user made
    Hours,       \* start and end of a class, on the one weekday there is
    TERM,        \* days of a semester
    GRACE,       \* days a schedule can be changed after its course: 30
    Worlds,      \* bound: courses and meetings a behaviour starts with
    Entered,     \* bound: the courses the user saves
    Asks,        \* bound: the schedules the user saves
    Portals,     \* bound: the enrollments SIGA may show
    Calls,       \* invocations that may be under way at once
    Mixes,       \* bound: what each invocation may do in a behaviour
    None,        \* nothing there
    First, Last  \* the day a behaviour starts with, and the bound of the calendar

Ids == 1..NCourses

ASSUME OrderAssumption == Codes \subseteq Nat /\ Terms \subseteq Nat
ASSUME IdsAssumption == NCourses \in Nat /\ ImportedId \in [Terms \X Codes -> Ids]
ASSUME DaysAssumption == {First, Last, GRACE} \subseteq Nat /\ TERM \in Nat \ {0}
ASSUME HoursAssumption == Hours \subseteq [start : Nat, end : Nat]

VARIABLES
    courses,   \* the course documents
    meetings,  \* their meeting documents: hours by identifier
    call,      \* what each invocation is doing
    today,     \* datetime.now(UTC).date()
    mix,       \* what each invocation may do in this behaviour
    apart,     \* history: every write was decided from what was stored
    moved      \* history: courses saved with other days since their schedule was

vars == <<courses, meetings, call, today, mix, apart, moved>>

(* An imported meeting is named for its hours. *)
Names == Own \union Hours

(* A mutant: an imported meeting the user changed still counts as one.     *)
IsImportedName(name, hours) == name \in Hours

IsImported(name, hours) == name = hours

(* What is stored of a course and of its week, and what SIGA shows of one. *)
Periods == [first : Nat, last : Nat]
Docs == [code : Codes, term : Terms, workload : Nat, online : BOOLEAN, period : Periods \union {None}]
Weeks == [Names -> Hours \union {None}]
Enrollments == [code : Codes, term : Terms, workload : Nat, hours : SUBSET Hours, period : Periods]

There(s) == {c \in Ids : s[c] # None}
Of(w) == {n \in Names : w[n] # None}
Overlap(a, b) == a.start < b.end /\ b.start < a.end

-----------------------------------------------------------------------------
(* Semesters and periods, in days. *)
TermDates(t) == [first |-> TERM * t, last |-> TERM * t + TERM - 1]
EffectivePeriod(c) == IF c.period = None THEN TermDates(c.term) ELSE c.period
Apart(p, q) == p.first > q.last \/ q.first > p.last
Semester(day) == day \div TERM
Mutable(t, day) == t \in {Semester(day), Semester(day) + 1}

Earlier(a, b) == IF a < b THEN a ELSE b

(* _require_retained_course *)
Retained(c, day) ==
    \/ Mutable(c.term, day)
    \/ /\ c.term = Semester(day) - 1
       /\ day < Earlier(EffectivePeriod(c).last, TermDates(c.term).last) + GRACE

(* A mutant: the period the course has is compared, not the one asked for. *)
RejectsBefore(c, asked, s, w) ==
    \E d \in There(s) \ {c} :
        /\ ~s[d].online
        /\ ~Apart(EffectivePeriod(s[c]), EffectivePeriod(s[d]))
        /\ \E n \in DOMAIN asked.weekly, m \in Of(w[d]) : Overlap(asked.weekly[n], w[d][m])

(* _reject_external_overlap, of the other courses s and their meetings w. *)
Rejects(c, asked, s, w) ==
    \E d \in There(s) \ {c} :
        /\ ~s[d].online
        /\ ~Apart(asked.period, EffectivePeriod(s[d]))
        /\ \E n \in DOMAIN asked.weekly, m \in Of(w[d]) : Overlap(asked.weekly[n], w[d][m])

(* build_schedule_plan: InvalidSchedule, or ScheduleOverlap. *)
Invalid(own, asked, day) ==
    \/ ~Retained(own, day)
    \/ DOMAIN asked.weekly # {} /\ asked.period = None
    \/ asked.period # None /\ \/ asked.period.first < TermDates(own.term).first
                              \/ asked.period.last > TermDates(own.term).last
Overlaps(c, asked, s, w) ==
    \/ \E m, n \in DOMAIN asked.weekly : m # n /\ Overlap(asked.weekly[m], asked.weekly[n])
    \/ DOMAIN asked.weekly # {} /\ Rejects(c, asked, s, w)

-----------------------------------------------------------------------------
(* No two of the courses s have one code. *)
DistinctCodes(s) == \A c, d \in There(s) : s[c].code = s[d].code => c = d

(* No class of the course c is at an hour of one of d's. *)
Clear(s, w, c, d) ==
    /\ ~s[c].online /\ ~s[d].online
    /\ ~Apart(EffectivePeriod(s[c]), EffectivePeriod(s[d]))
    => \A m \in Of(w[c]), n \in Of(w[d]) : ~Overlap(w[c][m], w[d][n])

ASSUME NoneAssumption == None \notin Docs \union Periods \union Hours \union Codes
ASSUME WorldsAssumption ==
    \A w \in Worlds :
        /\ w.courses \in [Ids -> Docs \union {None}] /\ w.meetings \in [Ids -> Weeks]
        /\ DistinctCodes(w.courses)
        /\ \A c, d \in There(w.courses) : c # d => Clear(w.courses, w.meetings, c, d)
ASSUME EnteredAssumption == \A p \in Entered : p.id \in Ids /\ p.doc \in Docs
ASSUME AsksAssumption ==
    \A p \in Asks : /\ p.id \in Ids /\ p.asked.period \in Periods \union {None}
                    /\ \A n \in DOMAIN p.asked.weekly : n \in Names /\ p.asked.weekly[n] \in Hours
(* SIGA's list is kept by code. *)
ASSUME PortalsAssumption ==
    \A portal \in Portals : /\ portal \subseteq Enrollments
                            /\ \A e, f \in portal : e.code = f.code => e = f

-----------------------------------------------------------------------------
Idle == [kind |-> "none", pc |-> "idle", c |-> 0, arg |-> None, todo |-> {}, snap |-> None,
         first |-> None, others |-> None, own |-> None, mine |-> None, refused |-> {},
         alone |-> TRUE,    \* history: nobody else wrote since it began
         recoded |-> {}]    \* history: courses others coded since it read them
Starts(k, kind) == call[k] = Idle /\ kind \in mix[k]
At(k, kind, pc) == call[k].kind = kind /\ call[k].pc = pc
Become(k, x) == call' = [call EXCEPT ![k] = x]
CodeOf(s, c) == IF s[c] = None THEN None ELSE s[c].code
Recoded(c) == IF CodeOf(courses', c) # CodeOf(courses, c) THEN {c} ELSE {}
Wrote(k, c, x) ==
    call' = [j \in Calls |-> IF j = k THEN x
                             ELSE IF call[j] = Idle THEN Idle
                             ELSE [call[j] EXCEPT !.alone = FALSE, !.recoded = @ \union Recoded(c)]]
Least(S) == CHOOSE c \in S : \A d \in S : c <= d
LastOf(S) == CHOOSE c \in S : \A d \in S : c >= d  \* what a dict of a list keeps
Unread == [c \in Ids |-> [n \in Names |-> None]]

Init ==
    /\ \E w \in Worlds : courses = w.courses /\ meetings = w.meetings
    /\ call = [k \in Calls |-> Idle]
    /\ today = First /\ mix \in Mixes
    /\ apart = TRUE /\ moved = {}

-----------------------------------------------------------------------------
(* save_course, of the list of courses its repository holds. *)

Duplicate(s, c, code) == \E d \in There(s) \ {c} : s[d].code = code

Saveable(s, c, doc) == ~Duplicate(s, c, doc.code) /\ (s[c] = None => Mutable(doc.term, today))

(* firestore.rules: the creation of a stored course stays. *)
Allowed(s, c) == s[c] = None => courses[c] = None

Days(doc) == <<doc.term, doc.period, doc.online>>
Moved(c, doc) == IF courses[c] = None \/ Days(courses[c]) # Days(doc) THEN moved \union {c} ELSE moved

BeginCourse(k, c, doc) ==
    /\ Starts(k, "course")
    /\ Become(k, [Idle EXCEPT !.kind = "course", !.pc = "save", !.c = c, !.arg = doc, !.snap = courses])
    /\ UNCHANGED <<courses, meetings, today, mix, apart, moved>>

SaveCourse(k) ==
    LET x == call[k] IN
    /\ At(k, "course", "save")
    /\ IF Saveable(x.snap, x.c, x.arg) /\ Allowed(x.snap, x.c)
       THEN /\ courses' = [courses EXCEPT ![x.c] = x.arg]
            /\ Wrote(k, x.c, Idle)
            /\ moved' = Moved(x.c, x.arg)
            /\ apart' = (apart /\ x.snap = courses)
       ELSE Become(k, Idle) /\ UNCHANGED <<courses, moved, apart>>
    /\ UNCHANGED <<meetings, today, mix>>

-----------------------------------------------------------------------------
(* import_enrollments of the courses: SIGA's courses there are none of yet,*)
(* and those whose workload is the placeholder 1.                          *)

Coded(s, code) == {c \in There(s) : s[c].code = code}
Enrollment(portal, code) == CHOOSE e \in portal : e.code = code
ToSave(s, portal) ==
    {e.code : e \in {f \in portal : \/ Coded(s, f.code) = {}
                                    \/ s[LastOf(Coded(s, f.code))].workload = 1 /\ f.workload # 1}}
Target(s, e) == IF Coded(s, e.code) = {} THEN ImportedId[e.term, e.code] ELSE LastOf(Coded(s, e.code))
Enrolled(s, e) ==
    IF Coded(s, e.code) = {}
    THEN [code |-> e.code, term |-> e.term, workload |-> e.workload, online |-> FALSE, period |-> None]
    ELSE [s[Target(s, e)] EXCEPT !.workload = e.workload]

Finished(x) == [Idle EXCEPT !.kind = "siga", !.pc = "done", !.arg = x.arg, !.refused = x.refused,
                            !.alone = x.alone]

(* The meetings are listed of every course there is in its list. *)
ToMeetings(x) ==
    LET y == [x EXCEPT !.first = None, !.todo = There(x.snap), !.recoded = {}] IN
    IF y.todo = {} THEN Finished(y) ELSE [y EXCEPT !.pc = "meetings"]

BeginSiga(k, portal) ==
    LET x == [Idle EXCEPT !.kind = "siga", !.arg = portal, !.snap = courses, !.first = courses,
                          !.others = Unread]
        codes == ToSave(courses, portal)
    IN  /\ Starts(k, "siga")
        /\ Become(k, IF codes = {} THEN ToMeetings(x) ELSE [x EXCEPT !.pc = "save", !.todo = codes])
        /\ UNCHANGED <<courses, meetings, today, mix, apart, moved>>

(* What is saved is decided from the first list, and whether it may be     *)
(* from the repository's present one, which a save forgets.                *)
SaveEnrollment(k) ==
    LET x == call[k]
        code == Least(x.todo)
        e == Enrollment(x.arg, code)
        c == Target(x.first, e)
        doc == Enrolled(x.first, e)
        created == Coded(x.first, code) = {}
    IN  /\ At(k, "siga", "save")
        /\ IF /\ Saveable(x.snap, c, doc)
              /\ created => courses[c] = None
           THEN /\ courses' = [courses EXCEPT ![c] = doc]
                /\ Wrote(k, c, [x EXCEPT !.pc = "list", !.todo = @ \ {code}])
                /\ moved' = Moved(c, doc)
                /\ apart' = (apart /\ x.snap = courses /\ (~created => x.first[c] = courses[c]))
           ELSE Become(k, Idle) /\ UNCHANGED <<courses, moved, apart>>
        /\ UNCHANGED <<meetings, today, mix>>

(* A mutant: the list is kept although a course was saved.                 *)
ListAgainKept(k) ==
    LET x == [call[k] EXCEPT !.recoded = {}] IN
    /\ At(k, "siga", "list")
    /\ Become(k, IF x.todo = {} THEN ToMeetings(x) ELSE [x EXCEPT !.pc = "save"])
    /\ UNCHANGED <<courses, meetings, today, mix, apart, moved>>

ListAgain(k) ==
    LET x == [call[k] EXCEPT !.snap = courses, !.recoded = {}] IN
    /\ At(k, "siga", "list")
    /\ Become(k, IF x.todo = {} THEN ToMeetings(x) ELSE [x EXCEPT !.pc = "save"])
    /\ UNCHANGED <<courses, meetings, today, mix, apart, moved>>

-----------------------------------------------------------------------------
(* import_enrollments of the schedules. *)

Requested(e) == [h \in e.hours |-> h]
Dates(doc, e) == IF doc.period \in {None, TermDates(doc.term)} THEN e.period ELSE doc.period

Manual(w) == {n \in Of(w) : ~IsImported(n, w[n])}
Matching(s, e) == {c \in There(s) : s[c].code = e.code /\ s[c].term = e.term}

(* A course SIGA shows, without meetings of the user's own, that differs. *)
Differs(s, w, c, e) ==
    /\ ~s[c].online
    /\ Manual(w[c]) = {}
    /\ \/ [n \in Of(w[c]) |-> w[c][n]] # Requested(e)
       \/ s[c].period # Dates(s[c], e)
ToReconcile(s, w, portal) ==
    {e.code : e \in {f \in portal : Matching(s, f) # {} /\ Differs(s, w, LastOf(Matching(s, f)), f)}}

NextCourse(x, codes) ==
    IF codes = {} THEN Finished(x)
    ELSE [x EXCEPT !.pc = "get", !.todo = codes, !.own = None, !.mine = None,
                   !.c = LastOf(Matching(x.snap, Enrollment(x.arg, Least(codes))))]

(* Meetings are listed one course after another. *)
ListMeetings(k) ==
    LET d == Least(call[k].todo)
        x == [call[k] EXCEPT !.others[d] = meetings[d], !.todo = @ \ {d}]
    IN  /\ call[k].pc = "meetings"
        /\ Become(k, IF x.todo # {} THEN x
                     ELSE IF x.kind = "schedule" THEN [x EXCEPT !.pc = "commit"]
                     ELSE NextCourse(x, ToReconcile(x.snap, x.others, x.arg)))
        /\ UNCHANGED <<courses, meetings, today, mix, apart, moved>>

(* save_import_schedule reads the course and its meetings again. *)
GetCourse(k) ==
    /\ At(k, "siga", "get")
    /\ Become(k, [call[k] EXCEPT !.pc = "mine", !.own = courses[call[k].c],
                                 !.recoded = {}])
    /\ UNCHANGED <<courses, meetings, today, mix, apart, moved>>

ListMine(k) ==
    /\ call[k].pc = "mine"
    /\ Become(k, [call[k] EXCEPT !.mine = meetings[call[k].c],
                                 !.pc = IF call[k].kind = "siga" THEN "commit" ELSE "courses"])
    /\ UNCHANGED <<courses, meetings, today, mix, apart, moved>>

(* A mutant: meetings the schedule does not have any more stay.            *)
ReplacedKept(c, x, asked) ==
    [meetings EXCEPT ![c] = [n \in Names |-> IF n \in DOMAIN asked.weekly THEN asked.weekly[n]
                                             ELSE meetings[c][n]]]

(* The commit of a schedule: meetings that differ from those read, the     *)
(* deletion of those not asked for, and the course if its period changes.  *)
Replaced(c, x, asked) ==
    [meetings EXCEPT ![c] = [n \in Names |->
        IF n \in DOMAIN asked.weekly /\ x.mine[n] # asked.weekly[n] THEN asked.weekly[n]
        ELSE IF n \notin DOMAIN asked.weekly /\ x.mine[n] # None THEN None
        ELSE meetings[c][n]]]

StillAsRead(x) ==
    /\ x.own = courses[x.c] /\ x.mine = meetings[x.c]
    /\ \A d \in Ids \ {x.c} : x.snap[d] = courses[d] /\ x.others[d] = meetings[d]

Write(x, asked) ==
    /\ meetings' = Replaced(x.c, x, asked)
    /\ courses' = IF x.own.period = asked.period THEN courses
                  ELSE [courses EXCEPT ![x.c] = [x.own EXCEPT !.period = asked.period]]
    /\ moved' = moved \ {x.c}
    /\ apart' = (apart /\ StillAsRead(x))

(* destructive: there are sessions whose deletion was not confirmed. *)
CommitImport(k, destructive) ==
    LET x == call[k]
        codes == x.todo \ {Least(x.todo)}
        e == Enrollment(x.arg, Least(x.todo))
        asked == [weekly |-> Requested(e), period |-> Dates(x.snap[x.c], e)]
    IN  /\ At(k, "siga", "commit")
        /\ IF Invalid(x.own, asked, today)
           THEN Become(k, Idle) /\ UNCHANGED <<courses, meetings, moved, apart>>
           ELSE IF Overlaps(x.c, asked, x.snap, x.others) \/ destructive
           THEN /\ Become(k, NextCourse([x EXCEPT !.refused = @ \union {x.c}], codes))
                /\ UNCHANGED <<courses, meetings, moved, apart>>
           ELSE /\ Write(x, asked)
                /\ Wrote(k, x.c, NextCourse([x EXCEPT !.snap[x.c] = [x.own EXCEPT !.period = asked.period],
                               !.others[x.c] = [n \in Names |-> IF n \in DOMAIN asked.weekly
                                                                THEN asked.weekly[n] ELSE None]],
                             codes))
        /\ UNCHANGED <<today, mix>>

EndSiga(k) ==
    /\ At(k, "siga", "done")
    /\ Become(k, Idle)
    /\ UNCHANGED <<courses, meetings, today, mix, apart, moved>>

-----------------------------------------------------------------------------
(* save_schedule: the course, its meetings, and then every other course    *)
(* and its meetings.                                                       *)
BeginSchedule(k, c, asked) ==
    /\ Starts(k, "schedule")
    /\ courses[c] # None
    /\ Become(k, [Idle EXCEPT !.kind = "schedule", !.pc = "mine", !.c = c, !.arg = asked,
                              !.own = courses[c], !.others = Unread])
    /\ UNCHANGED <<courses, meetings, today, mix, apart, moved>>

ListCourses(k) ==
    LET x == [call[k] EXCEPT !.snap = courses, !.todo = There(courses) \ {call[k].c}] IN
    /\ At(k, "schedule", "courses")
    /\ Become(k, [x EXCEPT !.pc = IF x.todo = {} THEN "commit" ELSE "meetings"])
    /\ UNCHANGED <<courses, meetings, today, mix, apart, moved>>

CommitSchedule(k) ==
    LET x == call[k] IN
    /\ At(k, "schedule", "commit")
    /\ IF Invalid(x.own, x.arg, today) \/ Overlaps(x.c, x.arg, x.snap, x.others)
       THEN Become(k, Idle) /\ UNCHANGED <<courses, meetings, moved, apart>>
       ELSE Write(x, x.arg) /\ Wrote(k, x.c, Idle)
    /\ UNCHANGED <<today, mix>>

(* An invocation ends: a request failed or was refused, or it was killed. *)
Kill(k) ==
    /\ call[k] # Idle
    /\ Become(k, Idle)
    /\ UNCHANGED <<courses, meetings, today, mix, apart, moved>>

NextDay ==
    /\ today < Last
    /\ today' = today + 1
    /\ UNCHANGED <<courses, meetings, call, mix, apart, moved>>

Call(k) ==
    \/ SaveCourse(k) \/ SaveEnrollment(k) \/ ListAgain(k) \/ ListMeetings(k) \/ GetCourse(k)
    \/ ListMine(k) \/ EndSiga(k) \/ ListCourses(k) \/ CommitSchedule(k) \/ Kill(k)
    \/ \E destructive \in BOOLEAN : CommitImport(k, destructive)
    \/ \E portal \in Portals : BeginSiga(k, portal)
    \/ \E p \in Entered : BeginCourse(k, p.id, p.doc)
    \/ \E p \in Asks : BeginSchedule(k, p.id, p.asked)

Next == (\E k \in Calls : Call(k)) \/ NextDay

Spec == Init /\ [][Next]_vars

-----------------------------------------------------------------------------
(* A call gives a course the code of another one only if one of the two    *)
(* got its code from another call after this one had read it: the list a   *)
(* saving call decides from, which an import makes anew after every course *)
(* it saves, or the course that a schedule's commit writes back whole.     *)
SharedCodeHasRace ==
    [][\A k \in Calls : call'[k].pc # call[k].pc =>
         \A c, d \in There(courses) \union There(courses') :
            /\ c # d /\ CodeOf(courses', c) = CodeOf(courses', d)
            /\ CodeOf(courses, c) # CodeOf(courses, d)
            => {c, d} \intersect call[k].recoded # {}]_vars

(* Two classes of the user are at one hour only if schedules were decided  *)
(* from what was no longer stored, or one of the courses is online or was  *)
(* saved with other dates than its schedule had.                           *)
NoClash ==
    apart => \A c, d \in There(courses) \ moved : c # d => Clear(courses, meetings, c, d)

(* An import changes a meeting the user made or changed, or dates the user *)
(* chose, only if they were stored after it listed the courses' meetings   *)
(* ("preserving manual ownership").                                        *)
ImportKeepsManual ==
    [][\A k \in Calls : At(k, "siga", "commit") /\ call'[k].pc # "commit" =>
         LET x == call[k] old == meetings[x.c] period == courses[x.c].period IN
         /\ \A n \in Of(old) :
               old[n] # n /\ meetings'[x.c][n] # old[n] => x.others[x.c][n] # old[n]
         /\ (period \notin {None, TermDates(courses[x.c].term)} /\ courses'[x.c].period # period)
               => x.snap[x.c].period # period \/ x.snap[x.c].term # courses[x.c].term]_vars

(* After an import nobody else wrote beside, another one of the same       *)
(* enrollments would find no course to save, and a schedule to change only *)
(* where this one was refused (of two courses of one code it sees the      *)
(* last).                                                                  *)
ImportSettles ==
    [][\A k \in Calls : At(k, "siga", "done") /\ call'[k] = Idle =>
         LET x == call[k] IN
         x.alone =>
            /\ ToSave(courses, x.arg) = {}
            /\ \A e \in x.arg : e.code \in ToReconcile(courses, meetings, x.arg) =>
                  LastOf(Matching(courses, e)) \in x.refused]_vars

=============================================================================

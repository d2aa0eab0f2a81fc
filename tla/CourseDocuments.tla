-------------------------- MODULE CourseDocuments --------------------------
(***************************************************************************)
(* A user's courses and the documents below them, and the calls that       *)
(* write them, each from an HTTP invocation of its own: the user's dates   *)
(* (main.py _course_workspace), an import of Moodle's calendar             *)
(* (moodle_date_import.py), the assessments of a teaching plan, a          *)
(* discovery of Moodle's materials (moodle_content_discovery.py and        *)
(* moodle_material_catalog_repository.py) and the deletion of a course     *)
(* (course_repository.py).  Each request to Firestore is a step, and the   *)
(* security rules decide what it may write.                                *)
(***************************************************************************)
EXTENDS AcademicDates

CONSTANTS
    NCourses,     \* courses, in the order of their codes
    Calls,        \* invocations that may be under way at once
    Initially,    \* bound: the semesters of the courses a behaviour starts with
    Mixes,        \* bound: what each invocation may do in a behaviour, with the dates its
                  \* user edits
    Changing,     \* bound: the courses edited, deleted or written by other parts
    Edited,       \* bound: what the user enters
    Found,        \* bound: how many materials Moodle may have of each course
    Answers,      \* bound: the events Moodle may have, no two with one id, and the
                  \* semesters of which it answers
    Other,        \* bound: further collections that other parts write
    MaxCandidates,  \* MAX_CANDIDATES: materials of all courses together
    MaxBatch,     \* documents one commit takes: 500
    MaxTime       \* bound of the clock

ASSUME CoursesAssumption == NCourses \in Nat \ {0}

Courses == 1..NCourses

ASSUME OtherAssumption ==
    Other \subseteq {"meetings", "sessions", "teachingPlans", "activitySnapshots", "syncState"}
ASSUME InitiallyAssumption == Initially \subseteq [Courses -> Terms \union {None}]
ASSUME ChangingAssumption == Changing \subseteq Courses
ASSUME FoundAssumption == Found \subseteq [Courses -> 0..MaxCandidates]
ASSUME AnswersAssumption ==
    \A a \in Answers : \A e \in a[2] : e.id \in MoodleIds /\ e.due \in Dues
ASSUME BoundsAssumption == {MaxCandidates, MaxBatch, MaxTime} \subseteq Nat

VARIABLES
    course,   \* the semester of each course there is
    dates,    \* academicDates
    catalog,  \* materialCatalog/current: how many materials, of which semester
    rest,     \* documents of the other collections
    call,     \* what each invocation is doing
    clock,    \* datetime.now(UTC)
    mix,      \* what each invocation may do in this behaviour
    settled   \* history: the catalogs there are one discovery's, of the courses as they are

vars == <<course, dates, catalog, rest, call, clock, mix, settled>>

Exists(c) == course[c] # None

(* The collections delete_course lists, one after another. *)
Collections == <<"meetings", "sessions", "academicDates", "materialCatalog",
                 "teachingPlans", "activitySnapshots", "syncState">>
(* A mutant: the collection that was added last is not listed.             *)
ToListLess == {n \in DOMAIN Collections :
               Collections[n] \in (Other \ {"syncState"}) \union {"academicDates", "materialCatalog"}}

ToList == {n \in DOMAIN Collections :
               Collections[n] \in Other \union {"academicDates", "materialCatalog"}}

(* Documents below a course, as a pair of collection and name.             *)
DateKeys(ids) == {<<"academicDates", i>> : i \in ids}
Below(c) == DateKeys({i \in Ids : dates[c][i] # None})
            \union (IF catalog[c] = None THEN {} ELSE {<<"materialCatalog", None>>})
            \union {<<x, None>> : x \in rest[c]}
In(c, x) == {d \in Below(c) : d[1] = x}

(* An invocation: the course it is at, the collections it has listed of it *)
(* and, as history, the documents written there since it listed them.      *)
Idle == [kind |-> "none", pc |-> "idle", c |-> 0, listed |-> {}, unseen |-> {},
         arg |-> None, got |-> None, now |-> 0]
Starts(k, kind) == call[k] = Idle /\ kind \in mix[k]
Meanwhile(what) == \E k \in Calls : what \in mix[k]
At(k, kind, pc) == call[k].kind = kind /\ call[k].pc = pc
Entered(kind, pc, c, arg) == [Idle EXCEPT !.kind = kind, !.pc = pc, !.c = c, !.arg = arg]

Become(k, x) == call' = [call EXCEPT ![k] = x]

(* These documents of a course were written: who listed their collection   *)
(* before does not know.                                                   *)
Unseen(c, keys) ==
    [k \in Calls |-> IF call[k].c = c
                     THEN [call[k] EXCEPT !.unseen = @ \union {d \in keys : d[1] \in call[k].listed}]
                     ELSE call[k]]
Wrote(k, x, keys) == call' = [Unseen(call[k].c, keys) EXCEPT ![k] = x]

(* firestore.rules: a document is created below a course that exists, and  *)
(* an update keeps its creation and does not go back in time.              *)
Allowed(c, old, new) ==
    IF old = None THEN Exists(c)
    ELSE new.created = old.created /\ new.updated >= old.updated

Init == /\ course \in Initially
        /\ dates = [c \in Courses |-> [i \in Ids |-> None]]
        /\ catalog = [c \in Courses |-> None]
        /\ rest = [c \in Courses |-> {}]
        /\ call = [k \in Calls |-> Idle]
        /\ clock = 0
        /\ mix \in Mixes
        /\ settled = TRUE

-----------------------------------------------------------------------------
(* The user's dates: get_course, list_dates, then one write. *)

BeginDate(k, kind, c, i, due) ==
    /\ Starts(k, kind)
    /\ Exists(c)
    /\ Become(k, Entered(kind, "list", c, [id |-> i, due |-> due]))
    /\ UNCHANGED <<course, dates, catalog, rest, clock, mix, settled>>

ListSave(k) ==
    LET x == call[k] IN
    /\ At(k, "save", "list")
    /\ Become(k, IF Saveable(dates[x.c], x.arg.id)
                 THEN [x EXCEPT !.pc = "write", !.listed = {"academicDates"}, !.now = clock,
                                !.got = Saved(dates[x.c], x.arg.id, x.arg.due, clock)]
                 ELSE Idle)
    /\ UNCHANGED <<course, dates, catalog, rest, clock, mix, settled>>

WriteSave(k) ==
    LET x == call[k] i == x.arg.id IN
    /\ At(k, "save", "write")
    /\ IF Allowed(x.c, dates[x.c][i], x.got)
       THEN /\ dates' = [dates EXCEPT ![x.c][i] = x.got]
            /\ Wrote(k, Idle, DateKeys({i}))
       ELSE Become(k, Idle) /\ UNCHANGED dates
    /\ UNCHANGED <<course, catalog, rest, clock, mix, settled>>

ListRemove(k) ==
    LET x == call[k] IN
    /\ At(k, "remove", "list")
    /\ Become(k, IF Removable(dates[x.c], x.arg.id)
                 THEN [x EXCEPT !.pc = "write", !.listed = {"academicDates"}]
                 ELSE Idle)
    /\ UNCHANGED <<course, dates, catalog, rest, clock, mix, settled>>

WriteRemove(k) ==
    /\ At(k, "remove", "write")
    /\ dates' = [dates EXCEPT ![call[k].c][call[k].arg.id] = None]
    /\ Become(k, Idle)
    /\ UNCHANGED <<course, catalog, rest, clock, mix, settled>>

-----------------------------------------------------------------------------
(* An import's one commit of updates and deletes of a course's dates.      *)
New(x, i) == Imported(x.got, x.arg.events, i, x.now)

CommitAllowed(x, writes) ==
    \A i \in writes : Allowed(x.c, dates[x.c][i], New(x, i))

Replaced(x, writes, deletes) ==
    [dates EXCEPT ![x.c] = [i \in Ids |-> IF i \in writes THEN New(x, i)
                                          ELSE IF i \in deletes THEN None ELSE @[i]]]

Commit(k, y, writes, deletes) ==
    LET x == call[k] IN
    IF CommitAllowed(x, writes)
    THEN /\ dates' = Replaced(x, writes, deletes)
         /\ Wrote(k, y, DateKeys(writes))
    ELSE Become(k, y) /\ UNCHANGED dates

(* import_diario_assessments, for a course that was there when its plan    *)
(* was looked for.                                                         *)
BeginDiario(k, c, plan, events) ==
    /\ Starts(k, "diario")
    /\ Exists(c)
    /\ DOMAIN events \subseteq PlanIds[plan]
    /\ Become(k, Entered("diario", "list", c, [plan |-> plan, events |-> events]))
    /\ UNCHANGED <<course, dates, catalog, rest, clock, mix, settled>>

ListDates(k) ==
    /\ At(k, "diario", "list") \/ At(k, "moodle", "list")
    /\ LET x == call[k] IN
       Become(k, [x EXCEPT !.pc = "write", !.listed = {"academicDates"}, !.now = clock,
                           !.got = dates[x.c]])
    /\ UNCHANGED <<course, dates, catalog, rest, clock, mix, settled>>

WriteDiario(k) ==
    LET x == call[k] IN
    /\ At(k, "diario", "write")
    /\ Commit(k, Idle, Pending(x.got, x.arg.events),
              StaleDiario(x.got, x.arg.events, x.arg.plan))
    /\ UNCHANGED <<course, catalog, rest, clock, mix, settled>>

-----------------------------------------------------------------------------
(* import_dates.  Its courses are those it listed, an event names the      *)
(* courses whose code its own course's names hold, and a semester whose    *)
(* calendar failed answers nothing.                                        *)

Matches(listed, e) == {c \in Courses : listed[c] = e.term /\ c \in e.names}

(* A mutant: an event nobody recognises says nothing of any course.        *)
UnsafeMatched(listed, events) ==
    UNION {Matches(listed, e) : e \in {f \in events : Cardinality(Matches(listed, f)) > 1}}

(* The courses an event that is not exactly one's might be of. *)
Unsafe(listed, events) ==
    UNION {IF Matches(listed, e) = {} THEN {c \in Courses : listed[c] = e.term}
           ELSE Matches(listed, e)
             : e \in {f \in events : Cardinality(Matches(listed, f)) # 1}}

EventsOf(listed, events, c) == {e \in events : Matches(listed, e) = {c}}
Answered(listed, answered) == {c \in Courses : listed[c] \in answered}
ToImport(listed, answered, events) ==
    {c \in Courses : EventsOf(listed, events, c) # {}}
    \union (Answered(listed, answered) \ Unsafe(listed, events))

First(S) == CHOOSE c \in S : \A d \in S : c <= d

(* The events of one course, by document. *)
Batch(listed, events, c) ==
    LET mine == EventsOf(listed, events, c)
    IN  [i \in {e.id : e \in mine} |-> (CHOOSE e \in mine : e.id = i).due]

(* On to the next course; what became of this one is only counted.         *)
Onwards(x, left) ==
    IF left = {} THEN Idle
    ELSE LET c == First(left) IN
         Entered("moodle", "list", c,
                 [x.arg EXCEPT !.left = left \ {c},
                               !.events = Batch(x.arg.listed, x.arg.calendar, c),
                               !.complete = c \notin Unsafe(x.arg.listed, x.arg.calendar)])

BeginMoodle(k, answered, calendar) ==
    /\ Starts(k, "moodle")
    /\ \E c \in Courses : Exists(c)
    /\ Cardinality({course[c] : c \in Courses} \ {None}) <= 2
    /\ Cardinality(calendar) <= MaxImport
    /\ \A e \in calendar : e.term \in answered
    /\ LET arg == [listed |-> course, answered |-> answered, calendar |-> calendar,
                   left |-> {}, events |-> <<>>, complete |-> FALSE]
       IN  Become(k, Onwards([Idle EXCEPT !.arg = arg], ToImport(course, answered, calendar)))
    /\ UNCHANGED <<course, dates, catalog, rest, clock, mix, settled>>

(* A complete import is one commit, or fails if that would be too long.    *)
WriteComplete(k) ==
    LET x == call[k]
        writes == Pending(x.got, x.arg.events)
        deletes == StaleMoodle(x.got, x.arg.events, x.arg.listed[x.c])
        next == Onwards(x, x.arg.left)
    IN  /\ At(k, "moodle", "write") /\ x.arg.complete
        /\ IF FitsBatch(writes, deletes) THEN Commit(k, next, writes, deletes)
           ELSE Become(k, next) /\ UNCHANGED dates
        /\ UNCHANGED <<course, catalog, rest, clock, mix, settled>>

(* One that is not writes event after event, and deletes nothing.          *)
WriteEvent(k, i) ==
    LET x == call[k]
        rest_ == Pending(x.got, x.arg.events) \ {i}
        next == IF rest_ = {} \/ ~CommitAllowed(x, {i}) THEN Onwards(x, x.arg.left)
                ELSE [x EXCEPT !.arg.events = [j \in rest_ |-> x.arg.events[j]]]
    IN  /\ At(k, "moodle", "write") /\ ~x.arg.complete
        /\ i \in Pending(x.got, x.arg.events)
        /\ Commit(k, next, {i}, {})
        /\ UNCHANGED <<course, catalog, rest, clock, mix, settled>>

NothingToWrite(k) ==
    LET x == call[k] IN
    /\ At(k, "moodle", "write") /\ ~x.arg.complete
    /\ Pending(x.got, x.arg.events) = {}
    /\ Become(k, Onwards(x, x.arg.left))
    /\ UNCHANGED <<course, dates, catalog, rest, clock, mix, settled>>

(* Whatever a course's import raises is the course's alone. *)
CourseFails(k) ==
    /\ call[k].kind = "moodle"
    /\ Become(k, Onwards(call[k], call[k].arg.left))
    /\ UNCHANGED <<course, dates, catalog, rest, clock, mix, settled>>

-----------------------------------------------------------------------------
(* discover and reconcile: the materials of every course there was, written *)
(* course after course.  Any failure ends it.                              *)

(* The materials of the courses S, in their order in each. *)
MaterialsOf(sizes, S) == {m \in S \X (1..MaxCandidates) : m[2] <= sizes[m[1]]}
Together(sizes, S) == Cardinality(MaterialsOf(sizes, S))

Discovering == {k \in Calls : call[k].kind = "discover"}
NotAlone(calls) ==
    [k \in Calls |-> IF k \in Discovering THEN [calls[k] EXCEPT !.arg.alone = FALSE] ELSE calls[k]]

(* A mutant: the limit is each course's. *)
WithinLimitEach(listed, sizes) ==
    \A c \in Courses : listed[c] # None => sizes[c] <= MaxCandidates

WithinLimit(listed, sizes) ==
    Together(sizes, {c \in Courses : listed[c] # None}) <= MaxCandidates

BeginDiscover(k, sizes) ==
    LET there == {c \in Courses : Exists(c)} IN
    /\ Starts(k, "discover")
    /\ there # {}
    /\ Cardinality({course[c] : c \in there}) <= 2
    /\ WithinLimit(course, sizes)
    /\ call' = [NotAlone(call) EXCEPT ![k] =
                  Entered("discover", "stamp", 0,
                          [listed |-> course, sizes |-> sizes, left |-> there,
                           alone |-> Discovering = {}])]
    /\ UNCHANGED <<course, dates, catalog, rest, clock, mix, settled>>

(* reconcile reads the clock once. *)
Stamp(k) ==
    LET x == call[k] c == First(x.arg.left) IN
    /\ At(k, "discover", "stamp")
    /\ Become(k, [x EXCEPT !.pc = "list", !.now = clock, !.c = c, !.arg.left = @ \ {c}])
    /\ UNCHANGED <<course, dates, catalog, rest, clock, mix, settled>>

NextCatalog(x) ==
    IF x.arg.left = {} THEN Idle
    ELSE LET c == First(x.arg.left) IN
         [x EXCEPT !.pc = "list", !.c = c, !.listed = {}, !.unseen = {}, !.got = None,
                   !.arg.left = @ \ {c}]

(* At its end, one that met no other and no edit of a course has made the  *)
(* catalogs those of the courses.                                          *)
Settles(x) == IF x.arg.left = {} THEN x.arg.alone ELSE FALSE

CatalogOf(x, created) == [term |-> x.arg.listed[x.c], size |-> x.arg.sizes[x.c],
                          created |-> created, updated |-> x.now]
SameCatalog(d, x) == d # None /\ d.term = x.arg.listed[x.c] /\ d.size = x.arg.sizes[x.c]

ListCatalog(k) ==
    LET x == call[k] d == catalog[x.c] IN
    /\ At(k, "discover", "list")
    /\ IF SameCatalog(d, x)
       THEN Become(k, NextCatalog(x)) /\ settled' = (settled \/ Settles(x))
       ELSE /\ Become(k, [x EXCEPT !.pc = "write", !.listed = {"materialCatalog"},
                                   !.got = CatalogOf(x, Since(d, x.now))])
            /\ UNCHANGED settled
    /\ UNCHANGED <<course, dates, catalog, rest, clock, mix>>

WriteCatalog(k) ==
    LET x == call[k] IN
    /\ At(k, "discover", "write")
    /\ IF Allowed(x.c, catalog[x.c], x.got)
       THEN /\ catalog' = [catalog EXCEPT ![x.c] = x.got]
            /\ Wrote(k, NextCatalog(x), {<<"materialCatalog", None>>})
            /\ settled' = Settles(x)
       ELSE Become(k, Idle) /\ UNCHANGED <<catalog, settled>>
    /\ UNCHANGED <<course, dates, rest, clock, mix>>

-----------------------------------------------------------------------------
(* delete_course: the collections in their order, then one batch.          *)

BeginDelete(k, c) ==
    /\ Starts(k, "delete")
    /\ Become(k, [Entered("delete", "list", c, ToList) EXCEPT !.got = {}])
    /\ UNCHANGED <<course, dates, catalog, rest, clock, mix, settled>>

ListCollection(k) ==
    LET x == call[k] n == First(x.arg) IN
    /\ At(k, "delete", "list")
    /\ Become(k, [x EXCEPT !.listed = @ \union {Collections[n]},
                           !.got = @ \union In(x.c, Collections[n]),
                           !.arg = @ \ {n},
                           !.pc = IF x.arg = {n} THEN "write" ELSE "list"])
    /\ UNCHANGED <<course, dates, catalog, rest, clock, mix, settled>>

(* More documents than a commit takes are a ValueError.                    *)
WriteDelete(k) ==
    LET x == call[k] IN
    /\ At(k, "delete", "write")
    /\ IF Cardinality(x.got) + 1 <= MaxBatch
       THEN /\ course' = [course EXCEPT ![x.c] = None]
            /\ dates' = [dates EXCEPT ![x.c] =
                           [i \in Ids |-> IF DateKeys({i}) \subseteq x.got THEN None ELSE @[i]]]
            /\ catalog' = [catalog EXCEPT ![x.c] =
                             IF <<"materialCatalog", None>> \in x.got THEN None ELSE @]
            /\ rest' = [rest EXCEPT ![x.c] = {o \in @ : <<o, None>> \notin x.got}]
       ELSE UNCHANGED <<course, dates, catalog, rest>>
    /\ Become(k, Idle)
    /\ UNCHANGED <<clock, mix, settled>>

(* save_course; the check of its code is in Timetable.                     *)
SaveCourse(c, term) ==
    /\ Meanwhile("edit")
    /\ course[c] # term
    /\ course' = [course EXCEPT ![c] = term]
    /\ call' = NotAlone(call)
    /\ settled' = FALSE
    /\ UNCHANGED <<dates, catalog, rest, clock, mix>>

(* Another part writes a document of its collection; only the state of a   *)
(* synchronisation asks for no course.                                     *)
StoreOther(c, x) ==
    /\ Meanwhile("store")
    /\ Exists(c) \/ x \in rest[c] \/ x = "syncState"
    /\ rest' = [rest EXCEPT ![c] = @ \union {x}]
    /\ call' = Unseen(c, {<<x, None>>})
    /\ UNCHANGED <<course, dates, catalog, clock, mix, settled>>

(* A request fails, or the function ends: what was written stays.          *)
Kill(k) ==
    /\ call[k] # Idle
    /\ Become(k, Idle)
    /\ UNCHANGED <<course, dates, catalog, rest, clock, mix, settled>>

Tick == /\ clock < MaxTime
        /\ clock' = clock + 1
        /\ UNCHANGED <<course, dates, catalog, rest, call, mix, settled>>

Begin(k) ==
    \/ \E c \in Courses, i \in Ids \intersect mix[k] :
         \/ \E due \in Edited : BeginDate(k, "save", c, i, due)
         \/ BeginDate(k, "remove", c, i, None)
    \/ \E c \in Changing, p \in DOMAIN PlanIds : \E S \in SUBSET PlanIds[p] :
         \E events \in [S -> Dues] : BeginDiario(k, c, p, events)
    \/ \E a \in Answers : BeginMoodle(k, a[1], a[2])
    \/ \E sizes \in Found : BeginDiscover(k, sizes)
    \/ \E c \in Changing : BeginDelete(k, c)

Step(k) ==
    \/ ListSave(k) \/ WriteSave(k) \/ ListRemove(k) \/ WriteRemove(k)
    \/ ListDates(k) \/ WriteDiario(k) \/ WriteComplete(k) \/ NothingToWrite(k)
    \/ \E i \in MoodleIds : WriteEvent(k, i)
    \/ CourseFails(k)
    \/ Stamp(k) \/ ListCatalog(k) \/ WriteCatalog(k)
    \/ ListCollection(k) \/ WriteDelete(k)

Next ==
    \/ \E k \in Calls : Begin(k) \/ Step(k) \/ Kill(k)
    \/ \E c \in Changing, t \in Terms : SaveCourse(c, t)
    \/ \E c \in Changing, x \in Other : StoreOther(c, x)
    \/ Tick

Spec == Init /\ [][Next]_vars

-----------------------------------------------------------------------------
Time == 0..MaxTime

(* What a stored catalog and a stored date are decoded to.                 *)
CatalogDoc == [term : Terms, size : 0..MaxCandidates, created : Time, updated : Time]
DateDoc == [due : Dues \union Edited, own : BOOLEAN, created : Time, updated : Time]

ASSUME NoneAssumption == None \notin Terms /\ None \notin CatalogDoc /\ None \notin DateDoc

TypeOK ==
    /\ course \in [Courses -> Terms \union {None}]
    /\ dates \in [Courses -> [Ids -> DateDoc \union {None}]]
    /\ catalog \in [Courses -> CatalogDoc \union {None}]
    /\ rest \in [Courses -> SUBSET Other]
    /\ \A k \in Calls :
        /\ DOMAIN call[k] = DOMAIN Idle
        /\ call[k].c \in Courses \union {0}
        /\ call[k].now \in Time
    /\ clock \in Time
    /\ mix \in Mixes
    /\ settled \in BOOLEAN

Importing(k) == At(k, "moodle", "write") \/ At(k, "diario", "write")
Deletes(k, c) == At(k, "delete", "write") /\ call[k].c = c
Unaware(k, c, i) == call[k].c = c /\ <<"academicDates", i>> \in call[k].unseen

(* academic_date_repository.py: a date the user entered or edited is       *)
(* changed by him, or with its course.  An import takes it away only if it *)
(* was stored after the import listed the dates, and replaces it only if,  *)
(* besides, its request had read the clock no later than the import.       *)
UserDateKept(c, i) ==
    dates[c][i] # None /\ dates[c][i].own /\ dates'[c][i] # dates[c][i] =>
        \/ dates'[c][i] # None /\ dates'[c][i].own
        \/ \E k \in Calls : Deletes(k, c)
        \/ \E k \in Calls : At(k, "remove", "write") /\ call[k].c = c /\ call[k].arg.id = i
        \/ \E k \in Calls :
             /\ Importing(k) /\ Unaware(k, c, i)
             /\ dates'[c][i] # None => dates[c][i].updated <= call[k].now
UserDateStands == [][\A c \in Courses, i \in Ids : UserDateKept(c, i)]_vars

(* moodle_date_import.py: an import takes an event's date away only if the *)
(* calendar of the course's semester answered, and had no such event that  *)
(* could be the course's: none it does not recognise, none it finds        *)
(* ambiguous.                                                              *)
GoneFrom(x, c, i) ==
    /\ x.arg.listed[c] \in x.arg.answered
    /\ \A e \in x.arg.calendar :
         e.id = i /\ e.term = x.arg.listed[c] =>
            Matches(x.arg.listed, e) # {} /\ c \notin Matches(x.arg.listed, e)
GoneIfAnswered ==
    [][\A c \in Courses, i \in MoodleIds :
         dates[c][i] # None /\ dates'[c][i] = None =>
            \E k \in Calls : \/ Deletes(k, c)
                             \/ Importing(k) /\ call[k].c = c /\ GoneFrom(call[k], c, i)]_vars

(* course_repository.py: what is left below a course that was deleted was  *)
(* written after the deletion had listed its collection.                   *)
DeletedWhole ==
    [][\A c \in Courses : Exists(c) /\ course'[c] = None =>
         \E k \in Calls : Deletes(k, c) /\ Below(c)' \subseteq call[k].unseen]_vars

(* firestore.rules beside the repositories: a call's write is refused only *)
(* if the course is gone or the document was written since it was listed,  *)
(* so nothing a call wrote keeps the next one out for ever.                *)
Writes(k) ==
    LET x == call[k] IN
    CASE At(k, "save", "write") -> {x.arg.id}
      [] Importing(k) -> Pending(x.got, x.arg.events)
      [] OTHER -> {}
Document(k, i) == IF At(k, "save", "write") THEN call[k].got ELSE New(call[k], i)
RefusedHasCause ==
    \A k \in Calls :
        LET x == call[k] IN
        /\ \A i \in Writes(k) : \/ Allowed(x.c, dates[x.c][i], Document(k, i))
                                 \/ ~Exists(x.c) \/ Unaware(k, x.c, i)
        /\ At(k, "discover", "write") =>
             \/ Allowed(x.c, catalog[x.c], x.got) \/ ~Exists(x.c) \/ ~x.arg.alone

(* moodle_material_catalog.py list_catalog: one course in another semester *)
(* than its catalog, or more materials than a discovery may find, and none *)
(* is shown.  A discovery that met no other one and no edit of a course    *)
(* leaves catalogs that can be listed.                                     *)
CanList ==
    LET shown == {c \in Courses : Exists(c) /\ catalog[c] # None} IN
    /\ \A c \in shown : catalog[c].term = course[c]
    /\ Together([c \in shown |-> catalog[c].size], shown) <= MaxCandidates
CatalogListable == settled => CanList

=============================================================================

---------------------------- MODULE AcademicSync ----------------------------
(***************************************************************************)
(* A synchronisation of all sources (unified_academic_sync.py): SIGA, then *)
(* Moodle, then the teaching plan of each course, which is imported        *)
(* (moodle_teaching_plan_import.py) and, if nothing conflicts, applied to  *)
(* the course's sessions.  It tells its progress in one document of the    *)
(* user (academic_sync_progress.py).  Several synchronisations of a user   *)
(* may run at once: a foreground request looks at no job record.           *)
(***************************************************************************)
EXTENDS Integers, FiniteSets

CONSTANTS
    Runs,        \* synchronisations of a user; none has another one's progress id
    Followed,    \* those that have a progress id, as every job has
    N,           \* courses Moodle returns, visited in the order 1..N
    MaxReviews,  \* 50, the exceptions a result may list
    MaxVersion,  \* bound: versions of a plan
    Changing,    \* bound: courses that change while runs are under way
    None         \* nothing to write, nothing shown

ASSUME FollowedAssumption == Followed \subseteq Runs
ASSUME NAssumption == N \in Nat
ASSUME ReviewsAssumption == MaxReviews \in Nat
ASSUME VersionAssumption == MaxVersion \in Nat
ASSUME ChangingAssumption == Changing \subseteq 1..N
ASSUME NoneAssumption == None \notin {"running", "failed", "partial", "succeeded"}

Courses == 1..N
Versions == 0..MaxVersion

VARIABLES
    official,  \* the plan the Diário publishes of each course; 0: it says none is
    dates,     \* the plan the course's imported assessments are of
    plan,      \* the plan saved for the course
    sessions,  \* the plan whose changes the course's sessions have
    clash,     \* courses of which a class of the user is in a plan's way
    run,       \* what each synchronisation is doing
    doc,       \* syncProgress/current
    late,      \* progress writes given up that the store may still apply
    shown      \* history: how far the document has shown each one

store == <<dates, plan, sessions>>
progress == <<doc, late, shown>>
vars == <<official, store, clash, run, progress>>

Review == {"ambiguous", "unpublished", "conflict", "unavailable"}
Settled == {"skipped", "unchanged", "applied"}
Outcomes == Review \union Settled \union {"open"}

(* A run before it starts.  "mute" is a progress that writes no more, or   *)
(* that nobody asked for; "out" is what became of each course; "wrote" and *)
(* "alone" are history: what it wrote of the course at hand, and that no   *)
(* other run and no edit of the user came between.                         *)
Waiting == [pc |-> "waiting", at |-> 1, completed |-> 0, mute |-> TRUE, wr |-> None,
            ver |-> 0, out |-> [c \in Courses |-> "open"], wrote |-> {}, alone |-> TRUE]

Init == /\ official = [c \in Courses |-> 0]
        /\ dates = [c \in Courses |-> 0]
        /\ plan = [c \in Courses |-> 0]
        /\ sessions = [c \in Courses |-> 0]
        /\ clash = {}
        /\ run = [r \in Runs |-> Waiting]
        /\ doc = None
        /\ late = {}
        /\ shown = [r \in Runs |-> -1]

Active(r) == run[r].pc \notin {"waiting", "ended", "raised"} \/ run[r].wr # None

(* A run takes its next step once its progress is written.                 *)
At(r, pc) == run[r].pc = pc /\ run[r].wr = None
Become(r, x) == run' = [run EXCEPT ![r] = x]
Here(r) == run[r].at

(* _write: nothing once it is mute. *)
Writes(x, status) == [x EXCEPT !.wr = IF x.mute THEN None ELSE status]

Begin(r) ==
    /\ run[r] = Waiting
    /\ run' = [q \in Runs |->
                 IF q = r
                 THEN Writes([Waiting EXCEPT !.pc = "siga", !.mute = r \notin Followed,
                                             !.alone = \A p \in Runs : ~Active(p)], "running")
                 ELSE IF Active(q) THEN [run[q] EXCEPT !.alone = FALSE] ELSE run[q]]
    /\ UNCHANGED <<official, store, clash, progress>>

(* An exception ends the run; what was shown complete stays so.            *)
Raise(x) == Writes([x EXCEPT !.pc = "raised"], "failed")

(* observe counts the stages, whether or not they can be shown.            *)
Observed(x, n) == Writes([x EXCEPT !.completed = n], "running")

Siga(r) ==
    /\ At(r, "siga")
    /\ Become(r, Observed([run[r] EXCEPT !.pc = "moodle"], 1))
    /\ UNCHANGED <<official, store, clash, progress>>

(* What follows the visit of a course. *)
Visit(x) == IF x.at <= N THEN "visit" ELSE "last"

Moodle(r) ==
    /\ At(r, "moodle")
    /\ Become(r, Observed([run[r] EXCEPT !.pc = Visit(run[r])], 2))
    /\ UNCHANGED <<official, store, clash, progress>>

(* A mutant: one course that fails ends the loop.                          *)
LeaveBreak(x, outcome) ==
    LET y == [x EXCEPT !.out[x.at] = outcome, !.at = @ + 1, !.ver = 0,
                       !.wrote = {}]
    IN  [y EXCEPT !.pc = IF outcome = "unavailable" THEN "last" ELSE Visit(y)]

Leave(x, outcome) ==
    LET y == [x EXCEPT !.out[x.at] = outcome, !.at = @ + 1, !.ver = 0,
                       !.wrote = {}]
    IN  [y EXCEPT !.pc = Visit(y)]

(* _canonical_teaching_plans found n links, and with one the course's      *)
(* policy answers: import, keep what there is, or give another run's       *)
(* result, a plan or that none is published.                               *)
Answers == {"deferred", "paused", "not_published", "shared", "import"}
Admit(r, n, answer) ==
    /\ At(r, "visit")
    /\ Become(r, CASE n = 0 -> Leave(run[r], "skipped")
                   [] n > 1 -> Leave(run[r], "ambiguous")
                   [] n = 1 /\ answer = "deferred" -> Leave(run[r], "unchanged")
                   [] n = 1 /\ answer = "paused" -> Leave(run[r], "unavailable")
                   [] n = 1 /\ answer = "not_published" -> Leave(run[r], "unpublished")
                   [] n = 1 /\ answer = "shared" -> [run[r] EXCEPT !.pc = "preview"]
                   [] n = 1 /\ answer = "import" -> [run[r] EXCEPT !.pc = "fetch"])
    /\ UNCHANGED <<official, store, clash, progress>>

(* import_plan up to the report: a plan that says nothing is published     *)
(* leaves what was imported alone.                                         *)
Fetch(r) ==
    /\ At(r, "fetch")
    /\ LET v == official[Here(r)] IN
       Become(r, IF v = 0 THEN Leave(run[r], "unpublished")
                 ELSE [run[r] EXCEPT !.pc = "dates", !.ver = v])
    /\ UNCHANGED <<official, store, clash, progress>>

Wrote(x, collection) == [x EXCEPT !.wrote = @ \union {collection}]

(* import_diario_assessments and save, whose answers may be lost: the      *)
(* client of the store then raises, with the document written.             *)
ImportDates(r, heard) ==
    LET x == Wrote(run[r], "dates") IN
    /\ At(r, "dates")
    /\ dates' = [dates EXCEPT ![Here(r)] = x.ver]
    /\ Become(r, IF heard THEN [x EXCEPT !.pc = "plan"] ELSE Raise(x))
    /\ UNCHANGED <<official, plan, sessions, clash, progress>>

(* A mutant: a plan that is the saved one is not reconciled.               *)
SavePlanEndsUnchanged(r, heard) ==
    LET x == Wrote(run[r], "plan") IN
    /\ At(r, "plan")
    /\ plan' = [plan EXCEPT ![Here(r)] = x.ver]
    /\ Become(r, IF ~heard THEN Raise(x)
                 ELSE IF plan[Here(r)] = x.ver THEN Leave(x, "unchanged")
                 ELSE [x EXCEPT !.pc = "preview"])
    /\ UNCHANGED <<official, dates, sessions, clash, progress>>

SavePlan(r, heard) ==
    LET x == Wrote(run[r], "plan") IN
    /\ At(r, "plan")
    /\ plan' = [plan EXCEPT ![Here(r)] = x.ver]
    /\ Become(r, IF heard THEN [x EXCEPT !.pc = "preview"] ELSE Raise(x))
    /\ UNCHANGED <<official, dates, sessions, clash, progress>>

(* reconcile without apply: a conflict, nothing to do, or changes.         *)
Preview(r) ==
    /\ At(r, "preview")
    /\ Become(r, IF Here(r) \in clash THEN Leave(run[r], "conflict")
                 ELSE IF sessions[Here(r)] = plan[Here(r)] THEN Leave(run[r], "unchanged")
                 ELSE [run[r] EXCEPT !.pc = "apply"])
    /\ UNCHANGED <<official, store, clash, progress>>

(* reconcile with apply reads plan and sessions again and does not look at *)
(* what the preview said.                                                  *)
Apply(r) ==
    /\ At(r, "apply")
    /\ Become(r, IF sessions[Here(r)] = plan[Here(r)] THEN Leave(run[r], "applied")
                 ELSE [run[r] EXCEPT !.pc = "commit", !.ver = plan[Here(r)]])
    /\ UNCHANGED <<official, store, clash, progress>>

Commit(r, heard) ==
    LET x == Wrote(run[r], "sessions") IN
    /\ At(r, "commit")
    /\ sessions' = [sessions EXCEPT ![Here(r)] = x.ver]
    /\ Become(r, IF heard THEN Leave(x, "applied") ELSE Raise(x))
    /\ UNCHANGED <<official, dates, plan, clash, progress>>

PerCourse == {"fetch", "dates", "plan", "preview", "apply", "commit"}

(* _FATAL_FAILURES, and whatever SIGA, Moodle and a policy raise.          *)
FatalFailure(r) ==
    /\ \E pc \in PerCourse \union {"siga", "moodle", "visit"} : At(r, pc)
    /\ Become(r, Raise(run[r]))
    /\ UNCHANGED <<official, store, clash, progress>>

(* Any other failure is the course's alone. *)
CourseFailure(r) ==
    /\ \E pc \in PerCourse : At(r, pc)
    /\ Become(r, Leave(run[r], "unavailable"))
    /\ UNCHANGED <<official, store, clash, progress>>

Reviews(x) == Cardinality({c \in Courses : x.out[c] \in Review})

(* The result, or the ValueError of a result that is too long, which comes *)
(* after every course was written.                                         *)
Last(r) ==
    /\ At(r, "last")
    /\ Become(r, IF Reviews(run[r]) > MaxReviews THEN Raise(run[r])
                 ELSE Writes([run[r] EXCEPT !.pc = "ended", !.completed = 3],
                             IF Reviews(run[r]) > 0 THEN "partial" ELSE "succeeded"))
    /\ UNCHANGED <<official, store, clash, progress>>

Fields(r) == [run |-> r, status |-> run[r].wr, completed |-> run[r].completed,
              reviews |-> IF run[r].wr = "partial" THEN Reviews(run[r]) ELSE 0]

Rank(d) == IF d.status = "running" THEN d.completed ELSE 4

Show(d) == /\ doc' = d
           /\ shown' = [shown EXCEPT ![d.run] = IF Rank(d) > @ THEN Rank(d) ELSE @]

(* A mutant: a write that fails is forgotten.                              *)
GivesUpNever(x) == [x EXCEPT !.wr = None]

(* The first write that fails is the last. *)
GivesUp(x) == [x EXCEPT !.wr = None, !.mute = TRUE]

(* patch_user_document, applied at once, later or never when it fails.     *)
Write(r, heard, fate) ==
    /\ run[r].wr # None
    /\ heard => fate = "now"
    /\ Become(r, IF heard THEN [run[r] EXCEPT !.wr = None] ELSE GivesUp(run[r]))
    /\ IF fate = "now" THEN Show(Fields(r)) ELSE UNCHANGED <<doc, shown>>
    /\ late' = IF fate = "later" THEN late \union {Fields(r)} ELSE late
    /\ UNCHANGED <<official, store, clash>>

Arrive(d) == /\ d \in late
             /\ late' = late \ {d}
             /\ Show(d)
             /\ UNCHANGED <<official, store, clash, run>>

(* The function's time is up, or it crashes. *)
Kill(r) ==
    /\ Active(r)
    /\ Become(r, [run[r] EXCEPT !.pc = "raised", !.mute = TRUE, !.wr = None])
    /\ UNCHANGED <<official, store, clash, progress>>

(* The university publishes, corrects or withdraws a plan.                 *)
Publish(c, v) == /\ official' = [official EXCEPT ![c] = v]
                 /\ UNCHANGED <<store, clash, run, progress>>

(* The user edits the course's sessions: a class in the way of the plan,   *)
(* or none, and a class the plan asked for that is gone.                   *)
Edit(c, inTheWay, v) ==
    /\ v \in {0, sessions[c]}
    /\ clash' = IF inTheWay THEN clash \union {c} ELSE clash \ {c}
    /\ sessions' = [sessions EXCEPT ![c] = v]
    /\ run' = [q \in Runs |-> IF Active(q) THEN [run[q] EXCEPT !.alone = FALSE] ELSE run[q]]
    /\ UNCHANGED <<official, dates, plan, progress>>

Step(r) ==
    \/ Siga(r) \/ Moodle(r) \/ Fetch(r) \/ Preview(r) \/ Apply(r) \/ Last(r)
    \/ \E n \in 0..2, a \in Answers : Admit(r, n, a)
    \/ \E h \in BOOLEAN : ImportDates(r, h) \/ SavePlan(r, h) \/ Commit(r, h)
    \/ FatalFailure(r) \/ CourseFailure(r)
    \/ \E h \in BOOLEAN, f \in {"now", "later", "never"} : Write(r, h, f)

Next ==
    \/ \E r \in Runs : Begin(r) \/ Step(r) \/ Kill(r)
    \/ \E d \in late : Arrive(d)
    \/ \E c \in Changing, v \in Versions : Publish(c, v)
    \/ \E c \in Changing, b \in BOOLEAN, v \in Versions : Edit(c, b, v)

Spec == Init /\ [][Next]_vars

-----------------------------------------------------------------------------

PCs == {"waiting", "siga", "moodle", "visit", "last", "ended", "raised"} \union PerCourse
Statuses == {"running", "failed", "partial", "succeeded"}
Documents == [run : Runs, status : Statuses, completed : 0..3, reviews : 0..N]

(* Runs, documents and history keep their types. *)
TypeOK ==
    /\ official \in [Courses -> Versions]
    /\ dates \in [Courses -> Versions]
    /\ plan \in [Courses -> Versions]
    /\ sessions \in [Courses -> Versions]
    /\ clash \subseteq Courses
    /\ run \in [Runs -> [pc : PCs, at : 1..(N + 1), completed : 0..3, mute : BOOLEAN,
                         wr : Statuses \union {None}, ver : Versions,
                         out : [Courses -> Outcomes],
                         wrote : SUBSET {"dates", "plan", "sessions"},
                         alone : BOOLEAN]]
    /\ doc \in Documents \union {None}
    /\ late \subseteq Documents
    /\ shown \in [Runs -> -1..4]

(* academic_sync_progress.py: whatever is lost, late or written by another *)
(* run in between, what the document shows of a run only goes forward, and *)
(* its last word stands.                                                   *)
Forward == doc' # doc => Rank(doc') > shown[doc'.run]
ProgressForward == [][Forward]_vars

(* The document tells an end only of a run that had it, with the reviews   *)
(* its result lists, and none for a run that was cut short or that left a  *)
(* course out because another one failed ("surface only reviewable         *)
(* exceptions").                                                           *)
ProgressTruthful ==
    doc # None =>
        LET x == run[doc.run] IN
        CASE doc.status = "running"   -> doc.completed <= x.completed
          [] doc.status = "failed"    -> x.pc = "raised"
          [] doc.status = "partial"   -> /\ x.pc # "raised" \/ x.mute
                                         /\ \A c \in Courses : x.out[c] # "open"
          [] doc.status = "succeeded" -> \A c \in Courses : x.out[c] \in Settled

Became(r, c, outcomes) == run[r].out[c] = "open" /\ run'[r].out[c] \in outcomes

(* moodle_teaching_plan_import.py imports dates first and saves the plan   *)
(* after, with nothing that ties the two: whatever an earlier run left     *)
(* half done, a run that nothing crossed and that settles a course it      *)
(* imported leaves its dates, its plan and its sessions agreed.            *)
Agreed(r, c) ==
    Became(r, c, {"unchanged", "applied"}) /\ "dates" \in run[r].wrote /\ run[r].alone
        => dates'[c] = plan'[c] /\ sessions'[c] = plan'[c]
VisitAgrees == [][\A r \in Runs, c \in Courses : Agreed(r, c)]_vars

=============================================================================

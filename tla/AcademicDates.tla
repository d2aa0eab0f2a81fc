--------------------------- MODULE AcademicDates ---------------------------
(***************************************************************************)
(* The dates of a course (academic_date_repository.py), as what each       *)
(* operation makes of the documents it listed.  A date is the user's own   *)
(* when he entered it, or edited one that was imported (manual_override).  *)
(* Title, instant and kind are one value: an import tells only whether     *)
(* they differ.                                                            *)
(***************************************************************************)
EXTENDS Integers, FiniteSets

CONSTANTS
    MoodleIds, DiarioIds, ManualIds,  \* documents, named after source and source id
    PlanIds,      \* the assessments' documents of each teaching plan
    Terms,        \* semesters
    DuesIn,       \* title, instant and kind of a date, by the semester of its month
    MaxImport,    \* MAX_IMPORT_DATES: events, and writes of one batch
    None          \* no document

ASSUME SourcesAssumption ==
    /\ MoodleIds \intersect DiarioIds = {}
    /\ MoodleIds \intersect ManualIds = {}
    /\ DiarioIds \intersect ManualIds = {}
ASSUME PlansAssumption == \A p \in DOMAIN PlanIds : PlanIds[p] \subseteq DiarioIds
ASSUME LimitAssumption == MaxImport \in Nat

Ids == MoodleIds \union DiarioIds \union ManualIds
Dues == UNION {DuesIn[t] : t \in Terms}

Date(due, own, created, now) == [due |-> due, own |-> own, created |-> created, updated |-> now]

(* A mutant: every write makes the document anew.                         *)
SinceNow(d, now) == now

(* When the document was made, for one that replaces what was listed.      *)
Since(d, now) == IF d = None THEN now ELSE d.created

(* save_date: what was imported and is gone is not found.                  *)
Saveable(list, i) == list[i] # None \/ i \in ManualIds
Saved(list, i, due, now) == Date(due, TRUE, Since(list[i], now), now)

(* delete_date *)
Removable(list, i) == i \in ManualIds /\ list[i] # None

(* A mutant: the override is forgotten.                                    *)
PendingAll(list, events) ==
    {i \in DOMAIN events : list[i] = None \/ list[i].due # events[i]}

(* An import writes what is new or differs, never what is the user's.      *)
Pending(list, events) ==
    {i \in DOMAIN events : list[i] = None \/ (~list[i].own /\ list[i].due # events[i])}

Imported(list, events, i, now) == Date(events[i], FALSE, Since(list[i], now), now)

(* What a complete answer leaves out; Moodle's is complete for the six     *)
(* months of a semester only, a plan's for its own assessments.            *)
Stale(list, events, ids, due) ==
    {i \in ids \ DOMAIN events : list[i] # None /\ ~list[i].own /\ list[i].due \in due}

StaleMoodle(list, events, term) == Stale(list, events, MoodleIds, DuesIn[term])
StaleDiario(list, events, plan) == Stale(list, events, PlanIds[plan], Dues)

(* The batch of a complete import is one commit or none.                   *)
FitsBatch(writes, deletes) == Cardinality(writes) + Cardinality(deletes) <= MaxImport

=============================================================================

---------------------------- MODULE CoursePolicy ----------------------------
(***************************************************************************)
(* When an academic synchronisation asks a course's sources again          *)
(* (course_sync_policy.py), and what it keeps of the last answer.  Each    *)
(* source of a course, its teaching plan and its activities, has a state   *)
(* document with the last result, the failures in a row and the moment it  *)
(* is due, next to the copy the fetch itself stores (the plan document,    *)
(* the activity snapshot).  The user's pause of the plan is a document of  *)
(* its own.  A run reads the state, decides, fetches for as long as the    *)
(* source takes and saves the state it read with what happened; nothing    *)
(* conditions the save on the state being unchanged.                       *)
(***************************************************************************)
EXTENDS Integers, FiniteSetsExt

CONSTANTS
    Sources,      \* "plan", "activities" or both
    Runs,         \* synchronisations of the course that may overlap
    Users,        \* requests that pause or resume the plan
    Terms,        \* terms the course may be moved to
    PlanIds,      \* Diario links of teaching plans
    Answers,      \* complete fields of a published plan
    Base,         \* 900 seconds
    Doublings,    \* 7
    Refresh,      \* 21600 seconds
    Day,          \* 86400 seconds
    Cutoff,       \* 30 days
    NoId,         \* the id in the key of the activities
    None,         \* no document, no result
    MaxTime,      \* bound: the last moment
    MaxFailures,  \* bound: failures in a row
    MaxSources,   \* bound: sources one behaviour asks
    LastOverlap   \* bound: the last moment a run is under way beside another one

ASSUME TimesAssumption == {Base, Refresh, Day, Cutoff, MaxTime, MaxFailures,
                          MaxSources, LastOverlap} \subseteq Nat
ASSUME DoublingsAssumption == Doublings \in Nat
ASSUME SourcesAssumption == Sources \subseteq {"plan", "activities"}
ASSUME NoIdAssumption == NoId \notin PlanIds


Fields == {"criteria", "schedule", "assessment_dates"}

ASSUME AnswersAssumption == Answers \subseteq SUBSET Fields

VARIABLES
    now,         \* the time
    term,        \* the course's term
    stored,      \* syncState documents, by source
    copy,        \* what the last fetch of each source stored
    preference,  \* the planPreference document
    run,         \* what each synchronisation is doing
    user,        \* what each pause or resume is doing
    quiet,       \* history: runs whose plan was paused ever since they began
    overtaken    \* history: runs whose source another one saved since they read its state

policyVars == <<now, term, stored, copy, preference, run, user, quiet, overtaken>>

Time == 0..MaxTime
Keys == [term : Terms, id : PlanIds \union {NoId}]

(* A result says whether the plan was published and which of its fields    *)
(* were complete; "at" tells results apart.                                *)
Results == [published : BOOLEAN, complete : SUBSET Fields, at : Time]

(* The state of a source; "last" and "result" may be missing in it.        *)
States == [key : Keys, first : Time, last : Time \union {None}, due : Int,
           failures : 0..MaxFailures, result : Results \union {None}]

Copies == [key : Keys, at : Time]

ASSUME NoCopyAssumption == None \notin Copies
ASSUME NoStateAssumption == None \notin States

Complete(state) == IF state.result = None THEN {} ELSE state.result.complete

AtRest == [pc |-> "idle"]

PolicyInit ==
    /\ now = 0
    /\ term \in Terms
    /\ stored = [s \in Sources |-> None]
    /\ copy = [s \in Sources |-> None]
    /\ preference = [paused |-> FALSE, term |-> term]
    /\ run = [r \in Runs |-> AtRest]
    /\ user = [u \in Users |-> AtRest]
    /\ quiet = [r \in Runs |-> FALSE]
    /\ overtaken = [r \in Runs |-> FALSE]

PausedFor(t) == preference.paused /\ preference.term = t

(* The sources a synchronisation has reached in this behaviour. *)
Asked == {s \in Sources : \/ stored[s] # None \/ copy[s] # None
                          \/ \E r \in Runs : run[r] # AtRest /\ run[r].source = s}

(* A synchronisation reaches a source of the course with the term it       *)
(* listed the course with, and the time at which it started.               *)
Begin(r, source, id, force) ==
    /\ run[r] = AtRest
    /\ Cardinality(Asked \union {source}) <= MaxSources
    /\ now <= LastOverlap \/ \A o \in Runs : run[o] = AtRest
    /\ (id = NoId) <=> (source = "activities")
    /\ run' = [run EXCEPT ![r] =
                  [pc |-> IF source = "activities" THEN "copy" ELSE "state",
                   source |-> source, key |-> [term |-> term, id |-> id],
                   force |-> force, at |-> now, state |-> None]]
    /\ quiet' = [quiet EXCEPT ![r] = PausedFor(term)]
    /\ UNCHANGED <<now, term, stored, copy, preference, user, overtaken>>

(* The activities are fetched whatever their state says when the snapshot  *)
(* is of another term, or is gone and the state has a result of it.        *)
CheckCopy(r) ==
    /\ run[r].pc = "copy"
    /\ run' = [run EXCEPT
         ![r].pc = IF copy["activities"] = None THEN "result" ELSE "state",
         ![r].force = \/ @
                      \/ /\ copy["activities"] # None
                         /\ copy["activities"].key.term # run[r].key.term]
    /\ UNCHANGED <<now, term, stored, copy, preference, user, quiet, overtaken>>

CheckResult(r) ==
    /\ run[r].pc = "result"
    /\ run' = [run EXCEPT
         ![r].pc = "state",
         ![r].force = \/ @
                      \/ /\ stored["activities"] # None
                         /\ stored["activities"].result # None]
    /\ UNCHANGED <<now, term, stored, copy, preference, user, quiet, overtaken>>

(* A state of another key is forgotten; a plan counts from the course's    *)
(* creation, at 0, the activities from now.                                *)
Considered(l, state) ==
    IF state # None /\ state.key = l.key
    THEN state
    ELSE [key |-> l.key, first |-> IF l.source = "plan" THEN 0 ELSE l.at,
          last |-> None, due |-> 0, failures |-> 0, result |-> None]

(* Without force, a source is left alone when the user paused it, when its *)
(* plan is complete or 30 days old, and until it is due.                   *)
LeftAlone(l, state, paused) ==
    /\ ~l.force
    /\ \/ paused
       \/ /\ l.source = "plan"
          /\ \/ Fields \subseteq Complete(state)
             \/ state.last # None /\ l.at - state.first >= Cutoff
       \/ l.at < state.due

Decide(r, state, paused) ==
    run' = [run EXCEPT ![r] = IF LeftAlone(@, state, paused)
                              THEN AtRest
                              ELSE [@ EXCEPT !.pc = "fetch", !.state = state]]

ReadState(r) ==
    /\ run[r].pc = "state"
    /\ LET state == Considered(run[r], stored[run[r].source])
       IN  IF run[r].source = "plan"
           THEN run' = [run EXCEPT ![r].pc = "preference", ![r].state = state]
           ELSE Decide(r, state, FALSE)
    /\ overtaken' = [overtaken EXCEPT ![r] = FALSE]
    /\ UNCHANGED <<now, term, stored, copy, preference, user, quiet>>

ReadPreference(r) ==
    /\ run[r].pc = "preference"
    /\ Decide(r, run[r].state, PausedFor(run[r].key.term))
    /\ UNCHANGED <<now, term, stored, copy, preference, user, quiet, overtaken>>

(* A mutant: only a complete plan is stored.                               *)
FetchStoresComplete(r, published, complete) ==
    /\ run[r].pc = "fetch"
    /\ IF run[r].source = "plan"
       THEN /\ run[r].key.term = term
            /\ complete \in (IF published THEN Answers ELSE {{}})
       ELSE published /\ complete = {}
    /\ copy' = IF published /\ complete = Fields
               THEN [copy EXCEPT ![run[r].source] = [key |-> run[r].key, at |-> run[r].at]]
               ELSE copy
    /\ run' = [run EXCEPT
         ![r].pc = "save",
         ![r].state = [@ EXCEPT
            !.result = [published |-> published, complete |-> complete, at |-> run[r].at],
            !.failures = 0,
            !.last = run[r].at,
            !.due = run[r].at + (IF run[r].source = "activities" THEN Refresh ELSE Day)]]
    /\ UNCHANGED <<now, term, stored, preference, user, quiet, overtaken>>

(* The source answers.  A plan must still be of the course's term, and one *)
(* that is not published leaves the copy alone; everything else is stored  *)
(* by the fetch before the state knows of it.                              *)
Fetch(r, published, complete) ==
    /\ run[r].pc = "fetch"
    /\ IF run[r].source = "plan"
       THEN /\ run[r].key.term = term
            /\ complete \in (IF published THEN Answers ELSE {{}})
       ELSE published /\ complete = {}
    /\ copy' = IF published
               THEN [copy EXCEPT ![run[r].source] = [key |-> run[r].key, at |-> run[r].at]]
               ELSE copy
    /\ run' = [run EXCEPT
         ![r].pc = "save",
         ![r].state = [@ EXCEPT
            !.result = [published |-> published, complete |-> complete, at |-> run[r].at],
            !.failures = 0,
            !.last = run[r].at,
            !.due = run[r].at + (IF run[r].source = "activities" THEN Refresh ELSE Day)]]
    /\ UNCHANGED <<now, term, stored, preference, user, quiet, overtaken>>

Backoff(failures) == Min({Day, Base * 2 ^ Min({failures - 1, Doublings})})

(* A mutant: a failure starts a new state.                                 *)
FetchFailsForgets(r) ==
    /\ run[r].pc = "fetch"
    /\ run[r].state.failures < MaxFailures
    /\ \/ copy' = [copy EXCEPT ![run[r].source] = [key |-> run[r].key, at |-> run[r].at]]
       \/ UNCHANGED copy
    /\ LET failures == run[r].state.failures + 1
       IN  run' = [run EXCEPT
             ![r].pc = "save",
             ![r].state = [@ EXCEPT !.failures = failures,
                                    !.result = None,
                                    !.last = run[r].at,
                                    !.due = run[r].at + Backoff(failures)]]
    /\ UNCHANGED <<now, term, stored, preference, user, quiet, overtaken>>

(* Any exception of the fetch; the answer to its own store may be what was *)
(* lost.                                                                   *)
FetchFails(r) ==
    /\ run[r].pc = "fetch"
    /\ run[r].state.failures < MaxFailures
    /\ \/ copy' = [copy EXCEPT ![run[r].source] = [key |-> run[r].key, at |-> run[r].at]]
       \/ UNCHANGED copy
    /\ LET failures == run[r].state.failures + 1
       IN  run' = [run EXCEPT
             ![r].pc = "save",
             ![r].state = [@ EXCEPT !.failures = failures,
                                    !.last = run[r].at,
                                    !.due = run[r].at + Backoff(failures)]]
    /\ UNCHANGED <<now, term, stored, preference, user, quiet, overtaken>>

(* The runs of r's source that hold an older state once r has saved.       *)
Overtaken(r) ==
    [o \in Runs |-> o # r /\ run[o] # AtRest
                    /\ (overtaken[o] \/ run[o].source = run[r].source)]

(* A mutant: the preference is part of the state a run saves.              *)
SaveOverPreference(r) ==
    /\ run[r].pc = "save"
    /\ stored' = [stored EXCEPT ![run[r].source] = run[r].state]
    /\ preference' = [preference EXCEPT !.paused = FALSE]
    /\ run' = [run EXCEPT ![r] = AtRest]
    /\ overtaken' = Overtaken(r)
    /\ UNCHANGED <<now, term, copy, user, quiet>>

Save(r) ==
    /\ run[r].pc = "save"
    /\ stored' = [stored EXCEPT ![run[r].source] = run[r].state]
    /\ run' = [run EXCEPT ![r] = AtRest]
    /\ overtaken' = Overtaken(r)
    /\ UNCHANGED <<now, term, copy, preference, user, quiet>>

(* The invocation ends anywhere, by its timeout or because a request to    *)
(* the store raised; a save may have been applied.                         *)
Ends(r) ==
    /\ run[r] # AtRest
    /\ run' = [run EXCEPT ![r] = AtRest]
    /\ UNCHANGED <<now, term, stored, copy, preference, user, quiet, overtaken>>

(* The user pauses or resumes the plan: the course is read for its term,   *)
(* then the preference is written.                                         *)
ConfirmGet(u, paused) ==
    /\ user[u] = AtRest
    /\ user' = [user EXCEPT ![u] = [pc |-> "put", paused |-> paused, term |-> term]]
    /\ UNCHANGED <<now, term, stored, copy, preference, run, quiet, overtaken>>

ConfirmPut(u) ==
    /\ user[u].pc = "put"
    /\ preference' = [paused |-> user[u].paused, term |-> user[u].term]
    /\ user' = [user EXCEPT ![u] = AtRest]
    /\ quiet' = [r \in Runs |-> /\ quiet[r]
                                /\ user[u].paused
                                /\ run[r] # AtRest /\ run[r].key.term = user[u].term]
    /\ UNCHANGED <<now, term, stored, copy, run, overtaken>>

EditTerm(t) ==
    /\ t # term
    /\ term' = t
    /\ UNCHANGED <<now, stored, copy, preference, run, user, quiet, overtaken>>

TimePasses ==
    /\ now < MaxTime
    /\ now < LastOverlap \/ \A r, o \in Runs : r = o \/ AtRest \in {run[r], run[o]}
    /\ now' = now + 1
    /\ UNCHANGED <<term, stored, copy, preference, run, user, quiet, overtaken>>

PolicyNext ==
    \/ \E r \in Runs :
         \/ \E s \in Sources, i \in PlanIds \union {NoId}, f \in BOOLEAN : Begin(r, s, i, f)
         \/ CheckCopy(r) \/ CheckResult(r)
         \/ ReadState(r) \/ ReadPreference(r)
         \/ \E p \in BOOLEAN, c \in Answers \union {{}} : Fetch(r, p, c)
         \/ FetchFails(r)
         \/ Save(r)
         \/ Ends(r)
    \/ \E u \in Users : (\E p \in BOOLEAN : ConfirmGet(u, p)) \/ ConfirmPut(u)
    \/ \E t \in Terms : EditTerm(t)
    \/ TimePasses

PolicySpec == PolicyInit /\ [][PolicyNext]_policyVars

-----------------------------------------------------------------------------

PolicyTypeOK ==
    /\ now \in Time
    /\ term \in Terms
    /\ stored \in [Sources -> States \union {None}]
    /\ copy \in [Sources -> Copies \union {None}]
    /\ preference \in [paused : BOOLEAN, term : Terms]
    /\ run \in [Runs -> {AtRest} \union
                  [pc : {"copy", "result", "state", "preference", "fetch", "save"},
                   source : Sources, key : Keys, force : BOOLEAN, at : Time,
                   state : States \union {None}]]
    /\ user \in [Users -> {AtRest} \union [pc : {"put"}, paused : BOOLEAN, term : Terms]]
    /\ quiet \in [Runs -> BOOLEAN]
    /\ overtaken \in [Runs -> BOOLEAN]

(* course_sync_policy.py run: a result of which the state speaks was       *)
(* stored by its fetch, so that a synchronisation that reuses it never     *)
(* answers for a copy that is not there.                                   *)
HasCopy(s, state) ==
    state # None /\ state.result # None /\ state.result.published => copy[s] # None

ResultHasCopy ==
    /\ \A s \in Sources : HasCopy(s, stored[s])
    /\ \A r \in Runs : run[r] # AtRest => HasCopy(run[r].source, run[r].state)

(* course_sync_policy.py confirm_plan: "User preference is isolated from   *)
(* in-flight automatic writes": no automatic run asks for the plan of a    *)
(* term the user had paused when the run began and has not resumed since.  *)
PauseRespected ==
    \A r \in Runs : run[r] # AtRest /\ run[r].source = "plan" /\ quiet[r] =>
        ~(run[r].pc \in {"fetch", "save"} /\ ~run[r].force)

(* course_sync_policy.py:1, "without discarding the last complete copy",   *)
(* and tests/test_course_sync_policy.py:76, a failure "preserves           *)
(* previous": while its source is the same, a result in the state only     *)
(* gives way to the answer of a fetch that succeeded, or to the state of a *)
(* run that read it before another one saved (nothing conditions a save).  *)
Replaced(s) ==
    /\ stored[s] # None /\ stored'[s].key = stored[s].key
    /\ stored[s].result # None
    /\ stored'[s].result # stored[s].result

LastCopyKept ==
    [][\A s \in Sources : Replaced(s) =>
          \E r \in Runs : /\ run[r] # AtRest /\ run'[r] = AtRest
                          /\ run[r].source = s
                          /\ overtaken[r] \/ stored'[s].failures = 0]_policyVars

=============================================================================

------------------------------ MODULE SyncJob ------------------------------
(***************************************************************************)
(* The durable academic synchronisation of one user: API requests that     *)
(* queue an operation in the Firestore document syncJobs/current, the      *)
(* asynchronous function executions that claim it, run it and record its   *)
(* outcome, and the lease that frees a record whose worker never answers.  *)
(* Every access to the document is a step of its own; any of them may fail *)
(* or be the last one of its process.                                      *)
(***************************************************************************)
EXTENDS Naturals

CONSTANTS
  Request,          \* API invocations of POST /v1/ufmg/sync/all
  Worker,           \* executions of POST /internal/academic-sync
  Op, NoOp,         \* operation identifiers, and the one of no record
  Asks,             \* the operations, with a force flag, that callers ask for
  LEASE,            \* LEASE_SECONDS, in ticks
  ENVELOPE,         \* how long a sealed envelope can be opened
  TIMEOUT           \* the platform's limit on any execution of the function

ASSUME ProcessAssumption == Request \cap Worker = {}
ASSUME OpAssumption == NoOp \notin Op
ASSUME AskAssumption == Asks \subseteq Op \X BOOLEAN
ASSUME TimeAssumption == {LEASE, ENVELOPE, TIMEOUT} \subseteq Nat
ASSUME LimitAssumption == TIMEOUT <= LEASE

VARIABLES
  job,     \* the stored record
  jobAge,  \* ticks since its started_at, counted up to one past the lease
  valid,   \* processes whose first GET still names the stored updateTime
  queue,   \* ticks for which an execution of each operation can be opened
  proc,    \* the local state of every invocation
  past,    \* auxiliary: operations whose record another one replaced
  lapse    \* auxiliary: what has gone against the single flight so far

vars == <<job, jobAge, valid, queue, proc, past, lapse>>

-----------------------------------------------------------------------------
Process == Request \cup Worker
Active == {"queued", "running"}
Terminal == {"succeeded", "failed"}
Status == Active \cup Terminal \cup {"missing"}

Job == [op : Op \cup {NoOp}, status : Status, force : BOOLEAN]
Missing == [op |-> NoOp, status |-> "missing", force |-> FALSE]

StorePC == {"startGet", "startRead", "startPut", "claimGet", "claimRead",
            "claimPut", "readForce", "endGet", "endRead", "endPut"}
PC == StorePC \cup {"idle", "enqueue", "sync"}

(* An invocation: what it does next, the operation it works for, the force *)
(* flag it was called or runs with, the record its second GET answered,    *)
(* the terminal status it is recording, the ticks since it began, and how  *)
(* many of those had passed when it took the started_at it writes.         *)
Local == [pc : PC, op : Op \cup {NoOp}, force : BOOLEAN, seen : Job,
          goal : Terminal, age : Nat, stamp : Nat]
Idle == [pc |-> "idle", op |-> NoOp, force |-> FALSE, seen |-> Missing,
         goal |-> "failed", age |-> 0, stamp |-> 0]

pc(p) == proc[p].pc

(* Mutant: the comparison with the lease is not strict. *)
ExpiredAtLease == job.status \in Active /\ jobAge >= LEASE

(* An active record older than the lease. *)
Expired == job.status \in Active /\ jobAge > LEASE

(* Mutant: the lease is not looked at. *)
ViewStored == job

(* read(): an active record past its lease is answered as failed. *)
View == IF Expired THEN [job EXCEPT !.status = "failed"] ELSE job

Become(p, l) == proc' = [proc EXCEPT ![p] = l]
Goto(p, l) == Become(p, [proc[p] EXCEPT !.pc = l])

(* The invocation ends and its locals are gone. *)
Return(p) == Become(p, Idle) /\ valid' = valid \ {p}

(* _document(): remembers the updateTime of what it read. *)
Get(p) == valid' = valid \cup {p}

(* Mutant: the updateTime precondition is not sent. *)
PutUnconditional(p, j) == job' = j /\ valid' = {}

(* _write(): applied only if no write came after the process's first GET. *)
Put(p, j) == p \in valid /\ job' = j /\ valid' = {}

(* Where an exception of the current call leads: a worker that has claimed *)
(* records the failure, unless recording it is what failed.                *)
Raised(p) ==
  IF \/ pc(p) \in {"readForce", "sync"}
     \/ pc(p) \in {"endGet", "endRead", "endPut"} /\ proc[p].goal = "succeeded"
  THEN [Idle EXCEPT !.pc = "endGet", !.op = proc[p].op, !.age = proc[p].age]
  ELSE Idle
(* What the single flight of work is excused by: a dispatch that raised    *)
(* had happened, or an operation whose record another one replaced was     *)
(* started again. From then on the history is of no more use.              *)
Lapse == {"none", "late", "excused"}
Excuse == lapse' = "excused" /\ past' = {}
Overwrites(o) == past' = IF lapse = "excused" THEN {} ELSE past \cup ({o} \ {NoOp})

(* An envelope is opened when its queued record is older than envelopes    *)
(* live, which is possible because theirs counts from the sealing.         *)
OpenedLate(o) == job.op = o /\ job.status = "queued" /\ jobAge > ENVELOPE
-----------------------------------------------------------------------------
Init ==
  /\ job = Missing /\ jobAge = 0 /\ valid = {} /\ queue = [o \in Op |-> 0]
  /\ proc = [p \in Process |-> Idle]
  /\ past = {} /\ lapse = "none"

(* _enqueue_academic_sync: the client names the operation, a new one or    *)
(* the one pendingAcademicSyncId answered.                                 *)
Call(r, o, f) ==
  /\ pc(r) = "idle"
  /\ Become(r, [Idle EXCEPT !.pc = "startGet", !.op = o, !.force = f])
  /\ UNCHANGED <<job, jobAge, valid, queue, past, lapse>>

(* The queued record is made up, with started_at, and then written. *)
Stamped(r) == Become(r, [proc[r] EXCEPT !.pc = "startPut", !.stamp = proc[r].age])

(* A missing record needs no second GET. *)
StartGet(r) ==
  /\ pc(r) = "startGet"
  /\ Get(r)
  /\ IF job.status = "missing" THEN Stamped(r) ELSE Goto(r, "startRead")
  /\ UNCHANGED <<job, jobAge, queue, past, lapse>>

(* An operation in progress, or the outcome of this one, is the answer. *)
StartRead(r) ==
  /\ pc(r) = "startRead"
  /\ IF View.status \in Active \/ job.op = proc[r].op
     THEN Return(r) ELSE Stamped(r) /\ UNCHANGED valid
  /\ UNCHANGED <<job, jobAge, queue, past, lapse>>

(* The write of the queued record, whose lease runs from the started_at    *)
(* taken before it; heard is FALSE when the write is applied and its       *)
(* answer is lost, which the caller cannot tell from a failure.            *)
StartPut(r, heard) ==
  /\ pc(r) = "startPut"
  /\ Put(r, [op |-> proc[r].op, status |-> "queued", force |-> proc[r].force])
  /\ jobAge' = proc[r].age - proc[r].stamp
  /\ Become(r, IF heard
               THEN [Idle EXCEPT !.pc = "enqueue", !.op = proc[r].op,
                                       !.age = proc[r].age]
               ELSE Idle)
  /\ IF proc[r].op \in past THEN Excuse
     ELSE Overwrites(job.op) /\ UNCHANGED lapse
  /\ UNCHANGED queue

(* FirestoreConflict: answered with the record as it is now. *)
StartConflict(r) ==
  /\ pc(r) = "startPut" /\ r \notin valid
  /\ Return(r)
  /\ UNCHANGED <<job, jobAge, queue, past, lapse>>

(* An envelope can be opened for ENVELOPE ticks from its sealing, which    *)
(* may be later than started_at; an older one for the same operation is no *)
(* different, and shorter lived.                                           *)
Sealed(r) == [queue EXCEPT ![proc[r].op] = ENVELOPE + 1]

(* enqueue(): seals an envelope and creates an asynchronous execution.     *)
Enqueue(r) ==
  /\ pc(r) = "enqueue"
  /\ queue' = Sealed(r)
  /\ Return(r)
  /\ UNCHANGED <<job, jobAge, past, lapse>>

(* create_execution raises; the execution may exist all the same. *)
EnqueueRaises(r, created) ==
  /\ pc(r) = "enqueue"
  /\ queue' = IF created THEN Sealed(r) ELSE queue
  /\ IF created THEN Excuse ELSE UNCHANGED <<past, lapse>>
  /\ Goto(r, "endGet")
  /\ UNCHANGED <<job, jobAge, valid>>
-----------------------------------------------------------------------------
(* The platform delivers an execution, possibly more than once, and as     *)
(* late as its envelope allows, which may be later than the record does.   *)
Open(w, o) ==
  /\ pc(w) = "idle" /\ queue[o] > 0
  /\ Become(w, [Idle EXCEPT !.pc = "claimGet", !.op = o])
  /\ lapse' = IF OpenedLate(o) /\ lapse = "none" THEN "late" ELSE lapse
  /\ UNCHANGED <<job, jobAge, valid, queue, past>>

ClaimGet(w) ==
  /\ pc(w) = "claimGet"
  /\ Get(w)
  /\ Goto(w, "claimRead")
  /\ UNCHANGED <<job, jobAge, queue, past, lapse>>

(* Mutant: the status of the record is not checked. *)
ClaimReadAnyStatus(w) ==
  /\ pc(w) = "claimRead"
  /\ IF job.op = proc[w].op
     THEN /\ Become(w, [proc[w] EXCEPT !.pc = "claimPut", !.seen = View])
          /\ UNCHANGED valid
     ELSE Return(w)
  /\ UNCHANGED <<job, jobAge, queue, past, lapse>>

(* Only the queued record of this operation is claimed. *)
ClaimRead(w) ==
  /\ pc(w) = "claimRead"
  /\ IF job.op = proc[w].op /\ View.status = "queued"
     THEN /\ Become(w, [proc[w] EXCEPT !.pc = "claimPut", !.seen = View])
          /\ UNCHANGED valid
     ELSE Return(w)
  /\ UNCHANGED <<job, jobAge, queue, past, lapse>>

ClaimPut(w, heard) ==
  /\ pc(w) = "claimPut"
  /\ Put(w, [proc[w].seen EXCEPT !.status = "running"])
  /\ Become(w, IF heard
               THEN [proc[w] EXCEPT !.pc = "readForce", !.seen = Missing]
               ELSE Idle)
  /\ UNCHANGED <<jobAge, queue, past, lapse>>

ClaimConflict(w) ==
  /\ pc(w) = "claimPut" /\ w \notin valid
  /\ Return(w)
  /\ UNCHANGED <<job, jobAge, queue, past, lapse>>

(* The worker reads force from whatever record is stored by then. *)
ReadForce(w) ==
  /\ pc(w) = "readForce"
  /\ Become(w, [proc[w] EXCEPT !.pc = "sync", !.force = job.force])
  /\ UNCHANGED <<job, jobAge, valid, queue, past, lapse>>

(* service.sync returns a result or raises. *)
SyncEnds(w, outcome) ==
  /\ pc(w) = "sync"
  /\ Become(w, [proc[w] EXCEPT !.pc = "endGet", !.goal = outcome, !.force = FALSE])
  /\ UNCHANGED <<job, jobAge, valid, queue, past, lapse>>
-----------------------------------------------------------------------------
(* finish() and fail() are _terminal with a status.                        *)
EndGet(p) ==
  /\ pc(p) = "endGet"
  /\ Get(p)
  /\ Goto(p, "endRead")
  /\ UNCHANGED <<job, jobAge, queue, past, lapse>>

(* Mutant: the operation of the record is not compared. *)
EndReadAnyOperation(p) ==
  /\ pc(p) = "endRead"
  /\ Become(p, [proc[p] EXCEPT !.pc = "endPut", !.seen = View])
  /\ UNCHANGED <<job, jobAge, valid, queue, past, lapse>>

(* Another operation has the record: nothing to record. *)
EndRead(p) ==
  /\ pc(p) = "endRead"
  /\ IF job.op = proc[p].op
     THEN /\ Become(p, [proc[p] EXCEPT !.pc = "endPut", !.seen = View])
          /\ UNCHANGED valid
     ELSE Return(p)
  /\ UNCHANGED <<job, jobAge, queue, past, lapse>>

(* When the answer of an applied write is lost, finish() raises and the    *)
(* worker goes on to fail() an operation that has succeeded.               *)
EndPut(p, heard) ==
  /\ pc(p) = "endPut"
  /\ Put(p, [proc[p].seen EXCEPT !.status = proc[p].goal])
  /\ Become(p, IF heard THEN Idle ELSE Raised(p))
  /\ UNCHANGED <<jobAge, queue, past, lapse>>

(* A call to Firestore raises: no answer, a refusal, _terminal's conflict. *)
StoreFails(p) ==
  /\ pc(p) \in StorePC
  /\ Become(p, Raised(p))
  /\ valid' = valid \ {p}
  /\ UNCHANGED <<job, jobAge, queue, past, lapse>>

(* The invocation is killed, by a crash or by the platform's limit.        *)
Crash(p) ==
  /\ pc(p) # "idle"
  /\ Return(p)
  /\ UNCHANGED <<job, jobAge, queue, past, lapse>>

TimedOut(p) == proc[p].age >= TIMEOUT /\ Crash(p)

(* One tick of time(); no invocation outlives its limit.                   *)
Tick ==
  /\ \A p \in Process : pc(p) # "idle" => proc[p].age < TIMEOUT
  /\ jobAge' = IF job.status # "missing" /\ jobAge <= LEASE
               THEN jobAge + 1 ELSE jobAge
  /\ queue' = [o \in Op |-> IF queue[o] > 0 THEN queue[o] - 1 ELSE 0]
  /\ proc' = [p \in Process |->
                IF pc(p) = "idle" THEN proc[p] ELSE [proc[p] EXCEPT !.age = @ + 1]]
  /\ UNCHANGED <<job, valid, past, lapse>>
-----------------------------------------------------------------------------
RequestStep(r) ==
  \/ \E ask \in Asks : Call(r, ask[1], ask[2])
  \/ StartGet(r) \/ StartRead(r) \/ StartConflict(r) \/ Enqueue(r)
  \/ \E b \in BOOLEAN : StartPut(r, b) \/ EnqueueRaises(r, b)

WorkerStep(w) ==
  \/ \E o \in Op : Open(w, o)
  \/ ClaimGet(w) \/ ClaimRead(w) \/ ClaimConflict(w) \/ ReadForce(w)
  \/ \E b \in BOOLEAN : ClaimPut(w, b)
  \/ \E s \in Terminal : SyncEnds(w, s)

AnyStep(p) ==
  \/ EndGet(p) \/ EndRead(p) \/ StoreFails(p) \/ Crash(p)
  \/ \E b \in BOOLEAN : EndPut(p, b)

Next ==
  \/ \E r \in Request : RequestStep(r)
  \/ \E w \in Worker : WorkerStep(w)
  \/ \E p \in Process : AnyStep(p)
  \/ Tick

Spec == Init /\ [][Next]_vars

(* Only time and the platform's limit are fair: no request, delivery or    *)
(* worker needs to take another step.                                      *)
Fairness == WF_vars(Tick) /\ \A p \in Process : WF_vars(TimedOut(p))
FairSpec == Spec /\ Fairness
-----------------------------------------------------------------------------
TypeOK ==
  /\ job \in Job
  /\ jobAge \in 0..(LEASE + 1)
  /\ valid \subseteq Process
  /\ queue \in [Op -> 0..(ENVELOPE + 1)]
  /\ proc \in [Process -> Local]
  /\ past \subseteq Op
  /\ lapse \in Lapse

(* The answer a process is about to act on is what the record still says.  *)
ReadHolds(p) ==
  /\ pc(p) \in {"claimPut", "endPut"} =>
       proc[p].seen.op = job.op /\ proc[p].seen.force = job.force
  /\ pc(p) = "claimPut" => job.status = "queued"
  /\ pc(p) = "startPut" =>
       job.op # proc[p].op /\ (job.status \notin Active \/ jobAge > LEASE)

(* What the two GETs of a call still tell when its write is applied: the   *)
(* record the second one answered is the stored one as long as the first   *)
(* one's updateTime is, so the decision taken on it still stands.          *)
Coherent ==
  /\ job.status = "missing" <=> job.op = NoOp
  /\ \A p \in Process :
       /\ pc(p) # "idle" => proc[p].op \in Op
       /\ pc(p) \in {"claimPut", "endPut"} => proc[p].seen.op = proc[p].op
       /\ p \in valid => ReadHolds(p)

(* A worker that has claimed an operation and has not recorded its outcome. *)
Running(w) == pc(w) \in {"readForce", "sync"}

(* No two workers synchronise at once. *)
AtMostOneRuns == \A w1, w2 \in Worker : Running(w1) /\ Running(w2) => w1 = w2

(* Repeated starts and deliveries do not duplicate work, whatever crashes, *)
(* lost answers and races there are. Excused are an enqueue call that      *)
(* raises although the execution was created, and an operation started     *)
(* again after another one replaced it. The deployed limits do not keep    *)
(* this: an envelope sealed some time after started_at is opened at its    *)
(* last moment, and its worker outlives the lease.                         *)
StartsRunOnce == lapse = "excused" \/ AtMostOneRuns

(* Work is not duplicated either way when every envelope is opened while   *)
(* its queued record is no older than envelopes live.                      *)
SingleFlight == lapse = "late" \/ StartsRunOnce

(* While a worker runs, the record is its own, says so, is inside its      *)
(* lease and has the force flag the worker runs with: nobody else can be   *)
(* told that the operation failed or be let in. It rests on LEASE_SECONDS  *)
(* covering the envelope's life and the worker's limit, both to the second *)
(* and with nothing left for the time between started_at and the sealing.  *)
RunnerOwnsRecord ==
  lapse = "none" => \A w \in Worker : Running(w) =>
                /\ job.op = proc[w].op /\ job.status = "running" /\ ~Expired
                /\ pc(w) = "sync" => proc[w].force = job.force

(* A late or repeated outcome never lands on the record of another         *)
(* operation: whoever records one wrote the operation the record has.      *)
OutcomeIsOwn ==
  \A p \in Process :
    pc(p) = "endPut" /\ job' # job /\ proc'[p] # proc[p]
      => job.op = proc[p].op /\ job'.op = job.op /\ job'.force = job.force
OutcomeOfItsOwner == [][OutcomeIsOwn]_vars

(* A queued or running record is answered as settled sooner or later even  *)
(* if its execution is lost, its worker dies or its outcome is not stored. *)
LeaseFrees == job.status \in Active ~> View.status \notin Active

(* The double read and conditional write of each call amount to one step.  *)
Lifecycle == INSTANCE SyncJobLifecycle WITH
  op <- job.op, status <- job.status, force <- job.force,
  expired <- jobAge > LEASE
ImplementsLifecycle == Lifecycle!Spec
=============================================================================

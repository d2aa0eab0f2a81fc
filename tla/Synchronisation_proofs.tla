----------------------- MODULE Synchronisation_proofs -----------------------
(***************************************************************************)
(* The durable job of a synchronisation (SyncJob) and what it keeps of     *)
(* each course it reaches (CoursePolicy).  Of the job, for every set of    *)
(* requests, workers and operations and every choice of the lease and of   *)
(* the limits.  Of a course, for any number of overlapping                 *)
(* synchronisations and of requests that pause and resume the plan: its    *)
(* state never speaks of a copy that is not stored, and a plan that is     *)
(* paused is not asked for.                                                *)
(***************************************************************************)
EXTENDS SyncJob, CoursePolicy, TLAPS


LEMMA Times ==
  /\ LEASE \in Nat /\ ENVELOPE \in Nat /\ TIMEOUT \in Nat /\ TIMEOUT <= LEASE
  /\ 0 \in 0..(LEASE + 1)
  /\ 0 \in 0..(ENVELOPE + 1) /\ ENVELOPE + 1 \in 0..(ENVELOPE + 1)
<1>1. LEASE \in Nat /\ ENVELOPE \in Nat /\ TIMEOUT \in Nat
  BY TimeAssumption
<1> QED BY <1>1, LimitAssumption

(* An invocation under way is inside its limit, and took the started_at    *)
(* it writes since it began: no record is queued older than its lease.     *)
Clocked ==
  \A p \in Process : pc(p) # "idle" =>
    proc[p].stamp <= proc[p].age /\ proc[p].age <= TIMEOUT

LEMMA AskType ==
  ASSUME NEW ask \in Asks
  PROVE  ask[1] \in Op /\ ask[2] \in BOOLEAN
BY AskAssumption

(* The locals of an idle invocation are well typed. *)
LEMMA IdleType == Idle \in Local /\ Missing \in Job
BY DEF Idle, Local, Missing, Job, PC, StorePC, Terminal, Status, Active

(* An exception leaves well-typed locals behind. *)
LEMMA RaisedType ==
  ASSUME TypeOK, NEW p \in Process
  PROVE  Raised(p) \in Local
<1>1. proc[p] \in Local
  BY DEF TypeOK
<1>2. [Idle EXCEPT !.pc = "endGet", !.op = proc[p].op, !.age = proc[p].age]
        \in Local
  BY <1>1, IdleType DEF Local, PC, StorePC
<1> QED BY <1>2, IdleType DEF Raised

(* read() answers a well-typed record. *)
LEMMA ViewType == ASSUME TypeOK PROVE View \in Job
BY DEF TypeOK, View, Job, Status, Terminal, Active

(* read() changes nothing but the status of an active record. *)
LEMMA ViewKeeps ==
  ASSUME job \in Job
  PROVE  /\ View.op = job.op /\ View.force = job.force
         /\ View.status = "queued" => job.status = "queued"
         /\ View.status \notin Active => job.status \notin Active \/ jobAge > LEASE
BY DEF View, Expired, Job, Active

LEMMA InitType == Init => TypeOK
BY IdleType, Times DEF Init, TypeOK, Lapse

(* The history of the excuses stays one of operations. *)
LEMMA ReplacedType ==
  ASSUME TypeOK, Excuse \/ (Overwrites(job.op) /\ UNCHANGED lapse)
  PROVE  past' \subseteq Op /\ lapse' \in Lapse
<1>1. past \subseteq Op /\ job.op \in Op \cup {NoOp} /\ lapse \in Lapse
  BY DEF TypeOK, Job
<1>2. CASE Excuse
  BY <1>2 DEF Excuse, Lapse
<1>3. CASE Overwrites(job.op) /\ UNCHANGED lapse
  <2>1. {job.op} \ {NoOp} \subseteq Op
    BY <1>1
  <2>2. past' \subseteq Op
    BY <1>1, <1>3, <2>1 DEF Overwrites
  <2> QED BY <1>1, <1>3, <2>2
<1> QED BY <1>2, <1>3

LEMMA RequestType ==
  ASSUME TypeOK, Clocked, NEW r \in Request, RequestStep(r)
  PROVE  TypeOK'
<1> USE DEF Process
<1>0. proc[r] \in Local
  BY DEF TypeOK
<1>1. ASSUME NEW o \in Op, NEW f \in BOOLEAN, Call(r, o, f) PROVE TypeOK'
  <2>1. [Idle EXCEPT !.pc = "startGet", !.op = o, !.force = f] \in Local
    BY IdleType DEF Local, PC, StorePC
  <2> QED BY <1>1, <2>1 DEF Call, Become, TypeOK
<1>s. /\ [proc[r] EXCEPT !.pc = "startPut", !.stamp = proc[r].age] \in Local
      /\ [proc[r] EXCEPT !.pc = "startRead"] \in Local
  BY <1>0 DEF Local, PC, StorePC
<1>2. CASE StartGet(r)
  BY <1>s, <1>2 DEF StartGet, Get, Goto, Stamped, Become, TypeOK
<1>3. CASE StartRead(r)
  BY <1>s, <1>3, IdleType DEF StartRead, Return, Stamped, Become, TypeOK
<1>4. CASE StartConflict(r)
  BY <1>4, IdleType DEF StartConflict, Return, Become, TypeOK
<1>5. CASE Enqueue(r)
  <2>1. queue' \in [Op -> 0..(ENVELOPE + 1)]
    BY <1>5, Times DEF Enqueue, Sealed, TypeOK
  <2> QED BY <1>5, <2>1, IdleType DEF Enqueue, Return, Become, TypeOK
<1>6. ASSUME NEW b \in BOOLEAN, StartPut(r, b) PROVE TypeOK'
  <2>1. [op |-> proc[r].op, status |-> "queued", force |-> proc[r].force] \in Job
    BY <1>0 DEF Local, Job, Status, Active
  <2>2. [Idle EXCEPT !.pc = "enqueue", !.op = proc[r].op, !.age = proc[r].age]
          \in Local
    BY <1>0, IdleType DEF Local, PC
  <2>3. past' \subseteq Op /\ lapse' \in Lapse
    <3>1. Excuse \/ (Overwrites(job.op) /\ UNCHANGED lapse)
      BY <1>6 DEF StartPut, Excuse, Overwrites
    <3> QED BY <3>1, ReplacedType
  <2>4. proc' \in [Process -> Local]
    BY <1>6, <2>2, IdleType DEF StartPut, Become, TypeOK
  <2>6. jobAge' \in 0..(LEASE + 1)
    <3>1. /\ proc[r].stamp <= proc[r].age /\ proc[r].age <= TIMEOUT
          /\ proc[r].stamp \in Nat /\ proc[r].age \in Nat
      BY <1>0, <1>6 DEF Clocked, StartPut, pc, Local
    <3>2. proc[r].age - proc[r].stamp \in Nat
          /\ proc[r].age - proc[r].stamp <= LEASE
      BY <3>1, Times
    <3> QED BY <1>6, <3>2, Times DEF StartPut
  <2> QED BY <1>6, <2>1, <2>3, <2>4, <2>6 DEF StartPut, Put, TypeOK
<1>7. ASSUME NEW b \in BOOLEAN, EnqueueRaises(r, b) PROVE TypeOK'
  <2>1. [proc[r] EXCEPT !.pc = "endGet"] \in Local
    BY <1>0 DEF Local, PC, StorePC
  <2>2. queue' \in [Op -> 0..(ENVELOPE + 1)]
    BY <1>7, Times DEF EnqueueRaises, Sealed, TypeOK
  <2>3. past' \subseteq Op /\ lapse' \in Lapse
    BY <1>7 DEF EnqueueRaises, Excuse, Lapse, TypeOK
  <2> QED BY <1>7, <2>1, <2>2, <2>3 DEF EnqueueRaises, Goto, Become, TypeOK
<1>8. CASE \E ask \in Asks : Call(r, ask[1], ask[2])
  BY <1>1, <1>8, AskType
<1>9. CASE \E b \in BOOLEAN : StartPut(r, b) \/ EnqueueRaises(r, b)
  BY <1>6, <1>7, <1>9
<1> QED BY <1>2, <1>3, <1>4, <1>5, <1>8, <1>9 DEF RequestStep

LEMMA WorkerType ==
  ASSUME TypeOK, NEW w \in Worker, WorkerStep(w)
  PROVE  TypeOK'
<1> USE DEF Process
<1>0. proc[w] \in Local
  BY DEF TypeOK
<1>1. ASSUME NEW o \in Op, Open(w, o) PROVE TypeOK'
  <2>1. [Idle EXCEPT !.pc = "claimGet", !.op = o] \in Local
    BY IdleType DEF Local, PC, StorePC
  <2> QED BY <1>1, <2>1 DEF Open, Become, TypeOK, Lapse
<1>2. CASE ClaimGet(w)
  BY <1>0, <1>2 DEF ClaimGet, Get, Goto, Become, TypeOK, Local, PC, StorePC
<1>3. CASE ClaimRead(w)
  <2>1. [proc[w] EXCEPT !.pc = "claimPut", !.seen = View] \in Local
    BY <1>0, ViewType DEF Local, PC, StorePC
  <2> QED BY <1>3, <2>1, IdleType DEF ClaimRead, Return, Become, TypeOK
<1>4. CASE ClaimConflict(w)
  BY <1>4, IdleType DEF ClaimConflict, Return, Become, TypeOK
<1>5. CASE ReadForce(w)
  <2>1. [proc[w] EXCEPT !.pc = "sync", !.force = job.force] \in Local
    BY <1>0 DEF TypeOK, Job, Local, PC
  <2> QED BY <1>5, <2>1 DEF ReadForce, Become, TypeOK
<1>6. ASSUME NEW b \in BOOLEAN, ClaimPut(w, b) PROVE TypeOK'
  <2>1. [proc[w].seen EXCEPT !.status = "running"] \in Job
    BY <1>0 DEF Local, Job, Status, Active
  <2>2. [proc[w] EXCEPT !.pc = "readForce", !.seen = Missing] \in Local
    BY <1>0, IdleType DEF Local, PC, StorePC
  <2> QED BY <1>6, <2>1, <2>2, IdleType DEF ClaimPut, Put, Become, TypeOK
<1>7. ASSUME NEW s \in Terminal, SyncEnds(w, s) PROVE TypeOK'
  <2>1. [proc[w] EXCEPT !.pc = "endGet", !.goal = s, !.force = FALSE] \in Local
    BY <1>0 DEF Local, PC, StorePC
  <2> QED BY <1>7, <2>1 DEF SyncEnds, Become, TypeOK
<1> QED BY <1>1, <1>2, <1>3, <1>4, <1>5, <1>6, <1>7 DEF WorkerStep

LEMMA AnyType ==
  ASSUME TypeOK, NEW p \in Process, AnyStep(p)
  PROVE  TypeOK'
<1>0. proc[p] \in Local
  BY DEF TypeOK
<1>1. CASE EndGet(p)
  BY <1>0, <1>1 DEF EndGet, Get, Goto, Become, TypeOK, Local, PC, StorePC
<1>2. CASE EndRead(p)
  <2>1. [proc[p] EXCEPT !.pc = "endPut", !.seen = View] \in Local
    BY <1>0, ViewType DEF Local, PC, StorePC
  <2> QED BY <1>2, <2>1, IdleType DEF EndRead, Return, Become, TypeOK
<1>3. CASE StoreFails(p)
  BY <1>3, RaisedType DEF StoreFails, Become, TypeOK
<1>4. CASE Crash(p)
  BY <1>4, IdleType DEF Crash, Return, Become, TypeOK
<1>5. ASSUME NEW b \in BOOLEAN, EndPut(p, b) PROVE TypeOK'
  <2>1. [proc[p].seen EXCEPT !.status = proc[p].goal] \in Job
    BY <1>0 DEF Local, Job, Status
  <2> QED BY <1>5, <2>1, IdleType, RaisedType DEF EndPut, Put, Become, TypeOK
<1> QED BY <1>1, <1>2, <1>3, <1>4, <1>5 DEF AnyStep

LEMMA TickType == TypeOK /\ Tick => TypeOK'
<1> SUFFICES ASSUME TypeOK, Tick PROVE TypeOK'
  OBVIOUS
<1>1. jobAge' \in 0..(LEASE + 1)
  BY Times DEF Tick, TypeOK
<1>2. queue' \in [Op -> 0..(ENVELOPE + 1)]
  BY Times DEF Tick, TypeOK
<1>3. \A p \in Process : [proc[p] EXCEPT !.age = @ + 1] \in Local
  BY DEF TypeOK, Local
<1>4. proc' \in [Process -> Local]
  BY <1>3 DEF Tick, TypeOK
<1> QED BY <1>1, <1>2, <1>4 DEF Tick, TypeOK

LEMMA TypeInductive == TypeOK /\ Clocked /\ [Next]_vars => TypeOK'
<1> SUFFICES ASSUME TypeOK, Clocked, [Next]_vars PROVE TypeOK'
  OBVIOUS
<1>1. CASE Next
  BY <1>1, RequestType, WorkerType, AnyType, TickType DEF Next
<1>2. CASE UNCHANGED vars
  BY <1>2 DEF vars, TypeOK
<1> QED BY <1>1, <1>2

(* A step of one invocation starts its clock, keeps it, or reads it. *)
ClockKept(p) ==
  /\ \A q \in Process \ {p} : proc'[q] = proc[q]
  /\ \/ proc'[p].pc = "idle"
     \/ proc'[p].age = 0 /\ proc'[p].stamp = 0
     \/ /\ pc(p) # "idle" /\ proc'[p].age = proc[p].age
        /\ proc'[p].stamp \in {0, proc[p].stamp, proc[p].age}

LEMMA ClockKeeps ==
  ASSUME TypeOK, Clocked, NEW p \in Process, ClockKept(p)
  PROVE  Clocked'
<1>1. proc[p].age \in Nat /\ proc[p].stamp \in Nat /\ TIMEOUT \in Nat
  BY Times DEF TypeOK, Local
<1>2. proc'[p].pc # "idle" =>
        proc'[p].stamp <= proc'[p].age /\ proc'[p].age <= TIMEOUT
  BY <1>1 DEF ClockKept, Clocked, pc
<1> QED BY <1>2 DEF ClockKept, Clocked, pc

LEMMA RequestClocked ==
  ASSUME TypeOK, NEW r \in Request, RequestStep(r)
  PROVE  ClockKept(r)
<1> USE DEF pc, ClockKept
<1>0. r \in Process /\ proc \in [Process -> Local]
  BY DEF TypeOK, Process
<1>1. ASSUME NEW ask \in Asks, Call(r, ask[1], ask[2]) PROVE ClockKept(r)
  BY <1>0, <1>1 DEF Become, Call, Idle
<1>s. ASSUME Stamped(r), proc[r].pc # "idle" PROVE ClockKept(r)
  BY <1>0, <1>s DEF Become, Stamped, Local
<1>e. ASSUME Return(r) PROVE ClockKept(r)
  BY <1>0, <1>e DEF Become, Return, Idle
<1>2. CASE StartGet(r)
  <2>1. CASE Goto(r, "startRead")
    BY <1>0, <1>2, <2>1 DEF Become, StartGet, Goto, Local
  <2> QED BY <1>2, <1>s, <2>1 DEF StartGet
<1>3. CASE StartRead(r)
  BY <1>3, <1>s, <1>e DEF StartRead
<1>4. CASE StartConflict(r) \/ Enqueue(r)
  BY <1>4, <1>e DEF StartConflict, Enqueue
<1>5. ASSUME NEW b \in BOOLEAN, StartPut(r, b) PROVE ClockKept(r)
  BY <1>0, <1>5 DEF Become, StartPut, Idle
<1>6. ASSUME NEW b \in BOOLEAN, EnqueueRaises(r, b) PROVE ClockKept(r)
  BY <1>0, <1>6 DEF Become, EnqueueRaises, Goto, Local
<1> QED BY <1>1, <1>2, <1>3, <1>4, <1>5, <1>6 DEF RequestStep

LEMMA WorkerClocked ==
  ASSUME TypeOK, NEW w \in Worker, WorkerStep(w)
  PROVE  ClockKept(w)
<1> USE DEF pc, ClockKept
<1>0. w \in Process /\ proc \in [Process -> Local]
  BY DEF TypeOK, Process
<1>e. ASSUME Return(w) PROVE ClockKept(w)
  BY <1>0, <1>e DEF Become, Return, Idle
<1>1. ASSUME NEW o \in Op, Open(w, o) PROVE ClockKept(w)
  BY <1>0, <1>1 DEF Become, Open, Idle
<1>2. CASE ClaimGet(w)
  BY <1>0, <1>2 DEF Become, ClaimGet, Goto, Local
<1>3. CASE ClaimRead(w)
  <2>1. CASE Become(w, [proc[w] EXCEPT !.pc = "claimPut", !.seen = View])
    BY <1>0, <1>3, <2>1 DEF Become, ClaimRead, Local
  <2> QED BY <1>3, <1>e, <2>1 DEF ClaimRead
<1>4. CASE ClaimConflict(w)
  BY <1>4, <1>e DEF ClaimConflict
<1>5. CASE ReadForce(w)
  BY <1>0, <1>5 DEF Become, ReadForce, Local
<1>6. ASSUME NEW b \in BOOLEAN, ClaimPut(w, b) PROVE ClockKept(w)
  BY <1>0, <1>6 DEF Become, ClaimPut, Idle, Local
<1>7. ASSUME NEW s \in Terminal, SyncEnds(w, s) PROVE ClockKept(w)
  BY <1>0, <1>7 DEF Become, SyncEnds, Local
<1> QED BY <1>1, <1>2, <1>3, <1>4, <1>5, <1>6, <1>7 DEF WorkerStep

LEMMA AnyClocked ==
  ASSUME TypeOK, NEW p \in Process, AnyStep(p)
  PROVE  ClockKept(p)
<1> USE DEF pc, ClockKept
<1>0. proc \in [Process -> Local]
  BY DEF TypeOK
<1>e. ASSUME Return(p) PROVE ClockKept(p)
  BY <1>0, <1>e DEF Become, Return, Idle
<1>1. CASE EndGet(p)
  BY <1>0, <1>1 DEF Become, EndGet, Goto, Local
<1>2. CASE EndRead(p)
  <2>1. CASE Become(p, [proc[p] EXCEPT !.pc = "endPut", !.seen = View])
    BY <1>0, <1>2, <2>1 DEF Become, EndRead, Local
  <2> QED BY <1>2, <1>e, <2>1 DEF EndRead
<1>3. CASE Crash(p)
  BY <1>3, <1>e DEF Crash
<1>4. \/ Raised(p).pc = "idle"
      \/ /\ pc(p) # "idle" /\ Raised(p).age = proc[p].age
         /\ Raised(p).stamp = 0
  BY DEF Raised, Idle
<1>5. CASE StoreFails(p)
  BY <1>0, <1>4, <1>5 DEF Become, StoreFails
<1>6. ASSUME NEW b \in BOOLEAN, EndPut(p, b) PROVE ClockKept(p)
  <2>1. proc'[p] \in {Idle, Raised(p)}
    BY <1>0, <1>6 DEF Become, EndPut
  <2>2. \A q \in Process \ {p} : proc'[q] = proc[q]
    BY <1>0, <1>6 DEF Become, EndPut
  <2> QED BY <1>4, <2>1, <2>2 DEF Idle
<1> QED BY <1>1, <1>2, <1>3, <1>5, <1>6 DEF AnyStep

LEMMA TickClocked == ASSUME TypeOK, Clocked, Tick PROVE Clocked'
<1>1. \A p \in Process : proc[p].age \in Nat /\ proc[p].stamp \in Nat
  BY DEF TypeOK, Local
<1>2. \A p \in Process : proc'[p].pc # "idle" =>
        /\ proc[p].pc # "idle" /\ proc[p].age < TIMEOUT
        /\ proc'[p].age = proc[p].age + 1 /\ proc'[p].stamp = proc[p].stamp
  BY DEF TypeOK, Local, Tick, pc
<1> QED BY <1>1, <1>2, Times DEF Clocked, pc

LEMMA ClockInductive == TypeOK /\ Clocked /\ [Next]_vars => Clocked'
<1> SUFFICES ASSUME TypeOK, Clocked, [Next]_vars PROVE Clocked'
  OBVIOUS
<1>1. \A r \in Request : RequestStep(r) => Clocked'
  BY RequestClocked, ClockKeeps DEF Process
<1>2. \A w \in Worker : WorkerStep(w) => Clocked'
  BY WorkerClocked, ClockKeeps DEF Process
<1>3. \A p \in Process : AnyStep(p) => Clocked'
  BY AnyClocked, ClockKeeps
<1>4. CASE Next
  BY <1>1, <1>2, <1>3, <1>4, TickClocked DEF Next
<1>5. CASE UNCHANGED vars
  BY <1>5 DEF vars, Clocked, pc
<1> QED BY <1>4, <1>5

LEMMA TypedAndClocked == Spec => [](TypeOK /\ Clocked)
<1>1. Init => TypeOK /\ Clocked
  BY InitType DEF Init, Clocked, Idle, pc
<1> QED BY <1>1, TypeInductive, ClockInductive, PTL DEF Spec

(* The variables keep their types, for all constants. *)
THEOREM TypeCorrect == Spec => []TypeOK
BY TypedAndClocked, PTL
-----------------------------------------------------------------------------
LEMMA InitCoherent == Init => Coherent
BY OpAssumption DEF Init, Coherent, Missing, Idle, pc

LEMMA RequestCoherent ==
  ASSUME TypeOK, Coherent, NEW r \in Request, RequestStep(r)
  PROVE  Coherent'
<1> USE DEF Process, pc, Coherent, ReadHolds, Idle
<1>0. r \in Process /\ proc[r] \in Local /\ job \in Job
  BY DEF TypeOK
<1>t. proc \in [Process -> Local] /\ valid \subseteq Process
  BY DEF TypeOK
<1>1. ASSUME NEW o \in Op, NEW f \in BOOLEAN, Call(r, o, f) PROVE Coherent'
  BY <1>0, <1>t, <1>1 DEF Call, Become
<1>2. CASE StartGet(r)
  <2>1. CASE Stamped(r)
    <3>1. /\ proc'[r].pc = "startPut" /\ proc'[r].op = proc[r].op
          /\ \A q \in Process \ {r} : proc'[q] = proc[q]
      BY <1>0, <1>t, <2>1 DEF Stamped, Become, Local
    <3>2. job.status = "missing" \/ Goto(r, "startRead")
      BY <1>2 DEF StartGet
    <3>3. CASE job.status = "missing"
      BY <1>0, <1>2, <3>1, <3>3, OpAssumption DEF StartGet, Get, Active
    <3>4. CASE Goto(r, "startRead")
      <4>1. proc'[r].pc = "startRead"
        BY <1>0, <1>t, <3>4 DEF Goto, Become, Local
      <4> QED BY <3>1, <4>1
    <3> QED BY <3>2, <3>3, <3>4
  <2>2. CASE Goto(r, "startRead")
    BY <1>0, <1>t, <1>2, <2>2 DEF StartGet, Get, Goto, Become, Local
  <2> QED BY <1>2, <2>1, <2>2 DEF StartGet
<1>3. CASE StartRead(r)
  <2>1. CASE Stamped(r) /\ UNCHANGED valid /\ View.status \notin Active
             /\ job.op # proc[r].op
    <3>1. /\ proc'[r].pc = "startPut" /\ proc'[r].op = proc[r].op
          /\ \A q \in Process \ {r} : proc'[q] = proc[q]
      BY <1>0, <1>t, <2>1 DEF Stamped, Become, Local
    <3> QED BY <1>0, <1>3, <2>1, <3>1, ViewKeeps DEF StartRead
  <2>2. CASE Return(r)
    BY <1>0, <1>t, <1>3, <2>2 DEF StartRead, Return, Become
  <2> QED BY <1>3, <2>1, <2>2 DEF StartRead
<1>4. CASE StartConflict(r)
  BY <1>0, <1>t, <1>4 DEF StartConflict, Return, Become
<1>5. CASE Enqueue(r)
  BY <1>0, <1>t, <1>5 DEF Enqueue, Return, Become
<1>6. ASSUME NEW b \in BOOLEAN, StartPut(r, b) PROVE Coherent'
  BY <1>0, <1>t, <1>6, OpAssumption DEF StartPut, Put, Become, Local
<1>7. ASSUME NEW b \in BOOLEAN, EnqueueRaises(r, b) PROVE Coherent'
  BY <1>0, <1>t, <1>7 DEF EnqueueRaises, Goto, Become, Local
<1>8. CASE \E ask \in Asks : Call(r, ask[1], ask[2])
  BY <1>1, <1>8, AskType
<1>9. CASE \E b \in BOOLEAN : StartPut(r, b) \/ EnqueueRaises(r, b)
  BY <1>6, <1>7, <1>9
<1> QED BY <1>2, <1>3, <1>4, <1>5, <1>8, <1>9 DEF RequestStep

LEMMA WorkerCoherent ==
  ASSUME TypeOK, Coherent, NEW w \in Worker, WorkerStep(w)
  PROVE  Coherent'
<1> USE DEF Process, pc, Coherent, ReadHolds, Idle
<1>0. w \in Process /\ proc[w] \in Local /\ job \in Job
  BY DEF TypeOK
<1>t. proc \in [Process -> Local] /\ valid \subseteq Process
  BY DEF TypeOK
<1>1. ASSUME NEW o \in Op, Open(w, o) PROVE Coherent'
  BY <1>0, <1>t, <1>1 DEF Open, Become
<1>2. CASE ClaimGet(w)
  BY <1>0, <1>t, <1>2 DEF ClaimGet, Get, Goto, Become, Local
<1>3. CASE ClaimRead(w)
  <2>1. CASE job.op = proc[w].op /\ View.status = "queued"
    <3>1. /\ proc' = [proc EXCEPT ![w] =
                        [proc[w] EXCEPT !.pc = "claimPut", !.seen = View]]
          /\ job' = job /\ jobAge' = jobAge /\ valid' = valid
      BY <1>3, <2>1 DEF ClaimRead, Become
    <3>2. /\ proc'[w].pc = "claimPut" /\ proc'[w].op = proc[w].op
          /\ proc'[w].seen = View
          /\ \A q \in Process \ {w} : proc'[q] = proc[q]
      BY <1>0, <1>t, <3>1 DEF Local
    <3>3. proc[w].op \in Op
      BY <1>3 DEF ClaimRead
    <3> QED BY <1>0, <2>1, <3>1, <3>2, <3>3, ViewKeeps
  <2>2. CASE ~(job.op = proc[w].op /\ View.status = "queued")
    BY <1>0, <1>t, <1>3, <2>2 DEF ClaimRead, Return, Become
  <2> QED BY <2>1, <2>2
<1>4. CASE ClaimConflict(w)
  BY <1>0, <1>t, <1>4 DEF ClaimConflict, Return, Become
<1>5. CASE ReadForce(w)
  BY <1>0, <1>t, <1>5 DEF ReadForce, Become, Local
<1>6. ASSUME NEW b \in BOOLEAN, ClaimPut(w, b) PROVE Coherent'
  BY <1>0, <1>t, <1>6, OpAssumption DEF ClaimPut, Put, Become, Local, Job
<1>7. ASSUME NEW s \in Terminal, SyncEnds(w, s) PROVE Coherent'
  BY <1>0, <1>t, <1>7 DEF SyncEnds, Become, Local
<1> QED BY <1>1, <1>2, <1>3, <1>4, <1>5, <1>6, <1>7 DEF WorkerStep

LEMMA AnyCoherent ==
  ASSUME TypeOK, Coherent, NEW p \in Process, AnyStep(p)
  PROVE  Coherent'
<1> USE DEF pc, Coherent, ReadHolds, Idle
<1>0. proc[p] \in Local /\ job \in Job
  BY DEF TypeOK
<1>t. proc \in [Process -> Local] /\ valid \subseteq Process
  BY DEF TypeOK
<1>1. CASE EndGet(p)
  BY <1>0, <1>t, <1>1 DEF EndGet, Get, Goto, Become, Local
<1>2. CASE EndRead(p)
  <2>1. CASE job.op = proc[p].op
    <3>1. /\ proc' = [proc EXCEPT ![p] =
                        [proc[p] EXCEPT !.pc = "endPut", !.seen = View]]
          /\ job' = job /\ jobAge' = jobAge /\ valid' = valid
      BY <1>2, <2>1 DEF EndRead, Become
    <3>2. /\ proc'[p].pc = "endPut" /\ proc'[p].op = proc[p].op
          /\ proc'[p].seen = View
          /\ \A q \in Process \ {p} : proc'[q] = proc[q]
      BY <1>0, <1>t, <3>1 DEF Local
    <3>3. proc[p].op \in Op
      BY <1>2 DEF EndRead
    <3> QED BY <1>0, <2>1, <3>1, <3>2, <3>3, ViewKeeps
  <2>2. CASE ~(job.op = proc[p].op)
    BY <1>0, <1>t, <1>2, <2>2 DEF EndRead, Return, Become
  <2> QED BY <2>1, <2>2
<1>3. CASE StoreFails(p)
  <2>1. p \notin valid'
    BY <1>3 DEF StoreFails
  <2> QED BY <1>0, <1>t, <1>3, <2>1 DEF StoreFails, Become, Raised, Local, StorePC
<1>4. CASE Crash(p)
  BY <1>0, <1>t, <1>4 DEF Crash, Return, Become
<1>5. ASSUME NEW b \in BOOLEAN, EndPut(p, b) PROVE Coherent'
  BY <1>0, <1>t, <1>5, OpAssumption
  DEF EndPut, Put, Become, Raised, Local, Job, Terminal
<1> QED BY <1>1, <1>2, <1>3, <1>4, <1>5 DEF AnyStep

LEMMA TickCoherent ==
  ASSUME TypeOK, Coherent, Tick
  PROVE  Coherent'
<1>1. proc \in [Process -> Local] /\ valid \subseteq Process
  BY DEF TypeOK
<1>2. \A p \in Process : /\ proc'[p].pc = proc[p].pc
                         /\ proc'[p].op = proc[p].op
                         /\ proc'[p].seen = proc[p].seen
  BY <1>1 DEF Tick, Local
<1>3. jobAge > LEASE => jobAge' > LEASE
  <2>1. LEASE \in Nat /\ jobAge \in Nat
    BY Times DEF TypeOK
  <2> QED BY <2>1 DEF Tick
<1> QED BY <1>1, <1>2, <1>3 DEF Tick, Coherent, ReadHolds, pc

LEMMA CoherentInductive == TypeOK /\ Coherent /\ [Next]_vars => Coherent'
<1> SUFFICES ASSUME TypeOK, Coherent, [Next]_vars PROVE Coherent'
  OBVIOUS
<1>1. CASE Next
  BY <1>1, RequestCoherent, WorkerCoherent, AnyCoherent, TickCoherent DEF Next
<1>2. CASE UNCHANGED vars
  BY <1>2 DEF vars, Coherent, ReadHolds, pc
<1> QED BY <1>1, <1>2

(* Whenever a call's conditional write is applied, the record it read by   *)
(* its second, unconditional GET is the stored one.                        *)
THEOREM ReadsCoherent == Spec => []Coherent
BY TypeCorrect, InitCoherent, CoherentInductive, PTL DEF Spec
-----------------------------------------------------------------------------
(* A step of the record is one of three writes or the passing of time.     *)
LEMMA RecordSteps ==
  ASSUME Next
  PROVE  \/ \E r \in Request, b \in BOOLEAN : StartPut(r, b)
         \/ \E w \in Worker, b \in BOOLEAN : ClaimPut(w, b)
         \/ \E p \in Process, b \in BOOLEAN : EndPut(p, b)
         \/ Tick
         \/ UNCHANGED <<job, jobAge>>
<1>1. ASSUME NEW r \in Request, RequestStep(r),
             \A b \in BOOLEAN : ~StartPut(r, b)
      PROVE  UNCHANGED <<job, jobAge>>
  BY <1>1 DEF RequestStep, Call, StartGet, StartRead, StartConflict, Enqueue,
              EnqueueRaises
<1>2. ASSUME NEW w \in Worker, WorkerStep(w), \A b \in BOOLEAN : ~ClaimPut(w, b)
      PROVE  UNCHANGED <<job, jobAge>>
  BY <1>2 DEF WorkerStep, Open, ClaimGet, ClaimRead, ClaimConflict, ReadForce,
              SyncEnds
<1>3. ASSUME NEW p \in Process, AnyStep(p), \A b \in BOOLEAN : ~EndPut(p, b)
      PROVE  UNCHANGED <<job, jobAge>>
  BY <1>3 DEF AnyStep, EndGet, EndRead, StoreFails, Crash
<1> QED BY <1>1, <1>2, <1>3 DEF Next

LEMMA OutcomeStep ==
  ASSUME TypeOK, Coherent, [Next]_vars, NEW p \in Process, pc(p) = "endPut",
         job' # job, proc'[p] # proc[p]
  PROVE  job.op = proc[p].op /\ job'.op = job.op /\ job'.force = job.force
<1> USE DEF pc
<1>0. proc \in [Process -> Local] /\ proc[p] \in Local
  BY DEF TypeOK
<1>1. Next
  BY DEF vars
<1>2. ASSUME NEW r \in Request, NEW b \in BOOLEAN, StartPut(r, b) PROVE FALSE
  BY <1>0, <1>2 DEF StartPut, Become, Process
<1>3. ASSUME NEW w \in Worker, NEW b \in BOOLEAN, ClaimPut(w, b) PROVE FALSE
  BY <1>0, <1>3 DEF ClaimPut, Become, Process
<1>4. ASSUME NEW q \in Process, NEW b \in BOOLEAN, EndPut(q, b), q # p
      PROVE  FALSE
  BY <1>0, <1>4 DEF EndPut, Become
<1>5. ~Tick
  BY DEF Tick
<1>6. PICK b \in BOOLEAN : EndPut(p, b)
  BY <1>1, <1>2, <1>3, <1>4, <1>5, RecordSteps
<1>7. /\ proc[p].seen.op = proc[p].op /\ proc[p].seen.op = job.op
      /\ proc[p].seen.force = job.force
  BY <1>6 DEF Coherent, ReadHolds, EndPut, Put
<1> QED BY <1>0, <1>6, <1>7 DEF EndPut, Put, Local, Job

(* An outcome is only ever recorded for the operation its process works    *)
(* for, however late or often it is recorded.                              *)
THEOREM OutcomeOwned == Spec => OutcomeOfItsOwner
<1>1. TypeOK /\ Coherent /\ [Next]_vars => [OutcomeIsOwn]_vars
  BY OutcomeStep DEF OutcomeIsOwn
<1> QED BY <1>1, TypeCorrect, ReadsCoherent, PTL DEF Spec, OutcomeOfItsOwner
-----------------------------------------------------------------------------
LEMMA LifecycleInit == Init => Lifecycle!Init
BY Times DEF Init, Lifecycle!Init, Missing

LEMMA LifecycleStep ==
  ASSUME TypeOK, Clocked, Coherent, [Next]_vars
  PROVE  [Lifecycle!Next]_(Lifecycle!vars)
<1> USE DEF pc
<1>0. job \in Job /\ LEASE \in Nat /\ jobAge \in Nat
  BY Times DEF TypeOK
<1>t. \A p \in Process : proc[p] \in Local
  BY DEF TypeOK
<1>1. ASSUME NEW r \in Request, NEW b \in BOOLEAN, StartPut(r, b)
      PROVE  Lifecycle!Next
  <2>1. /\ job.op # proc[r].op /\ (job.status \notin Active \/ jobAge > LEASE)
        /\ proc[r].op \in Op
    BY <1>1 DEF Coherent, ReadHolds, StartPut, Put, Process
  <2>0. ~(jobAge' > LEASE)
    <3>1. /\ proc[r].stamp <= proc[r].age /\ proc[r].age <= TIMEOUT
          /\ proc[r].stamp \in Nat /\ proc[r].age \in Nat
          /\ jobAge' = proc[r].age - proc[r].stamp
      BY <1>t, <1>1 DEF Clocked, StartPut, Process, Local
    <3> QED BY <3>1, Times
  <2>2. Lifecycle!Queue(proc[r].op, proc[r].force)
    BY <1>0, <1>1, <2>0, <2>1 DEF StartPut, Put, Lifecycle!Queue, Active,
                            Lifecycle!Active
  <2>3. proc[r].force \in BOOLEAN
    BY <1>t DEF Local, Process
  <2> QED BY <2>1, <2>2, <2>3 DEF Lifecycle!Next
<1>2. ASSUME NEW w \in Worker, NEW b \in BOOLEAN, ClaimPut(w, b)
      PROVE  Lifecycle!Next
  <2>1. /\ proc[w].seen.op = job.op /\ proc[w].seen.force = job.force
        /\ job.status = "queued" /\ proc[w].seen \in Job
    BY <1>t, <1>2 DEF Coherent, ReadHolds, ClaimPut, Put, Process, Local
  <2>2. Lifecycle!Claim
    BY <1>2, <2>1 DEF ClaimPut, Put, Lifecycle!Claim, Job
  <2> QED BY <2>2 DEF Lifecycle!Next
<1>3. ASSUME NEW p \in Process, NEW b \in BOOLEAN, EndPut(p, b)
      PROVE  Lifecycle!Next
  <2>1. /\ proc[p].seen.op = job.op /\ proc[p].seen.force = job.force
        /\ proc[p].seen.op \in Op /\ proc[p].seen \in Job
        /\ proc[p].goal \in Terminal
    BY <1>t, <1>3 DEF Coherent, ReadHolds, EndPut, Put, Local
  <2>2. job.status # "missing"
    BY <2>1, OpAssumption DEF Coherent
  <2>3. Lifecycle!Settle(proc[p].goal)
    BY <1>3, <2>1, <2>2 DEF EndPut, Put, Lifecycle!Settle, Job
  <2> QED BY <2>1, <2>3 DEF Lifecycle!Next, Lifecycle!Terminal, Terminal
<1>4. CASE Tick
  <2>1. job' = job
    BY <1>4 DEF Tick
  <2>2. CASE (jobAge' > LEASE) = (jobAge > LEASE)
    BY <2>1, <2>2 DEF Lifecycle!vars
  <2>3. CASE (jobAge' > LEASE) # (jobAge > LEASE)
    <3>1. job.status # "missing" /\ jobAge <= LEASE /\ jobAge' > LEASE
      BY <1>0, <1>4, <2>3 DEF Tick
    <3> QED BY <1>0, <2>1, <3>1 DEF Lifecycle!Next, Lifecycle!Expire
  <2> QED BY <2>2, <2>3
<1>5. CASE UNCHANGED <<job, jobAge>>
  BY <1>5 DEF Lifecycle!vars
<1>6. CASE UNCHANGED vars
  BY <1>6 DEF vars, Lifecycle!vars
<1> QED BY <1>1, <1>2, <1>3, <1>4, <1>5, <1>6, RecordSteps

(* Double reads and conditional writes amount to the one-step operations   *)
(* of SyncJobLifecycle: the record is queued over no operation in          *)
(* progress, claimed once, settled for itself and freed by its lease.      *)
THEOREM LifecycleImplemented == Spec => ImplementsLifecycle
BY LifecycleInit, LifecycleStep, TypedAndClocked, ReadsCoherent, PTL
DEF Spec, ImplementsLifecycle, Lifecycle!Spec
-----------------------------------------------------------------------------
(* LEASE_SECONDS is the 900 s of an envelope and the 900 s of the          *)
(* platform's limit: the lease covers an envelope opened at its last       *)
(* moment and its worker, and no time between started_at and the sealing.  *)
LeaseCovers == ENVELOPE + TIMEOUT <= LEASE

(* The operation has been stored, so that to store it again is excused. *)
Known(o) == o = job.op \/ o \in past

(* A request between its write and the end of its call, a worker with an   *)
(* envelope, and one whose claim was applied and heard.                    *)
Author(r) ==
  r \in Request /\ pc(r) \in {"enqueue", "endGet", "endRead", "endPut"}
Serves(w) == w \in Worker /\ pc(w) # "idle"
Holds(w) ==
  w \in Worker /\ pc(w) \in {"readForce", "sync", "endGet", "endRead", "endPut"}
Acts(p) == Author(p) \/ Serves(p)
Ours(p) == proc[p].op = job.op

AllKnown ==
  /\ \A o \in Op : queue[o] > 0 => Known(o)
  /\ \A p \in Process : Acts(p) => Known(proc[p].op)

(* How old the stored operation is when it waits for a worker to claim it, *)
(* and while one runs it.                                                  *)
InTime ==
  \A p \in Process :
    Serves(p) /\ Ours(p) /\ (job.status = "queued" \/ Running(p))
      => jobAge <= ENVELOPE + proc[p].age

Roles == \A r \in Request : pc(r) \notin {"readForce", "sync"}

(* Until its request has enqueued it, nobody else acts on an operation. *)
AuthorAlone ==
  \A r \in Process : Author(r) /\ Ours(r) =>
    /\ queue[proc[r].op] = 0
    /\ \A p \in Process : Acts(p) /\ Ours(p) => p = r

(* An operation is claimed once. *)
HolderAlone ==
  \A w \in Process : Holds(w) /\ Ours(w) =>
    /\ job.status # "queued"
    /\ \A v \in Process : Holds(v) /\ Ours(v) => v = w

RunnerHolds ==
  \A w \in Worker : Running(w) =>
    /\ Ours(w) /\ job.status = "running"
    /\ pc(w) = "sync" => proc[w].force = job.force

Flight ==
  AllKnown /\ InTime /\ Roles /\ AuthorAlone /\ HolderAlone /\ RunnerHolds
FlightUnlessExcused == lapse # "none" \/ Flight

(* A step of one process that changes nothing of the record, the queue or  *)
(* its own operation, and brings it to no later stage of it.               *)
Moves(p) ==
  /\ UNCHANGED <<job, jobAge, queue, past, lapse>>
  /\ \A q \in Process \ {p} : proc'[q] = proc[q]
  /\ \/ proc'[p] = Idle
     \/ /\ proc'[p].op = proc[p].op /\ proc'[p].age = proc[p].age
        /\ proc[p].pc # "idle"
        /\ Author(p)' => Author(p)
        /\ Holds(p)' => Holds(p)
        /\ p \in Request => proc'[p].pc \notin {"readForce", "sync"}
        /\ p \in Worker /\ proc'[p].pc \in {"readForce", "sync"} => Running(p)
        /\ proc'[p].pc = "sync" => proc'[p].force = job.force

LEMMA MovesKeep ==
  ASSUME TypeOK, Flight, NEW p \in Process, Moves(p)
  PROVE  Flight'
<1>0. /\ \A q \in Process \ {p} : proc'[q] = proc[q]
      /\ \/ proc'[p] = Idle
         \/ /\ proc'[p].op = proc[p].op /\ proc'[p].age = proc[p].age
            /\ proc[p].pc # "idle"
  BY DEF Moves
<1>1. \A q \in Process : proc'[q].pc # "idle" =>
        /\ proc'[q].op = proc[q].op /\ proc'[q].age = proc[q].age
        /\ proc[q].pc # "idle"
  BY <1>0 DEF Idle
<1>2. UNCHANGED <<job, jobAge, queue, past, lapse>>
  BY DEF Moves
<1>3. /\ \A q \in Process : Author(q)' => Author(q)
      /\ \A q \in Process : Holds(q)' => Holds(q)
      /\ \A q \in Process : Serves(q)' => Serves(q)
  BY <1>0, <1>1 DEF Author, Holds, Serves, pc, Idle, Moves
<1>4. \A q \in Process : /\ Author(q)' => proc'[q].pc # "idle"
                         /\ Holds(q)' => proc'[q].pc # "idle"
                         /\ Serves(q)' => proc'[q].pc # "idle"
  BY DEF Author, Holds, Serves, pc
<1>5. AllKnown'
  BY <1>1, <1>2, <1>3, <1>4 DEF Flight, AllKnown, Known, Acts
<1>6. InTime'
  <2>1. \A q \in Process : Serves(q)' /\ Running(q)' => Running(q)
    BY <1>0, <1>2 DEF Serves, Running, pc, Moves, Idle, Process
  <2> QED BY <1>1, <1>2, <1>3, <1>4, <2>1 DEF Flight, InTime, Ours, pc
<1>7. Roles'
  BY <1>0, <1>2 DEF Flight, Roles, pc, Moves, Idle, Process
<1>8. AuthorAlone'
  BY <1>1, <1>2, <1>3, <1>4 DEF Flight, AuthorAlone, Acts, Ours
<1>9. HolderAlone'
  BY <1>1, <1>2, <1>3, <1>4 DEF Flight, HolderAlone, Ours
<1>10. RunnerHolds'
  BY <1>0, <1>1, <1>2 DEF Flight, RunnerHolds, Ours, Running, pc, Moves, Idle,
     Process
<1> QED BY <1>5, <1>6, <1>7, <1>8, <1>9, <1>10 DEF Flight

LEMMA RequestMoves ==
  ASSUME TypeOK, NEW r \in Request,
         \/ StartGet(r) \/ StartRead(r) \/ StartConflict(r)
  PROVE  Moves(r)
<1>0. r \in Process /\ r \notin Worker /\ proc \in [Process -> Local]
  BY ProcessAssumption DEF TypeOK, Process
<1>s. ASSUME Stamped(r), proc[r].pc # "idle",
             UNCHANGED <<job, jobAge, queue, past, lapse>>
      PROVE  Moves(r)
  <2>1. /\ proc'[r].pc = "startPut" /\ proc'[r].op = proc[r].op
        /\ proc'[r].age = proc[r].age
        /\ \A q \in Process \ {r} : proc'[q] = proc[q]
    BY <1>0, <1>s DEF Stamped, Become, Local
  <2> QED BY <1>0, <1>s, <2>1 DEF Moves, Author, Holds, pc
<1>1. CASE StartGet(r)
  <2>1. CASE Goto(r, "startRead")
    BY <1>0, <1>1, <2>1
    DEF StartGet, Goto, Become, Moves, Author, Holds, pc, Local
  <2> QED BY <1>1, <1>s, <2>1 DEF StartGet, pc
<1>2. CASE StartRead(r)
  <2>1. CASE Return(r)
    BY <1>0, <1>2, <2>1 DEF StartRead, Return, Become, Moves
  <2> QED BY <1>2, <1>s, <2>1 DEF StartRead, pc
<1>3. CASE StartConflict(r)
  BY <1>0, <1>3 DEF StartConflict, Return, Become, Moves
<1> QED BY <1>1, <1>2, <1>3

LEMMA WorkerMoves ==
  ASSUME TypeOK, NEW w \in Worker,
         \/ ClaimGet(w) \/ ClaimRead(w) \/ ClaimConflict(w) \/ ReadForce(w)
         \/ \E s \in Terminal : SyncEnds(w, s)
  PROVE  Moves(w)
<1>0. w \in Process /\ w \notin Request /\ proc \in [Process -> Local]
  BY ProcessAssumption DEF TypeOK, Process
<1> USE DEF pc, Local, Author, Holds, Running
<1>1. CASE ClaimGet(w)
  BY <1>0, <1>1 DEF ClaimGet, Goto, Become, Moves
<1>2. CASE ClaimRead(w)
  BY <1>0, <1>2 DEF ClaimRead, Return, Become, Moves
<1>3. CASE ClaimConflict(w)
  BY <1>0, <1>3 DEF ClaimConflict, Return, Become, Moves
<1>4. CASE ReadForce(w)
  BY <1>0, <1>4 DEF ReadForce, Become, Moves
<1>5. ASSUME NEW s \in Terminal, SyncEnds(w, s) PROVE Moves(w)
  BY <1>0, <1>5 DEF SyncEnds, Become, Moves
<1> QED BY <1>1, <1>2, <1>3, <1>4, <1>5

LEMMA AnyMoves ==
  ASSUME TypeOK, Roles, NEW p \in Process,
         EndGet(p) \/ EndRead(p) \/ StoreFails(p) \/ Crash(p)
  PROVE  Moves(p)
<1>0. proc \in [Process -> Local] /\ (p \in Request => p \notin Worker)
      /\ (p \in Request => pc(p) \notin {"readForce", "sync"})
      /\ (p \in Request \/ p \in Worker)
  BY ProcessAssumption DEF TypeOK, Process, Roles
<1> USE DEF pc, Local, Author, Holds, Running
<1>1. CASE EndGet(p)
  BY <1>0, <1>1 DEF EndGet, Goto, Become, Moves
<1>2. CASE EndRead(p)
  BY <1>0, <1>2 DEF EndRead, Return, Become, Moves
<1>3. CASE StoreFails(p)
  <2>1. CASE Raised(p) = Idle
    BY <1>0, <1>3, <2>1 DEF StoreFails, Become, Moves
  <2>2. CASE Raised(p) # Idle
    <3>1. /\ pc(p) \in {"readForce", "sync", "endGet", "endRead", "endPut"}
          /\ Raised(p).pc = "endGet" /\ Raised(p).op = proc[p].op
          /\ Raised(p).age = proc[p].age
      BY <1>0, <2>2 DEF Raised
    <3> QED BY <1>0, <1>3, <3>1 DEF StoreFails, Become, Moves
  <2> QED BY <2>1, <2>2
<1>4. CASE Crash(p)
  BY <1>0, <1>4 DEF Crash, Return, Become, Moves
<1> QED BY <1>1, <1>2, <1>3, <1>4

LEMMA CallKeeps ==
  ASSUME TypeOK, Flight, NEW r \in Request, NEW o \in Op, NEW f \in BOOLEAN,
         Call(r, o, f)
  PROVE  Flight'
<1> USE DEF pc, Process
<1>0. r \in Process /\ r \notin Worker /\ proc \in [Process -> Local]
  BY ProcessAssumption DEF TypeOK
<1>1. /\ proc'[r].pc = "startGet" /\ proc'[r].age = 0
      /\ \A q \in Process \ {r} : proc'[q] = proc[q]
      /\ UNCHANGED <<job, jobAge, queue, past>>
  BY <1>0 DEF Call, Become, Idle
<1>2. ~Author(r)' /\ ~Serves(r)' /\ ~Holds(r)' /\ ~Acts(r)'
  BY <1>0, <1>1 DEF Author, Serves, Holds, Acts
<1>3. \A q \in Process \ {r} :
        Author(q)' = Author(q) /\ Serves(q)' = Serves(q)
        /\ Holds(q)' = Holds(q) /\ Acts(q)' = Acts(q) /\ Ours(q)' = Ours(q)
  BY <1>1 DEF Author, Serves, Holds, Acts, Ours
<1>5. AllKnown'
  BY <1>1, <1>2, <1>3 DEF Flight, AllKnown, Known
<1>6. InTime'
  BY <1>1, <1>2, <1>3 DEF Flight, InTime, Running
<1>7. Roles'
  BY <1>0, <1>1 DEF Flight, Roles
<1>8. AuthorAlone'
  BY <1>1, <1>2, <1>3 DEF Flight, AuthorAlone
<1>9. HolderAlone'
  BY <1>1, <1>2, <1>3 DEF Flight, HolderAlone
<1>10. RunnerHolds'
  BY <1>0, <1>1, <1>3 DEF Flight, RunnerHolds, Running
<1> QED BY <1>5, <1>6, <1>7, <1>8, <1>9, <1>10 DEF Flight

LEMMA OpenKeeps ==
  ASSUME TypeOK, Flight, NEW w \in Worker, NEW o \in Op, Open(w, o),
         lapse = "none", lapse' = "none"
  PROVE  Flight'
<1> USE DEF pc, Process
<1>0. /\ w \in Process /\ w \notin Request /\ proc \in [Process -> Local]
      /\ ENVELOPE \in Nat /\ jobAge \in Nat
  BY ProcessAssumption, Times DEF TypeOK
<1>1. /\ proc'[w].pc = "claimGet" /\ proc'[w].age = 0 /\ proc'[w].op = o
      /\ queue[o] > 0
      /\ \A q \in Process \ {w} : proc'[q] = proc[q]
      /\ UNCHANGED <<job, jobAge, queue, past>>
  BY <1>0 DEF Open, Become, Idle
<1>2. ~Author(w)' /\ ~Holds(w)'
  BY <1>0, <1>1 DEF Author, Holds
<1>3. \A q \in Process \ {w} :
        Author(q)' = Author(q) /\ Serves(q)' = Serves(q)
        /\ Holds(q)' = Holds(q) /\ Acts(q)' = Acts(q) /\ Ours(q)' = Ours(q)
  BY <1>1 DEF Author, Serves, Holds, Acts, Ours
<1>4. Known(o)
  BY <1>1 DEF Flight, AllKnown
<1>5. AllKnown'
  BY <1>1, <1>3, <1>4 DEF Flight, AllKnown, Known
<1>6. InTime'
  <2>1. o = job.op /\ job.status = "queued" => jobAge <= ENVELOPE + 0
    BY <1>0 DEF Open, OpenedLate
  <2>2. ~Running(w)' /\ \A q \in Process \ {w} : Running(q)' = Running(q)
    BY <1>1 DEF Running
  <2> QED BY <1>1, <1>3, <2>1, <2>2 DEF Flight, InTime, Ours
<1>7. Roles'
  BY <1>0, <1>1 DEF Flight, Roles
<1>8. AuthorAlone'
  <2>1. \A r \in Process : Author(r) /\ Ours(r) => o # job.op
    BY <1>0, <1>1 DEF Flight, AuthorAlone, Ours
  <2> QED BY <1>1, <1>2, <1>3, <2>1 DEF Flight, AuthorAlone, Ours
<1>9. HolderAlone'
  BY <1>1, <1>2, <1>3 DEF Flight, HolderAlone
<1>10. RunnerHolds'
  BY <1>0, <1>1, <1>3 DEF Flight, RunnerHolds, Running
<1> QED BY <1>5, <1>6, <1>7, <1>8, <1>9, <1>10 DEF Flight

LEMMA EnqueueKeeps ==
  ASSUME TypeOK, Coherent, Flight, NEW r \in Request, Enqueue(r)
  PROVE  Flight'
<1> USE DEF pc, Process
<1> DEFINE o == proc[r].op
<1>0. /\ r \in Process /\ r \notin Worker /\ proc \in [Process -> Local]
      /\ ENVELOPE \in Nat /\ o \in Op
      /\ queue \in [Op -> 0..(ENVELOPE + 1)] /\ proc[r].pc = "enqueue"
  BY ProcessAssumption, Times DEF TypeOK, Coherent, Enqueue, Local
<1>1. /\ proc'[r].pc = "idle" /\ queue' = [queue EXCEPT ![o] = ENVELOPE + 1]
      /\ \A q \in Process \ {r} : proc'[q] = proc[q]
      /\ UNCHANGED <<job, jobAge, past>>
  BY <1>0 DEF Enqueue, Sealed, Return, Become, Idle
<1>2. ~Author(r)' /\ ~Serves(r)' /\ ~Holds(r)' /\ ~Acts(r)'
  BY <1>0, <1>1 DEF Author, Serves, Holds, Acts
<1>3. \A q \in Process \ {r} :
        Author(q)' = Author(q) /\ Serves(q)' = Serves(q)
        /\ Holds(q)' = Holds(q) /\ Acts(q)' = Acts(q) /\ Ours(q)' = Ours(q)
  BY <1>1 DEF Author, Serves, Holds, Acts, Ours
<1>4. Author(r) /\ Acts(r) /\ Known(o)
  BY <1>0 DEF Author, Acts, Flight, AllKnown
<1>5. AllKnown'
  BY <1>0, <1>1, <1>2, <1>3, <1>4 DEF Flight, AllKnown, Known
<1>6. InTime'
  BY <1>1, <1>2, <1>3 DEF Flight, InTime, Running
<1>7. Roles'
  BY <1>0, <1>1 DEF Flight, Roles
<1>8. AuthorAlone'
  <2>1. \A q \in Process \ {r} : Author(q) /\ Ours(q) => o # proc[q].op
    BY <1>4 DEF Flight, AuthorAlone, Ours
  <2>2. \A q \in Process \ {r} : Author(q) /\ Ours(q)
          => queue'[proc'[q].op] = 0
    BY <1>0, <1>1, <2>1 DEF Flight, AuthorAlone, Ours
  <2> QED BY <1>1, <1>2, <1>3, <2>2 DEF Flight, AuthorAlone
<1>9. HolderAlone'
  BY <1>1, <1>2, <1>3 DEF Flight, HolderAlone
<1>10. RunnerHolds'
  BY <1>0, <1>1, <1>3 DEF Flight, RunnerHolds, Running
<1> QED BY <1>5, <1>6, <1>7, <1>8, <1>9, <1>10 DEF Flight

LEMMA EnqueueRaisesMoves ==
  ASSUME TypeOK, NEW r \in Request, NEW b \in BOOLEAN, EnqueueRaises(r, b),
         lapse' = "none"
  PROVE  Moves(r)
<1>0. r \in Process /\ r \notin Worker /\ proc \in [Process -> Local]
  BY ProcessAssumption DEF TypeOK, Process
<1>1. b = FALSE /\ lapse = "none"
  BY DEF EnqueueRaises, Excuse
<1> QED BY <1>0, <1>1 DEF EnqueueRaises, Goto, Become, Moves, Author, Holds, pc,
        Local

(* Inside its window, no running operation is past the lease. *)
LEMMA RunnerInLease ==
  ASSUME TypeOK, Clocked, Flight, LeaseCovers, NEW w \in Worker, Running(w)
  PROVE  jobAge <= LEASE /\ ~Expired
<1>1. /\ Serves(w) /\ Ours(w) /\ w \in Process /\ pc(w) # "idle"
  BY DEF Flight, RunnerHolds, Running, Serves, Process
<1>2. jobAge <= ENVELOPE + proc[w].age /\ proc[w].age <= TIMEOUT
  BY <1>1 DEF Flight, InTime, Clocked
<1>3. jobAge \in Nat /\ proc[w].age \in Nat
  BY <1>1 DEF TypeOK, Local
<1>4. jobAge <= LEASE
  BY <1>2, <1>3, Times DEF LeaseCovers
<1> QED BY <1>3, <1>4, Times DEF Expired

LEMMA StartPutKeeps ==
  ASSUME TypeOK, Clocked, Coherent, Flight, LeaseCovers, NEW r \in Request,
         NEW b \in BOOLEAN, StartPut(r, b), lapse' = "none"
  PROVE  Flight'
<1> USE DEF pc, Process
<1> DEFINE o == proc[r].op
<1>0. /\ r \in Process /\ r \notin Worker /\ proc \in [Process -> Local]
      /\ ENVELOPE \in Nat /\ LEASE \in Nat /\ jobAge \in Nat /\ o \in Op
      /\ queue \in [Op -> 0..(ENVELOPE + 1)] /\ proc[r].pc = "startPut"
  BY ProcessAssumption, Times DEF TypeOK, Coherent, StartPut, Local
<1>1. /\ job'.op = o /\ job'.status = "queued"
      /\ past' = past \cup ({job.op} \ {NoOp}) /\ queue' = queue
      /\ \A q \in Process \ {r} : proc'[q] = proc[q]
      /\ o \notin past /\ lapse = "none"
  <2>1. o \notin past
    BY DEF StartPut, Excuse
  <2>2. Overwrites(job.op) /\ lapse = "none"
    BY <2>1 DEF StartPut, Overwrites
  <2> QED BY <1>0, <2>1, <2>2 DEF StartPut, Put, Become, Overwrites
<1>2. \/ proc'[r].pc = "idle"
      \/ proc'[r].pc = "enqueue" /\ proc'[r].op = o
  BY <1>0 DEF StartPut, Become, Idle
<1>3. o # job.op /\ (job.status \notin Active \/ jobAge > LEASE)
  BY <1>0 DEF Coherent, ReadHolds, StartPut, Put
<1>4. ~Known(o)
  BY <1>1, <1>3 DEF Known
<1>5. \A q \in Op : Known(q) => Known(q)'
  BY <1>1, OpAssumption DEF Known
<1>6. \A q \in Process \ {r} :
        Author(q)' = Author(q) /\ Serves(q)' = Serves(q)
        /\ Holds(q)' = Holds(q) /\ Acts(q)' = Acts(q)
  BY <1>1 DEF Author, Serves, Holds, Acts
<1>7. queue'[o] = 0 /\ \A q \in Process \ {r} : Acts(q)' => ~Ours(q)'
  <2>1. queue[o] \in Nat /\ (queue[o] > 0 => Known(o))
    BY <1>0 DEF Flight, AllKnown
  <2>2. \A q \in Process : Acts(q) => Known(proc[q].op)
    BY DEF Flight, AllKnown
  <2> QED BY <1>1, <1>4, <1>6, <2>1, <2>2 DEF Ours
<1>8. /\ ~Serves(r)' /\ ~Holds(r)'
      /\ Acts(r)' => proc'[r].op = o
  BY <1>0, <1>2 DEF Serves, Holds, Acts, Author
<1>9. \A q \in Process : (Author(q) \/ Serves(q) => Acts(q))
                         /\ (Holds(q) => Acts(q) /\ pc(q) # "idle")
                         /\ (Acts(q) => pc(q) # "idle")
  BY DEF Acts, Author, Serves, Holds
<1>10. AllKnown'
  <2>1. \A q \in Op : queue'[q] > 0 => Known(q)'
    BY <1>1, <1>5 DEF Flight, AllKnown
  <2>2. \A q \in Process \ {r} : Acts(q)' =>
          proc'[q].op = job'.op \/ proc'[q].op \in past'
    BY <1>1, <1>5, <1>6, <1>9 DEF Flight, AllKnown, Known,
       Coherent
  <2>3. Acts(r)' => proc'[r].op = job'.op
    BY <1>1, <1>8
  <2> QED BY <2>1, <2>2, <2>3 DEF AllKnown, Known
<1>11. InTime'
  BY <1>7, <1>8 DEF InTime, Acts
<1>12. Roles'
  BY <1>0, <1>1, <1>2 DEF Flight, Roles
<1>13. AuthorAlone'
  <2>1. \A q \in Process : Author(q)' /\ Ours(q)' => q = r
    BY <1>7 DEF Acts
  <2> QED BY <1>1, <1>7, <1>8, <2>1 DEF AuthorAlone, Acts
<1>14. HolderAlone'
  <2>1. \A q \in Process : Holds(q)' => ~Ours(q)'
    BY <1>6, <1>7, <1>8, <1>9
  <2> QED BY <2>1 DEF HolderAlone
<1>15. \A w \in Worker : ~Running(w)
  BY <1>0, <1>3, RunnerInLease DEF Flight, RunnerHolds, Active
<1>16. RunnerHolds'
  BY <1>0, <1>1, <1>15 DEF RunnerHolds, Running
<1> QED BY <1>10, <1>11, <1>12, <1>13, <1>14, <1>16 DEF Flight

(* The other two writes change the status alone: what they need is that    *)
(* nobody runs, and that the process keeps its age and its stage.          *)
Records(p) ==
  /\ UNCHANGED <<jobAge, queue, past, lapse>>
  /\ job'.op = job.op /\ job'.status # "queued"
  /\ \A q \in Process \ {p} : proc'[q] = proc[q]
  /\ \/ proc'[p] = Idle
     \/ /\ proc'[p].op = proc[p].op /\ proc'[p].age = proc[p].age
        /\ proc[p].pc # "idle"
        /\ Author(p)' => Author(p)
        /\ p \in Request => proc'[p].pc \notin {"readForce", "sync"}
        /\ proc'[p].pc \in {"readForce", "sync"} => job.status = "queued"

LEMMA RecordsKeep ==
  ASSUME TypeOK, Flight, NEW p \in Process, Records(p), RunnerHolds',
         \A q \in Process : Holds(q)' /\ Ours(q)' =>
           \A v \in Process : Holds(v)' /\ Ours(v)' => v = q
  PROVE  Flight'
<1>0. /\ \A q \in Process \ {p} : proc'[q] = proc[q]
      /\ \/ proc'[p] = Idle
         \/ /\ proc'[p].op = proc[p].op /\ proc'[p].age = proc[p].age
            /\ proc[p].pc # "idle"
  BY DEF Records
<1>1. \A q \in Process : proc'[q].pc # "idle" =>
        /\ proc'[q].op = proc[q].op /\ proc'[q].age = proc[q].age
        /\ proc[q].pc # "idle"
  BY <1>0 DEF Idle
<1>2. UNCHANGED <<jobAge, queue, past>> /\ job'.op = job.op
  BY DEF Records
<1>3. /\ \A q \in Process : Author(q)' => Author(q)
      /\ \A q \in Process : Serves(q)' => Serves(q)
  BY <1>0, <1>1 DEF Author, Serves, pc, Idle, Records
<1>4. \A q \in Process : /\ Author(q)' => proc'[q].pc # "idle"
                         /\ Serves(q)' => proc'[q].pc # "idle"
  BY DEF Author, Serves, pc
<1>5. AllKnown'
  BY <1>1, <1>2, <1>3, <1>4 DEF Flight, AllKnown, Known, Acts
<1>6. InTime'
  <2>1. \A q \in Process : Running(q)' => Running(q) \/ job.status = "queued"
    BY <1>0 DEF Running, pc, Records, Idle
  <2>2. job'.status # "queued"
    BY DEF Records
  <2> QED BY <1>1, <1>2, <1>3, <1>4, <2>1, <2>2 DEF Flight, InTime, Ours, pc
<1>7. Roles'
  BY <1>0 DEF Flight, Roles, pc, Records, Idle, Process
<1>8. AuthorAlone'
  BY <1>1, <1>2, <1>3, <1>4 DEF Flight, AuthorAlone, Acts, Ours
<1>9. HolderAlone'
  BY DEF HolderAlone, Records
<1> QED BY <1>5, <1>6, <1>7, <1>8, <1>9 DEF Flight

LEMMA ClaimPutKeeps ==
  ASSUME TypeOK, Coherent, Flight, NEW w \in Worker, NEW b \in BOOLEAN,
         ClaimPut(w, b)
  PROVE  Flight'
<1> USE DEF pc, Process
<1>0. /\ w \in Process /\ w \notin Request /\ proc \in [Process -> Local]
      /\ proc[w].pc = "claimPut" /\ proc[w].seen \in Job
  BY ProcessAssumption DEF TypeOK, ClaimPut, Local
<1>1. /\ job' = [proc[w].seen EXCEPT !.status = "running"]
      /\ \A q \in Process \ {w} : proc'[q] = proc[q]
      /\ UNCHANGED <<jobAge, queue, past, lapse>>
      /\ \/ proc'[w] = Idle
         \/ /\ proc'[w].pc = "readForce" /\ proc'[w].op = proc[w].op
            /\ proc'[w].age = proc[w].age
  BY <1>0 DEF ClaimPut, Put, Become, Local
<1>2. /\ proc[w].seen.op = job.op /\ proc[w].op = job.op
      /\ job.status = "queued"
  BY <1>0 DEF Coherent, ReadHolds, ClaimPut, Put
<1>3. job'.op = job.op /\ job'.status = "running"
  BY <1>0, <1>1, <1>2 DEF Job
<1>4. Records(w)
  BY <1>0, <1>1, <1>2, <1>3 DEF Records, Author
<1>5. \A q \in Process : Holds(q) => ~Ours(q)
  BY <1>2 DEF Flight, HolderAlone
<1>6. \A q \in Process \ {w} : Holds(q)' => ~Ours(q)'
  BY <1>1, <1>3, <1>5 DEF Holds, Ours
<1>7. RunnerHolds'
  <2>1. \A q \in Worker : ~Running(q)
    BY <1>2 DEF Flight, RunnerHolds
  <2> QED BY <1>0, <1>1, <1>2, <1>3, <2>1 DEF RunnerHolds, Running, Ours, Idle
<1> QED BY <1>0, <1>4, <1>6, <1>7, RecordsKeep

LEMMA EndPutKeeps ==
  ASSUME TypeOK, Coherent, Flight, NEW p \in Process, NEW b \in BOOLEAN,
         EndPut(p, b)
  PROVE  Flight'
<1> USE DEF pc, Process
<1>0. /\ p \in Request <=> p \notin Worker
      /\ proc \in [Process -> Local] /\ proc[p].pc = "endPut"
      /\ proc[p].seen \in Job /\ proc[p].goal \in Terminal
  BY ProcessAssumption DEF TypeOK, EndPut, Local
<1>1. /\ job' = [proc[p].seen EXCEPT !.status = proc[p].goal]
      /\ \A q \in Process \ {p} : proc'[q] = proc[q]
      /\ UNCHANGED <<jobAge, queue, past, lapse>>
      /\ \/ proc'[p] = Idle
         \/ /\ proc'[p].pc = "endGet" /\ proc'[p].op = proc[p].op
            /\ proc'[p].age = proc[p].age
  BY <1>0 DEF EndPut, Put, Become, Local, Raised
<1>2. proc[p].seen.op = job.op /\ proc[p].op = job.op
  BY <1>0 DEF Coherent, ReadHolds, EndPut, Put
<1>3. job'.op = job.op /\ job'.status # "queued"
  BY <1>0, <1>1, <1>2 DEF Job, Terminal
<1>4. Records(p)
  BY <1>0, <1>1, <1>3 DEF Records, Author
<1>5. \A q \in Process : /\ Holds(q)' => Holds(q)
                         /\ Holds(q) /\ Ours(q)' => Ours(q)
  BY <1>0, <1>1, <1>2, <1>3 DEF Holds, Ours, Idle
<1>6. \A q \in Process : Holds(q)' /\ Ours(q)' =>
           \A v \in Process : Holds(v)' /\ Ours(v)' => v = q
  BY <1>5 DEF Flight, HolderAlone
<1>7. \A w \in Worker : ~Running(w)
  <2> SUFFICES ASSUME NEW w \in Worker, Running(w) PROVE FALSE
    OBVIOUS
  <2>1. Holds(w) /\ Ours(w) /\ Acts(w) /\ w # p /\ w \in Process
    BY <1>0 DEF Flight, RunnerHolds, Running, Holds, Acts, Serves
  <2>2. CASE p \in Worker
    <3>1. Holds(p) /\ Ours(p)
      BY <1>0, <1>2, <2>2 DEF Holds, Ours
    <3> QED BY <2>1, <3>1 DEF Flight, HolderAlone
  <2>3. CASE p \in Request
    <3>1. Author(p) /\ Ours(p)
      BY <1>0, <1>2, <2>3 DEF Author, Ours
    <3> QED BY <2>1, <3>1 DEF Flight, AuthorAlone
  <2> QED BY <2>2, <2>3
<1>8. RunnerHolds'
  BY <1>0, <1>1, <1>7 DEF RunnerHolds, Running, Idle
<1> QED BY <1>4, <1>6, <1>8, RecordsKeep

LEMMA TickKeeps ==
  ASSUME TypeOK, Coherent, Flight, Tick
  PROVE  Flight'
<1> USE DEF pc
<1>0. /\ proc \in [Process -> Local] /\ jobAge \in Nat
      /\ queue \in [Op -> 0..(ENVELOPE + 1)] /\ ENVELOPE \in Nat
  BY Times DEF TypeOK
<1>1. \A q \in Process :
        /\ proc'[q].pc = proc[q].pc /\ proc'[q].op = proc[q].op
        /\ proc'[q].force = proc[q].force /\ proc[q].age \in Nat
        /\ proc[q].pc # "idle" => proc'[q].age = proc[q].age + 1
  BY <1>0 DEF Tick, Local
<1>2. /\ job' = job /\ past' = past /\ jobAge' <= jobAge + 1 /\ jobAge' \in Nat
      /\ \A o \in Op : /\ queue[o] > 0 => queue'[o] = queue[o] - 1
                       /\ queue[o] \in Nat /\ queue'[o] \in Nat
                       /\ queue[o] = 0 => queue'[o] = 0
  BY <1>0 DEF Tick
<1>3. \A q \in Process :
        Author(q)' = Author(q) /\ Serves(q)' = Serves(q)
        /\ Holds(q)' = Holds(q) /\ Acts(q)' = Acts(q) /\ Ours(q)' = Ours(q)
  BY <1>1, <1>2 DEF Author, Serves, Holds, Acts, Ours
<1>4. \A q \in Process : Author(q) \/ Serves(q) => proc[q].pc # "idle"
  BY DEF Author, Serves
<1>5. AllKnown'
  BY <1>1, <1>2, <1>3 DEF Flight, AllKnown, Known
<1>6. InTime'
  <2>1. \A p \in Process : Running(p)' = Running(p)
    BY <1>1 DEF Running
  <2>2. \A p \in Process :
          Serves(p) /\ Ours(p) /\ (job.status = "queued" \/ Running(p))
            => jobAge' <= ENVELOPE + proc'[p].age
    BY <1>0, <1>1, <1>2, <1>4 DEF Flight, InTime
  <2> QED BY <1>2, <1>3, <2>1, <2>2 DEF InTime
<1>7. Roles'
  BY <1>1 DEF Flight, Roles, Process
<1>8. AuthorAlone'
  <2>1. \A r \in Process : Author(r) /\ Ours(r) => queue'[proc[r].op] = 0
    <3>1. \A r \in Process : Author(r) /\ Ours(r) => queue[proc[r].op] = 0
      BY DEF Flight, AuthorAlone
    <3>2. \A r \in Process : Author(r) => proc[r].op \in Op
      BY <1>4 DEF Coherent
    <3> QED BY <1>2, <3>1, <3>2
  <2> QED BY <1>1, <1>3, <2>1 DEF Flight, AuthorAlone
<1>9. HolderAlone'
  BY <1>2, <1>3 DEF Flight, HolderAlone
<1>10. RunnerHolds'
  BY <1>1, <1>2, <1>3 DEF Flight, RunnerHolds, Running, Process
<1> QED BY <1>5, <1>6, <1>7, <1>8, <1>9, <1>10 DEF Flight

LEMMA InitFlight == Init => Flight
BY OpAssumption
DEF Init, Flight, AllKnown, InTime, Roles, AuthorAlone, HolderAlone,
    RunnerHolds, Acts, Author, Serves, Holds, Running, pc, Idle, Process

LEMMA FlightInductive ==
  ASSUME TypeOK, Clocked, Coherent, FlightUnlessExcused, LeaseCovers,
         [Next]_vars
  PROVE  FlightUnlessExcused'
<1> SUFFICES ASSUME lapse' = "none" PROVE Flight'
  BY DEF FlightUnlessExcused
<1>1. CASE UNCHANGED vars
  BY <1>1 DEF vars, FlightUnlessExcused, Flight, AllKnown, InTime, Roles,
     AuthorAlone, HolderAlone, RunnerHolds, Acts, Author, Serves, Holds,
     Running, pc, Known, Ours
<1>2. CASE Next
  <2>1. lapse = "none"
    <3>1. ASSUME NEW r \in Request, RequestStep(r) PROVE lapse = "none"
      BY <3>1 DEF RequestStep, Call, StartGet, StartRead, StartConflict,
         Enqueue, StartPut, EnqueueRaises, Excuse
    <3>2. ASSUME NEW w \in Worker, WorkerStep(w) PROVE lapse = "none"
      BY <3>2 DEF WorkerStep, Open, ClaimGet, ClaimRead, ClaimConflict,
         ReadForce, ClaimPut, SyncEnds
    <3>3. ASSUME NEW p \in Process, AnyStep(p) PROVE lapse = "none"
      BY <3>3 DEF AnyStep, EndGet, EndRead, StoreFails, Crash, EndPut
    <3>4. CASE Tick
      BY <3>4 DEF Tick
    <3> QED BY <1>2, <3>1, <3>2, <3>3, <3>4 DEF Next
  <2>2. Flight
    BY <2>1 DEF FlightUnlessExcused
  <2>3. ASSUME NEW r \in Request, RequestStep(r) PROVE Flight'
    <3>1. r \in Process
      BY DEF Process
    <3>2. CASE StartGet(r) \/ StartRead(r) \/ StartConflict(r)
      BY <2>2, <3>1, <3>2, RequestMoves, MovesKeep
    <3>3. CASE Enqueue(r)
      BY <2>2, <3>3, EnqueueKeeps
    <3>4. ASSUME NEW o \in Op, NEW f \in BOOLEAN, Call(r, o, f) PROVE Flight'
      BY <2>2, <3>4, CallKeeps
    <3>7. CASE \E ask \in Asks : Call(r, ask[1], ask[2])
      BY <3>4, <3>7, AskType
    <3>5. ASSUME NEW b \in BOOLEAN, StartPut(r, b) PROVE Flight'
      BY <2>2, <3>5, StartPutKeeps
    <3>6. ASSUME NEW b \in BOOLEAN, EnqueueRaises(r, b) PROVE Flight'
      BY <2>2, <3>1, <3>6, EnqueueRaisesMoves, MovesKeep
    <3> QED BY <2>3, <3>2, <3>3, <3>5, <3>6, <3>7 DEF RequestStep
  <2>4. ASSUME NEW w \in Worker, WorkerStep(w) PROVE Flight'
    <3>1. w \in Process
      BY DEF Process
    <3>2. CASE \/ ClaimGet(w) \/ ClaimRead(w) \/ ClaimConflict(w)
               \/ ReadForce(w) \/ \E s \in Terminal : SyncEnds(w, s)
      BY <2>2, <3>1, <3>2, WorkerMoves, MovesKeep
    <3>3. ASSUME NEW o \in Op, Open(w, o) PROVE Flight'
      BY <2>1, <2>2, <3>3, OpenKeeps
    <3>4. ASSUME NEW b \in BOOLEAN, ClaimPut(w, b) PROVE Flight'
      BY <2>2, <3>4, ClaimPutKeeps
    <3> QED BY <2>4, <3>2, <3>3, <3>4 DEF WorkerStep
  <2>5. ASSUME NEW p \in Process, AnyStep(p) PROVE Flight'
    <3>1. CASE EndGet(p) \/ EndRead(p) \/ StoreFails(p) \/ Crash(p)
      <4>1. Roles
        BY <2>2 DEF Flight
      <4> QED BY <2>2, <3>1, <4>1, AnyMoves, MovesKeep
    <3>2. ASSUME NEW b \in BOOLEAN, EndPut(p, b) PROVE Flight'
      BY <2>2, <3>2, EndPutKeeps
    <3> QED BY <2>5, <3>1, <3>2 DEF AnyStep
  <2>6. CASE Tick
    BY <2>2, <2>6, TickKeeps
  <2> QED BY <1>2, <2>3, <2>4, <2>5, <2>6 DEF Next
<1> QED BY <1>1, <1>2

LEMMA FlightAlways == LeaseCovers /\ Spec => []FlightUnlessExcused
<1> SUFFICES ASSUME LeaseCovers PROVE Spec => []FlightUnlessExcused
  OBVIOUS
<1>1. Init => FlightUnlessExcused
  BY InitFlight DEF FlightUnlessExcused
<1>2. TypeOK /\ Clocked /\ Coherent /\ FlightUnlessExcused /\ [Next]_vars
        => FlightUnlessExcused'
  BY FlightInductive
<1> QED BY <1>1, <1>2, TypedAndClocked, ReadsCoherent, PTL DEF Spec

(* academic_sync_job.py, main.py: with the lease the code has, as long as  *)
(* an envelope and a worker may live together, no two workers synchronise  *)
(* at once, whatever crashes, lost answers, redeliveries and races there   *)
(* are, unless an envelope was opened when its queued record was older     *)
(* than envelopes live: that is all that stands in the way of the test's   *)
(* claim, and the deployed limits leave it room.                           *)
THEOREM OneSynchronises == LeaseCovers /\ Spec => []SingleFlight
<1>1. TypeOK /\ FlightUnlessExcused => SingleFlight
  <2> SUFFICES ASSUME TypeOK, FlightUnlessExcused, lapse = "none",
                      NEW w1 \in Worker, NEW w2 \in Worker,
                      Running(w1), Running(w2)
               PROVE  w1 = w2
    BY DEF SingleFlight, StartsRunOnce, AtMostOneRuns, TypeOK, Lapse
  <2>1. Flight /\ w1 \in Process /\ w2 \in Process
    BY DEF FlightUnlessExcused, Process
  <2>2. Holds(w1) /\ Ours(w1) /\ Holds(w2) /\ Ours(w2)
    BY <2>1 DEF Flight, RunnerHolds, Holds, Running
  <2> QED BY <2>1, <2>2 DEF Flight, HolderAlone
<1> QED BY <1>1, TypeCorrect, FlightAlways, PTL

(* With that lease, while a worker synchronises the record names its       *)
(* operation, is running, not yet expired, and has the force flag the      *)
(* worker runs with: no caller is told that it failed, under the same      *)
(* condition on when envelopes are opened.                                 *)
THEOREM RunnerOwns == LeaseCovers /\ Spec => []RunnerOwnsRecord
<1> SUFFICES ASSUME LeaseCovers PROVE Spec => []RunnerOwnsRecord
  OBVIOUS
<1>1. TypeOK /\ Clocked /\ FlightUnlessExcused => RunnerOwnsRecord
  <2> SUFFICES ASSUME TypeOK, Clocked, FlightUnlessExcused, lapse = "none",
                      NEW w \in Worker, Running(w)
               PROVE  /\ job.op = proc[w].op /\ job.status = "running" /\ ~Expired
                      /\ pc(w) = "sync" => proc[w].force = job.force
    BY DEF RunnerOwnsRecord
  <2>1. Flight
    BY DEF FlightUnlessExcused
  <2>2. ~Expired
    BY <2>1, RunnerInLease
  <2> QED BY <2>1, <2>2 DEF Flight, RunnerHolds, Ours
<1> QED BY <1>1, TypedAndClocked, FlightAlways, PTL

-----------------------------------------------------------------------------
Locals == [pc : {"copy", "result", "state", "preference", "fetch", "save"},
           source : Sources, key : Keys, force : BOOLEAN, at : Time,
           state : States \union {None}]

(* A run has a state in hand from the moment it read one.                  *)
Holding == \A r \in Runs :
    run[r] # AtRest /\ run[r].pc \in {"preference", "fetch", "save"} => run[r].state \in States

(* What the user said last is still so for a plan that is quiet.           *)
QuietIsPaused == \A r \in Runs :
    run[r] # AtRest /\ quiet[r] => PausedFor(run[r].key.term)

Inv == PolicyTypeOK /\ Holding /\ QuietIsPaused /\ ResultHasCopy /\ PauseRespected

LEMMA IdleIsNoRun == AtRest \notin Locals
BY DEF AtRest, Locals

LEMMA LocalsOf ==
    ASSUME PolicyTypeOK, NEW r \in Runs, run[r] # AtRest
    PROVE  run[r] \in Locals
BY DEF PolicyTypeOK, Locals

(* An action whose guard names a pc is of a run that is under way.         *)
LEMMA Busy ==
    ASSUME NEW r \in Runs, run[r].pc \in {"copy", "result", "state", "preference", "fetch", "save"}
    PROVE  run[r] # AtRest
BY DEF AtRest

LEMMA InitInv == PolicyInit => Inv
<1> SUFFICES ASSUME PolicyInit PROVE Inv
  OBVIOUS
<1>1. PolicyTypeOK
  BY TimesAssumption DEF PolicyInit, PolicyTypeOK, Time
<1>2. Holding /\ QuietIsPaused
  BY DEF PolicyInit, Holding, QuietIsPaused
<1>3. ResultHasCopy /\ PauseRespected
  BY DEF PolicyInit, ResultHasCopy, PauseRespected, HasCopy
<1> QED
  BY <1>1, <1>2, <1>3 DEF Inv

(* HasCopy once a step has been taken, of a state it does not change.      *)
Backed(s, state) ==
    state # None /\ state.result # None /\ state.result.published => copy'[s] # None

(* A step of one run that keeps its source and its key, leaves the others  *)
(* alone and only adds copies: what has to be shown of it is about that    *)
(* run.                                                                    *)
Turns(r, x) ==
    /\ run' = [run EXCEPT ![r] = x]
    /\ UNCHANGED <<now, term, preference, user, quiet>>
    /\ \A s \in Sources : copy[s] # None => copy'[s] # None
    /\ copy' \in [Sources -> Copies \union {None}]
    /\ overtaken' \in [Runs -> BOOLEAN]

Sound(r, x) ==
    \/ x = AtRest
    \/ /\ x \in Locals
       /\ x.source = run[r].source /\ x.key = run[r].key
       /\ x.pc \in {"preference", "fetch", "save"} => x.state \in States
       /\ Backed(x.source, x.state)
       /\ x.pc \in {"fetch", "save"} /\ ~x.force /\ x.source = "plan" => ~quiet[r]

LEMMA TurnKeeps ==
    ASSUME Inv, NEW r \in Runs, NEW x, run[r] # AtRest, Turns(r, x), UNCHANGED stored,
           Sound(r, x)
    PROVE  Inv'
<1>1. run \in [Runs -> {AtRest} \union Locals] /\ run[r] \in Locals
  BY LocalsOf DEF Inv, PolicyTypeOK, Locals
<1>2. x \in {AtRest} \union Locals
  BY DEF Sound
<1>3. \A o \in Runs : run'[o] = IF o = r THEN x ELSE run[o]
  BY <1>1 DEF Turns
<1>4. run' \in [Runs -> {AtRest} \union Locals]
  BY <1>1, <1>2 DEF Turns
<1>5. PolicyTypeOK'
  BY <1>4 DEF Inv, PolicyTypeOK, Locals, Turns
<1>6. Holding'
  BY <1>3 DEF Inv, Holding, Sound
<1>7. QuietIsPaused'
  BY <1>3 DEF Inv, QuietIsPaused, Sound, Turns, PausedFor
<1>8. ResultHasCopy'
  <2>1. \A s \in Sources : HasCopy(s, stored[s])'
    BY DEF Inv, ResultHasCopy, HasCopy, Turns
  <2>2. ASSUME NEW o \in Runs, run'[o] # AtRest
        PROVE  HasCopy(run[o].source, run[o].state)'
    <3>1. CASE o = r
      BY <3>1, <2>2, <1>3 DEF Sound, Backed, HasCopy
    <3>2. CASE o # r
      <4>1. run'[o] = run[o] /\ run[o] \in Locals
        BY <3>2, <2>2, <1>3, LocalsOf DEF Inv
      <4>2. run[o].source \in Sources
        BY <4>1 DEF Locals
      <4> QED
        BY <4>1, <4>2, <2>2 DEF Inv, ResultHasCopy, HasCopy, Turns
    <3> QED
      BY <3>1, <3>2
  <2> QED
    BY <2>1, <2>2 DEF ResultHasCopy
<1>9. PauseRespected'
  BY <1>3 DEF Inv, PauseRespected, Sound, Turns
<1> QED
  BY <1>5, <1>6, <1>7, <1>8, <1>9 DEF Inv

(* What a run decides from the state it read.                              *)
LEMMA DecideSound ==
    ASSUME Inv, NEW r \in Runs, run[r] # AtRest, NEW state \in States, NEW paused \in BOOLEAN,
           Decide(r, state, paused),
           Backed(run[r].source, state),
           run[r].source = "plan" /\ quiet[r] => paused
    PROVE  \E x : run' = [run EXCEPT ![r] = x] /\ Sound(r, x)
<1>1. run[r] \in Locals
  BY LocalsOf DEF Inv
<1>2. CASE LeftAlone(run[r], state, paused)
  <2>1. run' = [run EXCEPT ![r] = AtRest]
    BY <1>2 DEF Decide
  <2> QED
    BY <2>1 DEF Sound
<1>3. CASE ~LeftAlone(run[r], state, paused)
  <2> DEFINE x == [run[r] EXCEPT !.pc = "fetch", !.state = state]
  <2>1. run' = [run EXCEPT ![r] = x]
    BY <1>3 DEF Decide
  <2>2. /\ x \in Locals /\ x.source = run[r].source /\ x.key = run[r].key
        /\ x.state = state /\ x.force = run[r].force
    BY <1>1 DEF Locals
  <2>3. ~run[r].force => ~paused
    BY <1>3 DEF LeftAlone
  <2>4. Sound(r, x)
    BY <2>2, <2>3 DEF Sound
  <2> QED
    BY <2>1, <2>4
<1> QED
  BY <1>2, <1>3

(* A state that is kept or forgotten.                                      *)
LEMMA ConsideredState ==
    ASSUME NEW l \in Locals, NEW state \in States \union {None}
    PROVE  /\ Considered(l, state) \in States
           /\ Considered(l, state) = state \/ Considered(l, state).result = None
<1>1. CASE state # None /\ state.key = l.key
  BY <1>1 DEF Considered
<1>2. CASE ~(state # None /\ state.key = l.key)
  <2>1. Considered(l, state) = [key |-> l.key, first |-> IF l.source = "plan" THEN 0 ELSE l.at,
                                last |-> None, due |-> 0, failures |-> 0, result |-> None]
    BY <1>2 DEF Considered
  <2>2. l.key \in Keys /\ l.at \in Time /\ 0 \in Time /\ 0 \in 0..MaxFailures
    BY TimesAssumption DEF Locals, Time
  <2> QED
    BY <2>1, <2>2 DEF States
<1> QED
  BY <1>1, <1>2

LEMMA BeginKeeps ==
    ASSUME Inv, NEW r \in Runs, NEW s \in Sources, NEW i \in PlanIds \union {NoId},
           NEW f \in BOOLEAN, Begin(r, s, i, f)
    PROVE  Inv'
<1> DEFINE x == [pc |-> IF s = "activities" THEN "copy" ELSE "state", source |-> s,
                 key |-> [term |-> term, id |-> i], force |-> f, at |-> now, state |-> None]
<1>1. run \in [Runs -> {AtRest} \union Locals] /\ term \in Terms /\ now \in Time
  BY DEF Inv, PolicyTypeOK, Locals
<1>2. x \in Locals /\ x.key.term = term /\ x.state = None /\ x.pc \in {"copy", "state"}
  BY <1>1 DEF Locals, Keys
<1>3. run' = [run EXCEPT ![r] = x] /\ quiet' = [quiet EXCEPT ![r] = PausedFor(term)]
  BY DEF Begin
<1>4. UNCHANGED <<now, term, stored, copy, preference, user, overtaken>>
  BY DEF Begin
<1> HIDE DEF x
<1>5. \A o \in Runs : run'[o] = IF o = r THEN x ELSE run[o]
  BY <1>1, <1>3
<1>6. PausedFor(term) \in BOOLEAN
  BY DEF PausedFor, Inv, PolicyTypeOK
<1>7. \A o \in Runs : quiet'[o] = IF o = r THEN PausedFor(term) ELSE quiet[o]
  BY <1>3 DEF Inv, PolicyTypeOK
<1>8. PolicyTypeOK'
  <2>1. run' \in [Runs -> {AtRest} \union Locals]
    BY <1>1, <1>2, <1>3
  <2>2. quiet' \in [Runs -> BOOLEAN]
    BY <1>3, <1>6 DEF Inv, PolicyTypeOK
  <2> QED
    BY <2>1, <2>2, <1>4 DEF Inv, PolicyTypeOK, Locals
<1>9. Holding'
  BY <1>5, <1>2 DEF Inv, Holding
<1>10. QuietIsPaused'
  BY <1>5, <1>7, <1>2, <1>4 DEF Inv, QuietIsPaused, PausedFor
<1>11. ResultHasCopy'
  BY <1>5, <1>2, <1>4 DEF Inv, ResultHasCopy, HasCopy
<1>12. PauseRespected'
  BY <1>5, <1>7, <1>2 DEF Inv, PauseRespected
<1> QED
  BY <1>8, <1>9, <1>10, <1>11, <1>12 DEF Inv

LEMMA CheckCopyKeeps == ASSUME Inv, NEW r \in Runs, CheckCopy(r) PROVE Inv'
<1> DEFINE stage == IF copy["activities"] = None THEN "result" ELSE "state"
<1> DEFINE f == \/ run[r].force
                \/ /\ copy["activities"] # None
                   /\ copy["activities"].key.term # run[r].key.term
<1> DEFINE x == [run[r] EXCEPT !.pc = stage, !.force = f]
<1>1. run[r] # AtRest /\ run[r].pc = "copy"
  BY Busy DEF CheckCopy
<1>2. run[r] \in Locals
  BY <1>1, LocalsOf DEF Inv
<1>3. run' = [run EXCEPT ![r] = x]
  BY DEF CheckCopy
<1>4. stage \in {"result", "state"} /\ f \in BOOLEAN
  BY <1>2 DEF Locals
<1> HIDE DEF stage, f
<1>5. x \in Locals /\ x.pc \in {"result", "state"} /\ x.source = run[r].source
      /\ x.key = run[r].key /\ x.state = run[r].state
  BY <1>2, <1>4 DEF Locals
<1>6. UNCHANGED <<now, term, stored, copy, preference, user, quiet, overtaken>>
  BY DEF CheckCopy
<1> HIDE DEF x
<1>7. Backed(x.source, x.state)
  BY <1>1, <1>5, <1>6 DEF Inv, ResultHasCopy, HasCopy, Backed
<1>8. Sound(r, x)
  BY <1>5, <1>7 DEF Sound
<1>9. Turns(r, x)
  BY <1>3, <1>6 DEF Turns, Inv, PolicyTypeOK
<1> QED
  BY <1>1, <1>6, <1>8, <1>9, TurnKeeps

LEMMA CheckResultKeeps == ASSUME Inv, NEW r \in Runs, CheckResult(r) PROVE Inv'
<1> DEFINE f == \/ run[r].force
                \/ /\ stored["activities"] # None
                   /\ stored["activities"].result # None
<1> DEFINE x == [run[r] EXCEPT !.pc = "state", !.force = f]
<1>1. run[r] # AtRest /\ run[r].pc = "result"
  BY Busy DEF CheckResult
<1>2. run[r] \in Locals
  BY <1>1, LocalsOf DEF Inv
<1>3. run' = [run EXCEPT ![r] = x]
  BY DEF CheckResult
<1>4. f \in BOOLEAN
  BY <1>2 DEF Locals
<1> HIDE DEF f
<1>5. x \in Locals /\ x.pc = "state" /\ x.source = run[r].source
      /\ x.key = run[r].key /\ x.state = run[r].state
  BY <1>2, <1>4 DEF Locals
<1>6. UNCHANGED <<now, term, stored, copy, preference, user, quiet, overtaken>>
  BY DEF CheckResult
<1> HIDE DEF x
<1>7. Backed(x.source, x.state)
  BY <1>1, <1>5, <1>6 DEF Inv, ResultHasCopy, HasCopy, Backed
<1>8. Sound(r, x)
  BY <1>5, <1>7 DEF Sound
<1>9. Turns(r, x)
  BY <1>3, <1>6 DEF Turns, Inv, PolicyTypeOK
<1> QED
  BY <1>1, <1>6, <1>8, <1>9, TurnKeeps

LEMMA ReadStateKeeps == ASSUME Inv, NEW r \in Runs, ReadState(r) PROVE Inv'
<1> DEFINE state == Considered(run[r], stored[run[r].source])
<1>1. run[r] # AtRest /\ run[r].pc = "state"
  BY Busy DEF ReadState
<1>2. run[r] \in Locals /\ run[r].source \in Sources
  BY <1>1, LocalsOf DEF Inv, Locals
<1>3. stored[run[r].source] \in States \union {None}
  BY <1>2 DEF Inv, PolicyTypeOK
<1>4. state \in States /\ (state = stored[run[r].source] \/ state.result = None)
  BY <1>2, <1>3, ConsideredState
<1>5. UNCHANGED <<now, term, stored, copy, preference, user, quiet>>
  BY DEF ReadState
<1>6. overtaken' \in [Runs -> BOOLEAN]
  BY DEF ReadState, Inv, PolicyTypeOK
<1> HIDE DEF state
<1>7. Backed(run[r].source, state)
  BY <1>2, <1>4, <1>5 DEF Inv, ResultHasCopy, HasCopy, Backed
<1>8. \E x : run' = [run EXCEPT ![r] = x] /\ Sound(r, x)
  <2>1. CASE run[r].source = "plan"
    <3> DEFINE x == [run[r] EXCEPT !.pc = "preference", !.state = state]
    <3>1. run' = [run EXCEPT ![r] = x]
      BY <2>1 DEF ReadState, state
    <3>2. x \in Locals /\ x.pc = "preference" /\ x.source = run[r].source
          /\ x.key = run[r].key /\ x.state = state
      BY <1>2, <1>4 DEF Locals
    <3> HIDE DEF x
    <3>3. Sound(r, x)
      BY <3>2, <1>4, <1>7 DEF Sound
    <3> QED
      BY <3>1, <3>3
  <2>2. CASE run[r].source # "plan"
    <3>1. Decide(r, state, FALSE)
      BY <2>2 DEF ReadState, state
    <3> QED
      BY <3>1, <2>2, <1>1, <1>4, <1>7, DecideSound
  <2> QED
    BY <2>1, <2>2
<1>9. PICK x : run' = [run EXCEPT ![r] = x] /\ Sound(r, x)
  BY <1>8
<1>10. Turns(r, x)
  BY <1>9, <1>5, <1>6 DEF Turns, Inv, PolicyTypeOK
<1> QED
  BY <1>1, <1>5, <1>9, <1>10, TurnKeeps

LEMMA ReadPreferenceKeeps == ASSUME Inv, NEW r \in Runs, ReadPreference(r) PROVE Inv'
<1>1. run[r] # AtRest /\ run[r].pc = "preference"
  BY Busy DEF ReadPreference
<1>2. run[r].state \in States /\ HasCopy(run[r].source, run[r].state)
  BY <1>1 DEF Inv, Holding, ResultHasCopy
<1>3. UNCHANGED <<now, term, stored, copy, preference, user, quiet, overtaken>>
  BY DEF ReadPreference
<1> DEFINE state == run[r].state
           source == run[r].source
           paused == PausedFor(run[r].key.term)
<1>5. paused \in BOOLEAN
  BY DEF PausedFor, Inv, PolicyTypeOK
<1>6. Decide(r, state, paused)
  BY DEF ReadPreference
<1>7. run[r].source = "plan" /\ quiet[r] => paused
  BY <1>1 DEF Inv, QuietIsPaused
<1>8. copy' = copy
  BY <1>3
<1>9. \E x : run' = [run EXCEPT ![r] = x] /\ Sound(r, x)
  <2>1. CASE LeftAlone(run[r], state, paused)
    <3>1. run' = [run EXCEPT ![r] = AtRest]
      BY <2>1, <1>6 DEF Decide
    <3> QED
      BY <3>1 DEF Sound
  <2>2. CASE ~LeftAlone(run[r], state, paused)
    <3> DEFINE x == [run[r] EXCEPT !.pc = "fetch", !.state = state]
    <3>1. run' = [run EXCEPT ![r] = x]
      BY <2>2, <1>6 DEF Decide
    <3>2. run[r] \in Locals
      BY <1>1, LocalsOf DEF Inv
    <3>3. /\ x \in Locals /\ x.source = source /\ x.key = run[r].key
          /\ x.state = state /\ x.force = run[r].force
      BY <3>2, <1>2 DEF Locals
    <3>4. ~run[r].force => ~paused
      BY <2>2 DEF LeftAlone
    <3> HIDE DEF x
    <3>5. Backed(x.source, x.state)
      BY <3>3, <1>2, <1>8 DEF HasCopy, Backed
    <3>6. Sound(r, x)
      BY <3>3, <3>4, <3>5, <1>2, <1>7 DEF Sound
    <3> QED
      BY <3>1, <3>6
  <2> QED
    BY <2>1, <2>2
<1>10. PICK x : run' = [run EXCEPT ![r] = x] /\ Sound(r, x)
  BY <1>9
<1>11. Turns(r, x)
  BY <1>10, <1>3 DEF Turns, Inv, PolicyTypeOK
<1> QED
  BY <1>1, <1>3, <1>10, <1>11, TurnKeeps

(* Both outcomes of a fetch leave a state with the source's next due time. *)
LEMMA DueIsInt == ASSUME NEW n \in Nat \ {0} PROVE Backoff(n) \in Int
<1>1. \A a, b \in Nat : Min({a, b}) \in {a, b}
  <2> SUFFICES ASSUME NEW a \in Nat, NEW b \in Nat PROVE Min({a, b}) \in {a, b}
    OBVIOUS
  <2>1. \E x \in {a, b} : \A y \in {a, b} : x <= y
    OBVIOUS
  <2> QED
    BY <2>1 DEF Min
<1>2. \A a, b \in Int : Min({a, b}) \in {a, b}
  <2> SUFFICES ASSUME NEW a \in Int, NEW b \in Int PROVE Min({a, b}) \in {a, b}
    OBVIOUS
  <2>1. \E x \in {a, b} : \A y \in {a, b} : x <= y
    OBVIOUS
  <2> QED
    BY <2>1 DEF Min
<1> DEFINE e == Min({n - 1, Doublings})
<1>3. e \in Nat
  BY <1>1, DoublingsAssumption
<1> HIDE DEF e
<1>4. 2 ^ e \in Int
  BY <1>3
<1>5. Base * 2 ^ e \in Int /\ Day \in Int
  BY <1>4, TimesAssumption
<1>6. Backoff(n) = Min({Day, Base * 2 ^ e})
  BY DEF Backoff, e
<1> QED
  BY <1>2, <1>5, <1>6

LEMMA FetchKeeps ==
    ASSUME Inv, NEW r \in Runs, NEW p \in BOOLEAN, NEW c \in Answers \union {{}}, Fetch(r, p, c)
    PROVE  Inv'
<1> DEFINE due == run[r].at + (IF run[r].source = "activities" THEN Refresh ELSE Day)
           result == [published |-> p, complete |-> c, at |-> run[r].at]
           state == [run[r].state EXCEPT !.result = result, !.failures = 0,
                                         !.last = run[r].at, !.due = due]
           x == [run[r] EXCEPT !.pc = "save", !.state = state]
<1>1. run[r] # AtRest /\ run[r].pc = "fetch"
  BY Busy DEF Fetch
<1>2. run[r] \in Locals /\ run[r].state \in States
  BY <1>1, LocalsOf DEF Inv, Holding
<1>3. run' = [run EXCEPT ![r] = x]
  BY DEF Fetch
<1>4. UNCHANGED <<now, term, stored, preference, user, quiet, overtaken>>
  BY DEF Fetch
<1>5. copy' = IF p THEN [copy EXCEPT ![run[r].source] = [key |-> run[r].key, at |-> run[r].at]]
              ELSE copy
  BY DEF Fetch
<1>6. /\ run[r].source \in Sources /\ run[r].key \in Keys /\ run[r].at \in Time
      /\ copy \in [Sources -> Copies \union {None}]
  BY <1>2 DEF Locals, Inv, PolicyTypeOK
<1>7. due \in Int
  BY <1>6, TimesAssumption DEF Time
<1>8. result \in Results /\ result.published = p
  BY <1>6, AnswersAssumption DEF Results
<1> HIDE DEF due, result
<1>13. 0 \in 0..MaxFailures
  BY TimesAssumption
<1>9. state \in States /\ state.result = result
  BY <1>2, <1>6, <1>7, <1>8, <1>13 DEF States
<1> HIDE DEF state
<1>10. x \in Locals /\ x.pc = "save" /\ x.source = run[r].source /\ x.key = run[r].key
       /\ x.state = state /\ x.force = run[r].force
  BY <1>2, <1>9 DEF Locals
<1> HIDE DEF x
<1>11. CASE p
  <2> DEFINE y == [key |-> run[r].key, at |-> run[r].at]
  <2>1. copy' = [copy EXCEPT ![run[r].source] = y] /\ y \in Copies
    BY <1>11, <1>5, <1>6 DEF Copies
  <2>2. y # None
    BY <2>1, NoCopyAssumption
  <2> HIDE DEF y
  <2>3. /\ copy' \in [Sources -> Copies \union {None}]
        /\ \A s \in Sources : copy[s] # None => copy'[s] # None
        /\ copy'[run[r].source] # None
    BY <2>1, <2>2, <1>6
  <2>4. Backed(x.source, x.state)
    BY <2>3, <1>10 DEF Backed
  <2>5. Sound(r, x)
    BY <2>4, <1>9, <1>10, <1>1 DEF Sound, Inv, PauseRespected
  <2>6. Turns(r, x)
    BY <2>3, <1>3, <1>4 DEF Turns, Inv, PolicyTypeOK
  <2> QED
    BY <1>1, <1>4, <2>5, <2>6, TurnKeeps
<1>12. CASE ~p
  <2>1. copy' = copy
    BY <1>12, <1>5
  <2>2. Backed(x.source, x.state)
    BY <1>12, <1>8, <1>9, <1>10 DEF Backed
  <2>3. Sound(r, x)
    BY <2>2, <1>9, <1>10, <1>1 DEF Sound, Inv, PauseRespected
  <2>4. Turns(r, x)
    BY <2>1, <1>3, <1>4 DEF Turns, Inv, PolicyTypeOK
  <2> QED
    BY <1>1, <1>4, <2>3, <2>4, TurnKeeps
<1> QED
  BY <1>11, <1>12

LEMMA FetchFailsKeeps == ASSUME Inv, NEW r \in Runs, FetchFails(r) PROVE Inv'
<1> DEFINE failures == run[r].state.failures + 1
           due == run[r].at + Backoff(failures)
           state == [run[r].state EXCEPT !.failures = failures, !.last = run[r].at, !.due = due]
           x == [run[r] EXCEPT !.pc = "save", !.state = state]
<1>1. run[r] # AtRest /\ run[r].pc = "fetch" /\ run[r].state.failures < MaxFailures
  BY Busy DEF FetchFails
<1>2. run[r] \in Locals /\ run[r].state \in States
  BY <1>1, LocalsOf DEF Inv, Holding
<1>3. run' = [run EXCEPT ![r] = x]
  BY DEF FetchFails
<1>4. UNCHANGED <<now, term, stored, preference, user, quiet, overtaken>>
  BY DEF FetchFails
<1>5. \/ copy' = [copy EXCEPT ![run[r].source] = [key |-> run[r].key, at |-> run[r].at]]
      \/ copy' = copy
  BY DEF FetchFails
<1>6. /\ run[r].source \in Sources /\ run[r].key \in Keys /\ run[r].at \in Time
      /\ copy \in [Sources -> Copies \union {None}]
  BY <1>2 DEF Locals, Inv, PolicyTypeOK
<1>7. failures \in 0..MaxFailures /\ failures \in Nat \ {0}
  BY <1>1, <1>2, TimesAssumption DEF States
<1>8. due \in Int
  BY <1>6, <1>7, DueIsInt, TimesAssumption DEF Time
<1> HIDE DEF due, failures
<1>9. state \in States /\ state.result = run[r].state.result
  BY <1>2, <1>6, <1>7, <1>8 DEF States
<1> HIDE DEF state
<1>10. x \in Locals /\ x.pc = "save" /\ x.source = run[r].source /\ x.key = run[r].key
       /\ x.state = state /\ x.force = run[r].force
  BY <1>2, <1>9 DEF Locals
<1> HIDE DEF x
<1> DEFINE y == [key |-> run[r].key, at |-> run[r].at]
<1>11. y \in Copies
  BY <1>6 DEF Copies
<1>12. copy' = [copy EXCEPT ![run[r].source] = y] \/ copy' = copy
  BY <1>5
<1> HIDE DEF y
<1>13. /\ copy' \in [Sources -> Copies \union {None}]
       /\ \A s \in Sources : copy[s] # None => copy'[s] # None
  BY <1>6, <1>11, <1>12, NoCopyAssumption
<1>14. HasCopy(run[r].source, run[r].state)
  BY <1>1 DEF Inv, ResultHasCopy
<1>15. run[r].state # None
  BY <1>2, NoStateAssumption
<1>16. Backed(x.source, x.state)
  BY <1>9, <1>10, <1>13, <1>14, <1>15, <1>6 DEF Backed, HasCopy
<1>17. Sound(r, x)
  BY <1>16, <1>9, <1>10, <1>1 DEF Sound, Inv, PauseRespected
<1>18. Turns(r, x)
  BY <1>13, <1>3, <1>4 DEF Turns, Inv, PolicyTypeOK
<1> QED
  BY <1>1, <1>4, <1>17, <1>18, TurnKeeps

LEMMA SaveKeeps == ASSUME Inv, NEW r \in Runs, Save(r) PROVE Inv'
<1>1. run[r] # AtRest /\ run[r].pc = "save"
  BY Busy DEF Save
<1>2. run[r] \in Locals /\ run[r].state \in States
  BY <1>1, LocalsOf DEF Inv, Holding
<1>3. run' = [run EXCEPT ![r] = AtRest] /\ stored' = [stored EXCEPT ![run[r].source] = run[r].state]
  BY DEF Save
<1>4. UNCHANGED <<now, term, copy, preference, user, quiet>>
  BY DEF Save
<1>5. overtaken' \in [Runs -> BOOLEAN]
  BY DEF Save, Overtaken, Inv, PolicyTypeOK
<1>6. run \in [Runs -> {AtRest} \union Locals] /\ run[r].source \in Sources
  BY <1>2 DEF Inv, PolicyTypeOK, Locals
<1>7. \A o \in Runs : run'[o] = IF o = r THEN AtRest ELSE run[o]
  BY <1>3, <1>6
<1>8. PolicyTypeOK'
  <2>1. run' \in [Runs -> {AtRest} \union Locals]
    BY <1>3, <1>6
  <2>2. stored' \in [Sources -> States \union {None}]
    BY <1>2, <1>3, <1>6 DEF Inv, PolicyTypeOK
  <2> QED
    BY <2>1, <2>2, <1>4, <1>5 DEF Inv, PolicyTypeOK, Locals
<1>9. Holding'
  BY <1>7 DEF Inv, Holding
<1>10. QuietIsPaused'
  BY <1>7, <1>4 DEF Inv, QuietIsPaused, PausedFor
<1>11. ResultHasCopy'
  <2>1. ASSUME NEW s \in Sources PROVE HasCopy(s, stored[s])'
    <3>1. CASE s = run[r].source
      <4>1. stored'[s] = run[r].state
        BY <3>1, <1>3 DEF Inv, PolicyTypeOK
      <4>2. HasCopy(s, run[r].state)
        BY <3>1, <1>1 DEF Inv, ResultHasCopy
      <4> QED
        BY <4>1, <4>2, <1>4 DEF HasCopy
    <3>2. CASE s # run[r].source
      <4>1. stored'[s] = stored[s]
        BY <3>2, <1>3 DEF Inv, PolicyTypeOK
      <4> QED
        BY <4>1, <1>4 DEF HasCopy, Inv, ResultHasCopy
    <3> QED
      BY <3>1, <3>2
  <2>2. ASSUME NEW o \in Runs, run'[o] # AtRest
        PROVE  HasCopy(run[o].source, run[o].state)'
    BY <2>2, <1>7, <1>4 DEF HasCopy, Inv, ResultHasCopy
  <2> QED
    BY <2>1, <2>2 DEF ResultHasCopy
<1>12. PauseRespected'
  BY <1>7, <1>4 DEF Inv, PauseRespected
<1> QED
  BY <1>8, <1>9, <1>10, <1>11, <1>12 DEF Inv

LEMMA EndsKeeps == ASSUME Inv, NEW r \in Runs, Ends(r) PROVE Inv'
<1>1. run[r] # AtRest /\ run' = [run EXCEPT ![r] = AtRest]
      /\ UNCHANGED <<now, term, stored, copy, preference, user, quiet, overtaken>>
  BY DEF Ends
<1>2. Turns(r, AtRest)
  BY <1>1 DEF Turns, Inv, PolicyTypeOK
<1>3. Sound(r, AtRest)
  BY DEF Sound
<1> QED
  BY <1>1, <1>2, <1>3, TurnKeeps

(* The user's requests, a change of term and the clock touch no run.       *)
LEMMA OthersKeep ==
    ASSUME Inv, UNCHANGED <<run, stored, copy, overtaken>>, PolicyTypeOK', QuietIsPaused',
           \A r \in Runs : run[r] # AtRest /\ quiet'[r] => quiet[r]
    PROVE  Inv'
<1>1. Holding'
  BY DEF Inv, Holding
<1>2. ResultHasCopy'
  BY DEF Inv, ResultHasCopy, HasCopy
<1>3. PauseRespected'
  BY DEF Inv, PauseRespected
<1> QED
  BY <1>1, <1>2, <1>3 DEF Inv

LEMMA ConfirmPutKeeps == ASSUME Inv, NEW u \in Users, ConfirmPut(u) PROVE Inv'
<1>1. user[u].pc = "put" /\ user[u] # AtRest
  BY DEF ConfirmPut, AtRest
<1>2. user[u] \in [pc : {"put"}, paused : BOOLEAN, term : Terms]
  BY <1>1 DEF Inv, PolicyTypeOK
<1>3. /\ preference' = [paused |-> user[u].paused, term |-> user[u].term]
      /\ user' = [user EXCEPT ![u] = AtRest]
      /\ quiet' = [r \in Runs |-> /\ quiet[r]
                                  /\ user[u].paused
                                  /\ run[r] # AtRest /\ run[r].key.term = user[u].term]
      /\ UNCHANGED <<now, term, stored, copy, run, overtaken>>
  BY DEF ConfirmPut
<1>4. quiet' \in [Runs -> BOOLEAN]
  <2>1. \A r \in Runs : (/\ quiet[r] /\ user[u].paused
                         /\ run[r] # AtRest /\ run[r].key.term = user[u].term) \in BOOLEAN
    OBVIOUS
  <2> QED
    BY <2>1, <1>3
<1>5. PolicyTypeOK'
  BY <1>2, <1>3, <1>4 DEF Inv, PolicyTypeOK
<1>6. \A r \in Runs : quiet'[r] => /\ quiet[r] /\ user[u].paused
                                   /\ run[r] # AtRest /\ run[r].key.term = user[u].term
  BY <1>3
<1>7. QuietIsPaused'
  BY <1>3, <1>6, <1>2 DEF QuietIsPaused, PausedFor
<1> QED
  BY <1>3, <1>5, <1>6, <1>7, OthersKeep

LEMMA ConfirmGetKeeps ==
    ASSUME Inv, NEW u \in Users, NEW p \in BOOLEAN, ConfirmGet(u, p) PROVE Inv'
<1>1. UNCHANGED <<now, term, stored, copy, preference, run, quiet, overtaken>>
  BY DEF ConfirmGet
<1>2. PolicyTypeOK'
  BY <1>1 DEF ConfirmGet, Inv, PolicyTypeOK
<1>3. QuietIsPaused'
  BY <1>1 DEF Inv, QuietIsPaused, PausedFor
<1> QED
  BY <1>1, <1>2, <1>3, OthersKeep

LEMMA EditTermKeeps == ASSUME Inv, NEW t \in Terms, EditTerm(t) PROVE Inv'
<1>1. UNCHANGED <<now, stored, copy, preference, run, user, quiet, overtaken>> /\ term' = t
  BY DEF EditTerm
<1>2. PolicyTypeOK'
  BY <1>1 DEF Inv, PolicyTypeOK
<1>3. QuietIsPaused'
  BY <1>1 DEF Inv, QuietIsPaused, PausedFor
<1> QED
  BY <1>1, <1>2, <1>3, OthersKeep

LEMMA TimeKeeps == ASSUME Inv, TimePasses PROVE Inv'
<1>1. UNCHANGED <<term, stored, copy, preference, run, user, quiet, overtaken>>
      /\ now' = now + 1 /\ now < MaxTime
  BY DEF TimePasses
<1>2. now' \in Time
  BY <1>1, TimesAssumption DEF Inv, PolicyTypeOK, Time
<1>3. PolicyTypeOK'
  BY <1>1, <1>2 DEF Inv, PolicyTypeOK
<1>4. QuietIsPaused'
  BY <1>1 DEF Inv, QuietIsPaused, PausedFor
<1> QED
  BY <1>1, <1>3, <1>4, OthersKeep

LEMMA NextKeeps == Inv /\ [PolicyNext]_policyVars => Inv'
<1> SUFFICES ASSUME Inv, [PolicyNext]_policyVars PROVE Inv'
  OBVIOUS
<1>1. CASE UNCHANGED policyVars
  BY <1>1 DEF policyVars, Inv, PolicyTypeOK, Holding, QuietIsPaused, PausedFor, ResultHasCopy, HasCopy,
              PauseRespected
<1>2. ASSUME NEW r \in Runs, NEW s \in Sources, NEW i \in PlanIds \union {NoId},
             NEW f \in BOOLEAN, Begin(r, s, i, f)
      PROVE  Inv'
  BY <1>2, BeginKeeps
<1>3. ASSUME NEW r \in Runs,
             CheckCopy(r) \/ CheckResult(r) \/ ReadState(r) \/ ReadPreference(r)
             \/ FetchFails(r) \/ Save(r) \/ Ends(r)
      PROVE  Inv'
  BY <1>3, CheckCopyKeeps, CheckResultKeeps, ReadStateKeeps, ReadPreferenceKeeps,
     FetchFailsKeeps, SaveKeeps, EndsKeeps
<1>4. ASSUME NEW r \in Runs, NEW p \in BOOLEAN, NEW c \in Answers \union {{}}, Fetch(r, p, c)
      PROVE  Inv'
  BY <1>4, FetchKeeps
<1>5. ASSUME NEW u \in Users, (\E p \in BOOLEAN : ConfirmGet(u, p)) \/ ConfirmPut(u)
      PROVE  Inv'
  BY <1>5, ConfirmGetKeeps, ConfirmPutKeeps
<1>6. ASSUME NEW t \in Terms, EditTerm(t) PROVE Inv'
  BY <1>6, EditTermKeeps
<1>7. CASE TimePasses
  BY <1>7, TimeKeeps
<1> QED
  BY <1>1, <1>2, <1>3, <1>4, <1>5, <1>6, <1>7 DEF PolicyNext

(* Documents, runs and requests keep their types.                          *)
THEOREM PolicyTypes == PolicySpec => []PolicyTypeOK
<1>1. Inv => PolicyTypeOK
  BY DEF Inv
<1> QED
  BY InitInv, NextKeeps, <1>1, PTL DEF PolicySpec

(* course_sync_policy.py run: whichever runs overlap, die or fail, a       *)
(* state, stored or in a run's hands, names a result only if a copy of its *)
(* source is stored.                                                       *)
THEOREM CopyStandsBehindResult == PolicySpec => []ResultHasCopy
<1>1. Inv => ResultHasCopy
  BY DEF Inv
<1> QED
  BY InitInv, NextKeeps, <1>1, PTL DEF PolicySpec

(* course_sync_policy.py manual_paused, confirm_plan: no automatic run     *)
(* asks for the plan of a term the user paused before the run began and    *)
(* has not resumed, however its reads fall among the user's requests.      *)
THEOREM PauseHolds == PolicySpec => []PauseRespected
<1>1. Inv => PauseRespected
  BY DEF Inv
<1> QED
  BY InitInv, NextKeeps, <1>1, PTL DEF PolicySpec

(* What a run holds of a stored state: the same result while the source is *)
(* the same, or the answer of a fetch of its own.                          *)
Carries(l, state) ==
    state # None /\ state.result # None /\ state.key = l.state.key =>
        \/ l.state.result = state.result
        \/ l.pc = "save" /\ l.state.failures = 0

(* A run whose source nobody saved since it read the state carries it to   *)
(* its save: behind LastCopyKept.                                          *)
CarriedBy(r) ==
    run[r] # AtRest /\ run[r].pc \in {"preference", "fetch", "save"} /\ ~overtaken[r] =>
        Carries(run[r], stored[run[r].source])

Carried == \A r \in Runs : CarriedBy(r)

(* A step of one run that saves nothing.                                   *)
LEMMA TurnCarries ==
    ASSUME Inv, Carried, NEW r \in Runs, NEW x, run' = [run EXCEPT ![r] = x],
           UNCHANGED stored,
           \A o \in Runs : o # r => overtaken'[o] = overtaken[o],
           x # AtRest /\ x.pc \in {"preference", "fetch", "save"} /\ ~overtaken'[r] =>
               Carries(x, stored[x.source])
    PROVE  Carried'
<1>1. \A o \in Runs : run'[o] = IF o = r THEN x ELSE run[o]
  BY DEF Inv, PolicyTypeOK
<1> SUFFICES ASSUME NEW o \in Runs PROVE CarriedBy(o)'
  BY DEF Carried
<1>2. CASE o = r
  BY <1>1, <1>2 DEF CarriedBy, Carries
<1>3. CASE o # r
  <2>1. CarriedBy(o) /\ run'[o] = run[o] /\ overtaken'[o] = overtaken[o]
    BY <1>1, <1>3 DEF Carried
  <2> QED
    BY <2>1 DEF CarriedBy, Carries
<1> QED
  BY <1>2, <1>3

(* A step that touches no run and saves nothing.                           *)
LEMMA OthersCarry ==
    ASSUME Carried, UNCHANGED <<run, stored, overtaken>> PROVE Carried'
BY DEF Carried, CarriedBy, Carries

LEMMA BeginCarries ==
    ASSUME Inv, Carried, NEW r \in Runs, NEW s \in Sources, NEW i \in PlanIds \union {NoId},
           NEW f \in BOOLEAN, Begin(r, s, i, f)
    PROVE  Carried'
<1> DEFINE x == [pc |-> IF s = "activities" THEN "copy" ELSE "state", source |-> s,
                 key |-> [term |-> term, id |-> i], force |-> f, at |-> now, state |-> None]
<1>1. run' = [run EXCEPT ![r] = x] /\ UNCHANGED <<stored, overtaken>>
  BY DEF Begin
<1>2. x.pc \notin {"preference", "fetch", "save"}
  OBVIOUS
<1> HIDE DEF x
<1> QED
  BY <1>1, <1>2, TurnCarries

LEMMA CheckedCarries ==
    ASSUME Inv, Carried, NEW r \in Runs, run[r] # AtRest, NEW stage \in {"result", "state"}, NEW f,
           run' = [run EXCEPT ![r] = [run[r] EXCEPT !.pc = stage, !.force = f]],
           UNCHANGED <<stored, overtaken>>
    PROVE  Carried'
<1> DEFINE x == [run[r] EXCEPT !.pc = stage, !.force = f]
<1>1. run[r] \in Locals
  BY LocalsOf DEF Inv
<1>2. x.pc \notin {"preference", "fetch", "save"}
  BY <1>1 DEF Locals
<1>3. run' = [run EXCEPT ![r] = x]
  OBVIOUS
<1> HIDE DEF x
<1> QED
  BY <1>2, <1>3, TurnCarries

LEMMA CheckCopyCarries == ASSUME Inv, Carried, NEW r \in Runs, CheckCopy(r) PROVE Carried'
<1> DEFINE stage == IF copy["activities"] = None THEN "result" ELSE "state"
<1> DEFINE f == \/ run[r].force
                \/ /\ copy["activities"] # None
                   /\ copy["activities"].key.term # run[r].key.term
<1>1. run' = [run EXCEPT ![r] = [run[r] EXCEPT !.pc = stage, !.force = f]]
  BY DEF CheckCopy
<1>2. run[r] # AtRest /\ UNCHANGED <<stored, overtaken>> /\ stage \in {"result", "state"}
  BY Busy DEF CheckCopy
<1> HIDE DEF stage, f
<1> QED
  BY <1>1, <1>2, CheckedCarries

LEMMA CheckResultCarries == ASSUME Inv, Carried, NEW r \in Runs, CheckResult(r) PROVE Carried'
<1> DEFINE f == \/ run[r].force
                \/ /\ stored["activities"] # None
                   /\ stored["activities"].result # None
<1>1. run' = [run EXCEPT ![r] = [run[r] EXCEPT !.pc = "state", !.force = f]]
  BY DEF CheckResult
<1>2. run[r] # AtRest /\ UNCHANGED <<stored, overtaken>>
  BY Busy DEF CheckResult
<1> HIDE DEF f
<1> QED
  BY <1>1, <1>2, CheckedCarries

(* A state that is read is the stored one, or one of another source's.     *)
LEMMA ReadStateCarries == ASSUME Inv, Carried, NEW r \in Runs, ReadState(r) PROVE Carried'
<1> DEFINE source == run[r].source
           state == Considered(run[r], stored[source])
<1>1. run[r] # AtRest
  BY Busy DEF ReadState
<1>2. run[r] \in Locals
  BY <1>1, LocalsOf DEF Inv
<1>3. stored[source] # None /\ stored[source].key = state.key => state = stored[source]
  <2>1. CASE stored[source] # None /\ stored[source].key = run[r].key
    BY <2>1 DEF Considered
  <2>2. CASE ~(stored[source] # None /\ stored[source].key = run[r].key)
    <3>1. state.key = run[r].key
      BY <2>2 DEF Considered
    <3> QED
      BY <2>2, <3>1
  <2> QED
    BY <2>1, <2>2
<1>4. UNCHANGED stored /\ \A o \in Runs : o # r => overtaken'[o] = overtaken[o]
  BY DEF ReadState, Inv, PolicyTypeOK
<1>5. /\ source = "plan" => run' = [run EXCEPT ![r].pc = "preference", ![r].state = state]
      /\ source # "plan" => Decide(r, state, FALSE)
  BY DEF ReadState
<1> HIDE DEF state, source
<1>6. \E stage \in {"preference", "fetch"} :
          \/ run' = [run EXCEPT ![r] = AtRest]
          \/ run' = [run EXCEPT ![r] = [run[r] EXCEPT !.pc = stage, !.state = state]]
  <2>1. CASE source = "plan"
    BY <2>1, <1>5
  <2>2. CASE source # "plan"
    BY <2>2, <1>5 DEF Decide
  <2> QED
    BY <2>1, <2>2
<1>7. CASE run' = [run EXCEPT ![r] = AtRest]
  BY <1>7, <1>4, TurnCarries
<1>8. ASSUME NEW stage \in {"preference", "fetch"},
             run' = [run EXCEPT ![r] = [run[r] EXCEPT !.pc = stage, !.state = state]]
      PROVE  Carried'
  <2> DEFINE x == [run[r] EXCEPT !.pc = stage, !.state = state]
  <2>1. x.source = source /\ x.state = state
    BY <1>2 DEF Locals, source
  <2>2. run' = [run EXCEPT ![r] = x]
    BY <1>8
  <2> HIDE DEF x
  <2>3. Carries(x, stored[x.source])
    BY <2>1, <1>3 DEF Carries
  <2> QED
    BY <2>2, <2>3, <1>4, TurnCarries
<1> QED
  BY <1>6, <1>7, <1>8

LEMMA ReadPreferenceCarries ==
    ASSUME Inv, Carried, NEW r \in Runs, ReadPreference(r) PROVE Carried'
<1>1. run[r] # AtRest /\ run[r].pc = "preference"
  BY Busy DEF ReadPreference
<1>2. run[r] \in Locals
  BY <1>1, LocalsOf DEF Inv
<1>3. UNCHANGED <<stored, overtaken>>
  BY DEF ReadPreference
<1> DEFINE x == [run[r] EXCEPT !.pc = "fetch", !.state = run[r].state]
<1>4. run' = [run EXCEPT ![r] = AtRest] \/ run' = [run EXCEPT ![r] = x]
  BY DEF ReadPreference, Decide
<1>5. x.source = run[r].source /\ x.state = run[r].state
  BY <1>2 DEF Locals
<1> HIDE DEF x
<1>6. ~overtaken[r] => Carries(x, stored[x.source])
  BY <1>1, <1>5 DEF Carried, CarriedBy, Carries
<1>7. CASE run' = [run EXCEPT ![r] = AtRest]
  BY <1>7, <1>3, TurnCarries
<1>8. CASE run' = [run EXCEPT ![r] = x]
  BY <1>8, <1>3, <1>6, TurnCarries
<1> QED
  BY <1>4, <1>7, <1>8

LEMMA FetchCarries ==
    ASSUME Inv, Carried, NEW r \in Runs, NEW p \in BOOLEAN, NEW c \in Answers \union {{}},
           Fetch(r, p, c)
    PROVE  Carried'
<1> DEFINE due == run[r].at + (IF run[r].source = "activities" THEN Refresh ELSE Day)
           result == [published |-> p, complete |-> c, at |-> run[r].at]
           state == [run[r].state EXCEPT !.result = result, !.failures = 0,
                                         !.last = run[r].at, !.due = due]
           x == [run[r] EXCEPT !.pc = "save", !.state = state]
<1>1. run[r] # AtRest /\ run[r].pc = "fetch"
  BY Busy DEF Fetch
<1>2. run[r] \in Locals /\ run[r].state \in States
  BY <1>1, LocalsOf DEF Inv, Holding
<1>3. run' = [run EXCEPT ![r] = x] /\ UNCHANGED <<stored, overtaken>>
  BY DEF Fetch
<1> HIDE DEF due, result
<1>4. state.failures = 0
  BY <1>2 DEF States
<1> HIDE DEF state
<1>5. x.pc = "save" /\ x.state = state
  BY <1>2 DEF Locals
<1> HIDE DEF x
<1>6. Carries(x, stored[x.source])
  BY <1>4, <1>5 DEF Carries
<1> QED
  BY <1>3, <1>6, TurnCarries

(* A fetch that fails keeps the result it had in hand.                     *)
LEMMA FetchFailsCarries == ASSUME Inv, Carried, NEW r \in Runs, FetchFails(r) PROVE Carried'
<1> DEFINE failures == run[r].state.failures + 1
           due == run[r].at + Backoff(failures)
           state == [run[r].state EXCEPT !.failures = failures, !.last = run[r].at, !.due = due]
           x == [run[r] EXCEPT !.pc = "save", !.state = state]
<1>1. run[r] # AtRest /\ run[r].pc = "fetch"
  BY Busy DEF FetchFails
<1>2. run[r] \in Locals /\ run[r].state \in States
  BY <1>1, LocalsOf DEF Inv, Holding
<1>3. run' = [run EXCEPT ![r] = x] /\ UNCHANGED <<stored, overtaken>>
  BY DEF FetchFails
<1> HIDE DEF due, failures
<1>4. state.key = run[r].state.key /\ state.result = run[r].state.result
  BY <1>2 DEF States
<1> HIDE DEF state
<1>5. x.source = run[r].source /\ x.state = state
  BY <1>2 DEF Locals
<1> HIDE DEF x
<1>6. ~overtaken[r] => Carries(x, stored[x.source])
  BY <1>1, <1>4, <1>5 DEF Carried, CarriedBy, Carries
<1> QED
  BY <1>3, <1>6, TurnCarries

(* A save takes the source from the hands of every other run that is at it.*)
LEMMA SaveCarries == ASSUME Inv, Carried, NEW r \in Runs, Save(r) PROVE Carried'
<1>1. run[r] # AtRest
  BY Busy DEF Save
<1>2. run[r] \in Locals /\ run[r].source \in Sources
  BY <1>1, LocalsOf DEF Inv, Locals
<1>3. \A o \in Runs : run'[o] = IF o = r THEN AtRest ELSE run[o]
  BY DEF Save, Inv, PolicyTypeOK
<1>4. \A s \in Sources : s # run[r].source => stored'[s] = stored[s]
  BY DEF Save, Inv, PolicyTypeOK
<1> SUFFICES ASSUME NEW o \in Runs, o # r, run[o] # AtRest, ~overtaken'[o]
             PROVE  CarriedBy(o)'
  BY <1>3 DEF Carried, CarriedBy
<1>5. ~overtaken[o] /\ run[o].source # run[r].source
  BY DEF Save, Overtaken
<1>6. run[o].source \in Sources
  BY LocalsOf DEF Inv, Locals
<1>7. run'[o] = run[o] /\ stored'[run[o].source] = stored[run[o].source] /\ CarriedBy(o)
  BY <1>3, <1>4, <1>5, <1>6 DEF Carried
<1> QED
  BY <1>5, <1>7 DEF CarriedBy, Carries

LEMMA NextCarries == Inv /\ Carried /\ [PolicyNext]_policyVars => Carried'
<1> SUFFICES ASSUME Inv, Carried, [PolicyNext]_policyVars PROVE Carried'
  OBVIOUS
<1>1. CASE UNCHANGED policyVars
  BY <1>1, OthersCarry DEF policyVars
<1>2. ASSUME NEW r \in Runs, NEW s \in Sources, NEW i \in PlanIds \union {NoId},
             NEW f \in BOOLEAN, Begin(r, s, i, f)
      PROVE  Carried'
  BY <1>2, BeginCarries
<1>3. ASSUME NEW r \in Runs,
             CheckCopy(r) \/ CheckResult(r) \/ ReadState(r) \/ ReadPreference(r)
             \/ FetchFails(r) \/ Save(r)
      PROVE  Carried'
  BY <1>3, CheckCopyCarries, CheckResultCarries, ReadStateCarries,
     ReadPreferenceCarries, FetchFailsCarries, SaveCarries
<1>4. ASSUME NEW r \in Runs, Ends(r) PROVE Carried'
  <2>1. run' = [run EXCEPT ![r] = AtRest] /\ UNCHANGED <<stored, overtaken>>
    BY <1>4 DEF Ends
  <2> QED
    BY <2>1, TurnCarries
<1>5. ASSUME NEW r \in Runs, NEW p \in BOOLEAN, NEW c \in Answers \union {{}}, Fetch(r, p, c)
      PROVE  Carried'
  BY <1>5, FetchCarries
<1>6. ASSUME NEW u \in Users, (\E p \in BOOLEAN : ConfirmGet(u, p)) \/ ConfirmPut(u)
      PROVE  Carried'
  BY <1>6, OthersCarry DEF ConfirmGet, ConfirmPut
<1>7. CASE (\E t \in Terms : EditTerm(t)) \/ TimePasses
  BY <1>7, OthersCarry DEF EditTerm, TimePasses
<1> QED
  BY <1>1, <1>2, <1>3, <1>4, <1>5, <1>6, <1>7 DEF PolicyNext

(* Only a save changes a state.                                            *)
LEMMA StoredBySave ==
    ASSUME [PolicyNext]_policyVars, stored' # stored PROVE \E r \in Runs : Save(r)
BY DEF PolicyNext, policyVars, Begin, CheckCopy, CheckResult, ReadState, ReadPreference, Fetch, FetchFails,
       Ends, ConfirmGet, ConfirmPut, EditTerm, TimePasses

LastCopyStep ==
    \A s \in Sources : Replaced(s) =>
        \E r \in Runs : /\ run[r] # AtRest /\ run'[r] = AtRest
                        /\ run[r].source = s
                        /\ overtaken[r] \/ stored'[s].failures = 0

LEMMA StepKeepsLastCopy == Inv /\ Carried /\ [PolicyNext]_policyVars => LastCopyStep
<1> SUFFICES ASSUME Inv, Carried, [PolicyNext]_policyVars, NEW s \in Sources, Replaced(s)
             PROVE  \E r \in Runs : /\ run[r] # AtRest /\ run'[r] = AtRest
                                    /\ run[r].source = s
                                    /\ overtaken[r] \/ stored'[s].failures = 0
  BY DEF LastCopyStep
<1>1. PICK r \in Runs : Save(r)
  BY StoredBySave DEF Replaced
<1>2. run[r] # AtRest /\ run[r].pc = "save"
  BY <1>1, Busy DEF Save
<1>3. run'[r] = AtRest /\ stored' = [stored EXCEPT ![run[r].source] = run[r].state]
  BY <1>1 DEF Save, Inv, PolicyTypeOK
<1>4. run[r].source = s /\ stored'[s] = run[r].state
  BY <1>3 DEF Replaced, Inv, PolicyTypeOK
<1>5. ~overtaken[r] => Carries(run[r], stored[s])
  BY <1>2, <1>4 DEF Carried, CarriedBy
<1>6. overtaken[r] \/ stored'[s].failures = 0
  BY <1>4, <1>5 DEF Carries, Replaced
<1> QED
  BY <1>2, <1>3, <1>4, <1>6

(* course_sync_policy.py run, _save, "without discarding the last complete *)
(* copy": for any number of overlapping runs, users, failures and lost     *)
(* answers, a source's last result only gives way to the answer of a fetch *)
(* that succeeded, or to a run another one saved beside.                   *)
THEOREM CopyKept == PolicySpec => LastCopyKept
<1>1. PolicyInit => Carried
  BY DEF PolicyInit, Carried, CarriedBy
<1>2. LastCopyStep => [\A s \in Sources : Replaced(s) =>
          \E r \in Runs : /\ run[r] # AtRest /\ run'[r] = AtRest
                          /\ run[r].source = s
                          /\ overtaken[r] \/ stored'[s].failures = 0]_policyVars
  BY DEF LastCopyStep
<1> QED
  BY InitInv, NextKeeps, NextCarries, StepKeepsLastCopy, <1>1, <1>2, PTL DEF PolicySpec, LastCopyKept

=============================================================================

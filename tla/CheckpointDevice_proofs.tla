---------------------- MODULE CheckpointDevice_proofs ----------------------
(***************************************************************************)
(* Proofs about CheckpointDevice for every set of accounts, revisions,     *)
(* reports and workers.  What the methods under the lock do to a device is *)
(* stated once, as a relation: Follows.  A report stays the report it was, *)
(* or goes; it may settle, and once settled only a cancellation changes    *)
(* how.  Only a report that schedule stores is new.  What the captures,    *)
(* the jobs of the worker and the server do is a second relation,          *)
(* DeliveryMoves; the two together keep the inductive invariant.           *)
(***************************************************************************)
EXTENDS CheckpointDevice, TLAPS

SameReport(r, q) ==
  /\ q.owner = r.owner /\ q.slot = r.slot /\ q.moment = r.moment
  /\ ~Settled(q) => ~Settled(r)
  /\ Settled(r) => q.status \in {r.status, "cancelled"}

(* A ping inside the window of its report, captured by now.                *)
InWindow(r) ==
  LET from == Expected(r.slot)[r.moment]
  IN  r.captured \in from..(from + WINDOW) /\ r.captured < r.slot.end /\ r.captured <= now

(* The server has this ping, or the session was deleted or moved there.    *)
Agreed(a, slot, m, ping) ==
  \/ doc[a] = NoDoc
  \/ doc[a].slot = slot /\ doc[a][m] = ping
  \/ doc[a].slot # slot /\ doc[a].moved
AgreedOn(r) == Agreed(r.owner, r.slot, r.moment, r.ping)

Applied(r) == r.delivery \in {"applied", "already_applied"}
Still(r, q) == r.status = "succeeded" /\ q.ping = r.ping /\ q.captured = r.captured

(* Report s, r before and q after: it is acknowledged only if the server   *)
(* answered for it, succeeds only with a ping of its window, and counts as *)
(* applied only if the server agrees.                                      *)
KeptAt(r, q, s) ==
  /\ SameReport(r, q)
  /\ Acknowledged(q) => Acknowledged(r) \/ s \in answered
  /\ q.status = "succeeded" => Still(r, q) \/ (~Settled(r) /\ InWindow(q))
  /\ q.status = "succeeded" /\ Applied(q) => (Still(r, q) /\ Applied(r)) \/ AgreedOn(q)

FollowsAt(d, e, s) ==
  e.report[s] # NoReportYet =>
    d.report[s] # NoReportYet /\ KeptAt(d.report[s], e.report[s], s)
Follows(d, e) == e.index \subseteq d.index /\ \A s \in Store : FollowsAt(d, e, s)

Good(d) == /\ d \in Device
           /\ \A s \in d.index : d.report[s] # NoReportYet
Steps(d, e) == Good(e) /\ Follows(d, e) /\ e.account = d.account
Keeps(d, e) == /\ e.index = d.index
               /\ \A s \in Store : d.report[s] # NoReportYet => e.report[s] # NoReportYet
-----------------------------------------------------------------------------
LEMMA Unchanged ==
  ASSUME NEW r, NEW s PROVE KeptAt(r, r, s) /\ SameReport(r, r)
BY DEF SameReport, KeptAt, Still

LEMMA FollowsItself ==
  ASSUME NEW d PROVE Follows(d, d)
BY Unchanged DEF Follows, FollowsAt

LEMMA SameReportOn ==
  ASSUME NEW r, NEW q, NEW p, SameReport(r, q), SameReport(q, p)
  PROVE  SameReport(r, p)
<1>1. Settled(r) => Settled(q)
  BY DEF SameReport, Settled, Active
<1>2. Settled(r) => p.status \in {r.status, "cancelled"}
  BY <1>1 DEF SameReport
<1> QED BY <1>2 DEF SameReport

LEMMA KeptAtOn ==
  ASSUME NEW r, NEW q, NEW p, NEW s, KeptAt(r, q, s), KeptAt(q, p, s)
  PROVE  KeptAt(r, p, s)
<1>1. SameReport(r, q) /\ SameReport(q, p) /\ SameReport(r, p)
  BY SameReportOn DEF KeptAt
<1>2. Still(q, p) /\ InWindow(q) => InWindow(p)
  BY <1>1 DEF Still, InWindow, SameReport
<1>3. Still(q, p) /\ AgreedOn(q) => AgreedOn(p)
  BY <1>1 DEF Still, AgreedOn, SameReport
<1>4. Still(q, p) /\ Still(r, q) => Still(r, p)
  BY DEF Still
<1>5. Still(q, p) => q.status = "succeeded"
  BY DEF Still
<1>6. ~Settled(q) => ~Settled(r)
  BY <1>1 DEF SameReport
<1>7. p.status = "succeeded" => Still(r, p) \/ (~Settled(r) /\ InWindow(p))
  BY <1>2, <1>4, <1>5, <1>6 DEF KeptAt
<1>8. p.status = "succeeded" /\ Applied(p) => (Still(r, p) /\ Applied(r)) \/ AgreedOn(p)
  BY <1>3, <1>4, <1>5 DEF KeptAt
<1> QED BY <1>1, <1>7, <1>8 DEF KeptAt

LEMMA FollowsAtOn ==
  ASSUME NEW d, NEW e, NEW f, NEW s, FollowsAt(d, e, s), FollowsAt(e, f, s)
  PROVE  FollowsAt(d, f, s)
BY KeptAtOn DEF FollowsAt

LEMMA FollowsOn ==
  ASSUME NEW d, NEW e, NEW f, Follows(d, e), Follows(e, f)
  PROVE  Follows(d, f)
BY FollowsAtOn DEF Follows

(* New alarms and reports of a device, each report the one it was; new     *)
(* reports alone; new work alone.                                          *)
Rewrite(d, A, f) == [d EXCEPT !.alarms = A, !.report = f]
Rework(d, f) == [d EXCEPT !.work = f]

LEMMA Rewritten ==
  ASSUME NEW d, Good(d), NEW A, A \subseteq Store,
         NEW f, f \in [Store -> Checkpoint \cup {NoReportYet}],
         \A s \in Store : /\ d.report[s] = NoReportYet => f[s] = NoReportYet
                          /\ d.report[s] # NoReportYet =>
                               f[s] # NoReportYet /\ KeptAt(d.report[s], f[s], s)
  PROVE  Steps(d, Rewrite(d, A, f)) /\ Keeps(d, Rewrite(d, A, f))
<1> DEFINE e == Rewrite(d, A, f)
<1>1. d \in Device /\ d.index \subseteq Store
  BY DEF Good, Device
<1>2. e \in Device
  BY <1>1 DEF Device, Rewrite
<1>3. e.account = d.account /\ e.index = d.index /\ e.alarms = A /\ e.report = f
  BY <1>1 DEF Device, Rewrite
<1> HIDE DEF e
<1>4. \A s \in d.index : e.report[s] # NoReportYet
  BY <1>1, <1>3 DEF Good
<1>5. Follows(d, e)
  BY <1>3 DEF Follows, FollowsAt
<1> QED BY <1>2, <1>3, <1>4, <1>5 DEF Good, Steps, Keeps, e

Rereport(d, f) == [d EXCEPT !.report = f]

LEMMA Rereported ==
  ASSUME NEW d, Good(d), NEW f, f \in [Store -> Checkpoint \cup {NoReportYet}],
         \A s \in Store : /\ d.report[s] = NoReportYet => f[s] = NoReportYet
                          /\ d.report[s] # NoReportYet =>
                               f[s] # NoReportYet /\ KeptAt(d.report[s], f[s], s)
  PROVE  Steps(d, Rereport(d, f)) /\ Keeps(d, Rereport(d, f))
<1> DEFINE e == Rereport(d, f)
<1>1. d \in Device /\ d.index \subseteq Store
  BY DEF Good, Device
<1>2. e \in Device
  BY <1>1 DEF Device, Rereport
<1>3. /\ e.account = d.account /\ e.index = d.index
      /\ e.alarms = d.alarms /\ e.report = f
  BY <1>1 DEF Device, Rereport
<1> HIDE DEF e
<1>4. \A s \in d.index : e.report[s] # NoReportYet
  BY <1>1, <1>3 DEF Good
<1>5. Follows(d, e)
  BY <1>3 DEF Follows, FollowsAt
<1> QED BY <1>2, <1>3, <1>4, <1>5 DEF Good, Steps, Keeps, e

LEMMA Reworked ==
  ASSUME NEW d, Good(d), NEW f, f \in [Key -> Work \cup {NoWork}]
  PROVE  Steps(d, Rework(d, f)) /\ Keeps(d, Rework(d, f))
<1> DEFINE e == Rework(d, f)
<1>1. d \in Device
  BY DEF Good
<1>2. e \in Device
  BY <1>1 DEF Device, Rework
<1>3. /\ e.account = d.account /\ e.index = d.index
      /\ e.report = d.report /\ e.alarms = d.alarms
  BY <1>1 DEF Device, Rework
<1> HIDE DEF e
<1> QED BY <1>2, <1>3, Unchanged DEF Good, Follows, FollowsAt, Steps, Keeps, e
-----------------------------------------------------------------------------
(* What happens to one report. *)
LEMMA FailedReport ==
  ASSUME NEW r \in Checkpoint, ~Settled(r), NEW s
  PROVE  Fail(r) \in Checkpoint /\ KeptAt(r, Fail(r), s) /\ Fail(r) # NoReportYet
<1>1. Fail(r) \in Checkpoint
  BY DEF Fail, Checkpoint, Status, Ping
<1>2. KeptAt(r, Fail(r), s)
  BY DEF Fail, Checkpoint, SameReport, KeptAt, Acknowledged
<1> QED BY <1>1, <1>2, NoReportAssumption

LEMMA DeliveredReport ==
  ASSUME NEW r \in Checkpoint, NEW x \in {"pending", "sending", "retry"} \cup Terminal,
         NEW q, q = [r EXCEPT !.delivery = x], NEW s,
         x \in Terminal => s \in answered,
         x \in {"applied", "already_applied"} /\ r.status = "succeeded" => AgreedOn(r)
  PROVE  q \in Checkpoint /\ KeptAt(r, q, s) /\ q # NoReportYet
<1>1. q \in Checkpoint
  BY DEF Checkpoint
<1>2. SameReport(r, q) /\ AgreedOn(q) = AgreedOn(r)
  BY DEF Checkpoint, SameReport, Settled, AgreedOn
<1>3. q.delivery = x /\ Still(r, q) = (r.status = "succeeded") /\ q.status = r.status
  BY DEF Checkpoint, Still
<1>4. KeptAt(r, q, s)
  BY <1>2, <1>3 DEF KeptAt, Acknowledged, Applied
<1> QED BY <1>1, <1>4, NoReportAssumption

Ended(r, x) == [r EXCEPT !.status = x, !.ping = "indisponivel"]

LEMMA EndedReport ==
  ASSUME NEW r \in Checkpoint, NEW x \in {"cancelled", "superseded"},
         x = "superseded" => ~Settled(r), NEW s
  PROVE  /\ Ended(r, x) \in Checkpoint /\ KeptAt(r, Ended(r, x), s)
         /\ Ended(r, x) # NoReportYet /\ Ended(r, x).status = x
<1> DEFINE q == Ended(r, x)
<1> USE DEF Ended
<1>1. q \in Checkpoint
  BY DEF Checkpoint, Status, Ping
<1>2. SameReport(r, q)
  BY DEF Checkpoint, SameReport, Settled, Active
<1>3. q.status = x /\ q.delivery = r.delivery
  BY DEF Checkpoint
<1>4. KeptAt(r, q, s)
  BY <1>2, <1>3 DEF KeptAt, Acknowledged
<1> QED BY <1>1, <1>3, <1>4, NoReportAssumption

LEMMA StoredReport ==
  ASSUME NEW d, Good(d), NEW s \in Store
  PROVE  /\ d.report \in [Store -> Checkpoint \cup {NoReportYet}]
         /\ d.index \subseteq Store /\ d.alarms \subseteq Store
         /\ d.report[s] # NoReportYet => d.report[s] \in Checkpoint
         /\ s \in d.index => d.report[s] # NoReportYet
BY DEF Good, Device
-----------------------------------------------------------------------------
(* What the methods do to a device. *)
LEMMA StepsItself ==
  ASSUME NEW d, Good(d) PROVE Steps(d, d)
BY FollowsItself DEF Steps

LEMMA StepsOn ==
  ASSUME NEW d, NEW e, NEW f, Steps(d, e), Steps(e, f) PROVE Steps(d, f)
BY FollowsOn DEF Steps

LEMMA ReconcileOnlySteps ==
  ASSUME NEW d, Good(d), NEW S, S \subseteq d.index
  PROVE  Steps(d, ReconcileOnly(d, S)) /\ Keeps(d, ReconcileOnly(d, S))
<1> DEFINE gone == {s \in S : Hopeless(d.report[s], now)}
           f == [s \in Store |-> IF s \in gone THEN Fail(d.report[s]) ELSE d.report[s]]
<1>1. ReconcileOnly(d, S) = Rewrite(d, d.alarms \ gone, f)
  BY DEF ReconcileOnly, Rewrite
<1>2. gone \subseteq S /\ \A s \in gone : ~Settled(d.report[s])
  BY DEF Hopeless
<1> HIDE DEF gone
<1>3. ASSUME NEW s \in Store
      PROVE  /\ f[s] \in Checkpoint \cup {NoReportYet}
             /\ d.report[s] = NoReportYet => f[s] = NoReportYet
             /\ d.report[s] # NoReportYet =>
                  f[s] # NoReportYet /\ KeptAt(d.report[s], f[s], s)
  <2>1. CASE s \in gone
    BY <2>1, <1>2, StoredReport, FailedReport
  <2>2. CASE s \notin gone
    BY <2>2, StoredReport, Unchanged
  <2> QED BY <2>1, <2>2
<1>4. f \in [Store -> Checkpoint \cup {NoReportYet}]
  BY <1>3
<1>5. d.alarms \ gone \subseteq Store
  BY DEF Good, Device
<1> HIDE DEF f
<1> QED BY <1>1, <1>3, <1>4, <1>5, Rewritten

LEMMA ReconcileSteps ==
  ASSUME NEW d, Good(d)
  PROVE  Steps(d, Reconcile(d)) /\ Keeps(d, Reconcile(d))
BY ReconcileOnlySteps DEF Reconcile

(* Every report goes. *)
LEMMA ClearFollows ==
  ASSUME NEW d, Good(d)
  PROVE  /\ Good(Clear(d)) /\ Follows(d, Clear(d))
         /\ Clear(d).account = NoAccount /\ Clear(d).index = {}
<1> DEFINE e == Clear(d)
<1>1. d \in Device
  BY DEF Good
<1>2. /\ e.account = NoAccount /\ e.index = {} /\ e.alarms = {}
      /\ e.report = [s \in Store |-> NoReportYet]
  BY <1>1 DEF Device, Clear
<1>3. e \in Device
  BY <1>1 DEF Device, Clear
<1> HIDE DEF e
<1>4. Good(e) /\ Follows(d, e) /\ e.account = NoAccount /\ e.index = {}
  BY <1>2, <1>3 DEF Good, Follows, FollowsAt
<1> QED BY <1>4 DEF e

Own(d, a) == [d EXCEPT !.account = a]

LEMMA OwnFollows ==
  ASSUME NEW d, Good(d), NEW a \in Account \cup {NoAccount}
  PROVE  /\ Good(Own(d, a)) /\ Follows(d, Own(d, a))
         /\ Own(d, a).account = a /\ Own(d, a).index = d.index
<1> DEFINE e == Own(d, a)
<1>1. d \in Device
  BY DEF Good
<1>2. e \in Device
  BY <1>1 DEF Device, Own
<1>3. /\ e.account = a /\ e.index = d.index
      /\ e.report = d.report /\ e.alarms = d.alarms
  BY <1>1 DEF Device, Own
<1> HIDE DEF e
<1> QED BY <1>2, <1>3, Unchanged DEF Good, Follows, FollowsAt, e

LEMMA EnterFollows ==
  ASSUME NEW d, Good(d), NEW a \in Account
  PROVE  Good(Enter(d, a)) /\ Follows(d, Enter(d, a)) /\ Enter(d, a).account = a
<1>1. CASE d.account = a
  BY <1>1, FollowsItself DEF Enter
<1>2. CASE d.account # a
  <2>1. Enter(d, a) = Own(Clear(d), a)
    BY <1>2 DEF Enter, Own
  <2> QED BY <2>1, ClearFollows, OwnFollows, FollowsOn
<1> QED BY <1>1, <1>2

LEMMA WorkGiven ==
  ASSUME NEW d, Good(d), NEW k \in Key, NEW x \in Work \cup {NoWork}
  PROVE  Steps(d, [d EXCEPT !.work[k] = x]) /\ Keeps(d, [d EXCEPT !.work[k] = x])
<1> DEFINE f == [d.work EXCEPT ![k] = x]
<1>1. d.work \in [Key -> Work \cup {NoWork}]
  BY DEF Good, Device
<1>2. f \in [Key -> Work \cup {NoWork}]
  BY <1>1
<1>3. [d EXCEPT !.work[k] = x] = Rework(d, f)
  BY DEF Rework
<1> HIDE DEF f
<1> QED BY <1>2, <1>3, Reworked

LEMMA WorkBy ==
  ASSUME NEW d, Good(d), NEW k \in Key, d.work[k] \in Work,
         NEW b \in Worker \cup {"queue"}
  PROVE  Steps(d, [d EXCEPT !.work[k].by = b]) /\ Keeps(d, [d EXCEPT !.work[k].by = b])
<1> DEFINE x == [d.work[k] EXCEPT !.by = b]
<1>2. x \in Work
  BY DEF Work
<1>3. [d EXCEPT !.work[k].by = b] = [d EXCEPT !.work[k] = x]
  OBVIOUS
<1> HIDE DEF x
<1> QED BY <1>2, <1>3, WorkGiven

(* A delivery outcome on some of the reports. *)
Delivered(d, X, o) ==
  Rereport(d, [s \in Store |-> IF s \in X THEN [d.report[s] EXCEPT !.delivery = o]
                                          ELSE d.report[s]])

LEMMA DeliveredSteps ==
  ASSUME NEW d, Good(d), NEW X, \A s \in X : s \in Store /\ d.report[s] # NoReportYet,
         NEW o, o \in {"pending", "sending", "retry"} \cup Terminal,
         o \in Terminal => X \subseteq answered,
         o \in {"applied", "already_applied"} =>
           \A s \in X : d.report[s].status = "succeeded" => AgreedOn(d.report[s])
  PROVE  Steps(d, Delivered(d, X, o)) /\ Keeps(d, Delivered(d, X, o))
<1> DEFINE f == [s \in Store |-> IF s \in X THEN [d.report[s] EXCEPT !.delivery = o]
                                          ELSE d.report[s]]
<1>1. ASSUME NEW s \in Store
      PROVE  /\ f[s] \in Checkpoint \cup {NoReportYet}
             /\ d.report[s] = NoReportYet => f[s] = NoReportYet
             /\ d.report[s] # NoReportYet =>
                  f[s] # NoReportYet /\ KeptAt(d.report[s], f[s], s)
  <2>1. CASE s \in X
    <3>1. d.report[s] \in Checkpoint /\ d.report[s] # NoReportYet
      BY <2>1, StoredReport
    <3>2. f[s] = [d.report[s] EXCEPT !.delivery = o]
      BY <2>1
    <3>3. /\ o \in Terminal => s \in answered
          /\ o \in {"applied", "already_applied"} /\ d.report[s].status = "succeeded"
               => AgreedOn(d.report[s])
      BY <2>1
    <3> HIDE DEF f
    <3> QED BY <3>1, <3>2, <3>3, DeliveredReport
  <2>2. CASE s \notin X
    BY <2>2, StoredReport, Unchanged
  <2> QED BY <2>1, <2>2
<1>2. f \in [Store -> Checkpoint \cup {NoReportYet}]
  BY <1>1
<1>3. Delivered(d, X, o) = Rereport(d, f)
  BY DEF Delivered
<1> HIDE DEF f
<1> QED BY <1>1, <1>2, <1>3, Rereported

(* The reports of a revision among those that a worker knew of. *)
Told(d, a, slot, known) == {s \in d.index \cap known : KeyOf(d.report[s]) = <<a, slot>>}

LEMMA RecordSteps ==
  ASSUME NEW d, Good(d), NEW a, NEW slot, NEW known,
         NEW o, o \in {"pending", "sending", "retry"} \cup Terminal,
         o \in Terminal => Told(d, a, slot, known) \subseteq answered,
         o \in {"applied", "already_applied"} =>
           \A s \in Told(d, a, slot, known) :
             d.report[s].status = "succeeded" => AgreedOn(d.report[s])
  PROVE  Steps(d, Record(d, a, slot, known, o)) /\ Keeps(d, Record(d, a, slot, known, o))
<1> DEFINE X == {s \in d.index \cap known :
                   /\ d.account = a /\ KeyOf(d.report[s]) = <<a, slot>>
                   /\ ~(Acknowledged(d.report[s]) /\ o \in {"sending", "retry"})}
<1>1. Record(d, a, slot, known, o) = Delivered(d, X, o)
  BY DEF Record, Delivered, Rereport
<1>2. \A s \in X : s \in Store /\ d.report[s] # NoReportYet
  BY DEF Good, Device
<1>3. X \subseteq Told(d, a, slot, known)
  BY DEF Told
<1> HIDE DEF X
<1>4. /\ o \in Terminal => X \subseteq answered
      /\ o \in {"applied", "already_applied"} =>
           \A s \in X : d.report[s].status = "succeeded" => AgreedOn(d.report[s])
  BY <1>3
<1> QED BY <1>1, <1>2, <1>4, DeliveredSteps

LEMMA KeyType ==
  ASSUME NEW r \in Checkpoint PROVE KeyOf(r) \in Key
BY DEF KeyOf, Key, Checkpoint

LEMMA EnqueueSteps ==
  ASSUME NEW d, Good(d), NEW s \in Store, d.report[s] # NoReportYet, NEW ok \in BOOLEAN
  PROVE  Steps(d, Enqueue(d, s, ok)) /\ Keeps(d, Enqueue(d, s, ok))
<1> DEFINE e == Reconcile(d)
           k == KeyOf(d.report[s])
           x == [store |-> s, by |-> "queue"]
<1>1. Steps(d, e) /\ Keeps(d, e) /\ Good(e)
  BY ReconcileSteps DEF Steps
<1>2. e.report[s] # NoReportYet
  BY <1>1 DEF Keeps
<1>3. k \in Key /\ x \in Work
  BY StoredReport, KeyType DEF Work
<1>4. Steps(e, [e EXCEPT !.work[k] = x]) /\ Keeps(e, [e EXCEPT !.work[k] = x])
  <2> HIDE DEF e, k, x
  <2> QED BY <1>1, <1>3, WorkGiven
<1>n. "retry" \notin Terminal
  BY DEF Terminal
<1>5. /\ Steps(e, [e EXCEPT !.report[s].delivery = "retry"])
      /\ Keeps(e, [e EXCEPT !.report[s].delivery = "retry"])
  <2>1. e.report \in [Store -> Checkpoint \cup {NoReportYet}]
    BY <1>1, StoredReport
  <2> HIDE DEF e
  <2>2. [e EXCEPT !.report[s].delivery = "retry"] = Delivered(e, {s}, "retry")
    BY <2>1 DEF Delivered, Rereport
  <2> QED BY <1>1, <1>2, <1>n, <2>2, DeliveredSteps DEF Terminal
<1>6. CASE d.report[s].owner # d.account \/ Acknowledged(d.report[s])
  BY <1>6, StepsItself DEF Enqueue, Keeps
<1>7. CASE ~(d.report[s].owner # d.account \/ Acknowledged(d.report[s])) /\ ok
  <2>1. Enqueue(d, s, ok) = [e EXCEPT !.work[k] = x]
    BY <1>7 DEF Enqueue
  <2> HIDE DEF e, k, x
  <2> QED BY <1>1, <1>4, <2>1, StepsOn DEF Keeps
<1>8. CASE ~(d.report[s].owner # d.account \/ Acknowledged(d.report[s])) /\ ~ok
  <2>1. Enqueue(d, s, ok) = [e EXCEPT !.report[s].delivery = "retry"]
    BY <1>8 DEF Enqueue
  <2> HIDE DEF e
  <2> QED BY <1>1, <1>5, <2>1, StepsOn DEF Keeps
<1> QED BY <1>6, <1>7, <1>8

LEMMA EnqueueAllSteps ==
  ASSUME NEW d, Good(d), NEW C \in Chosen(d), NEW replace, NEW ok \in BOOLEAN
  PROVE  Steps(d, EnqueueAll(d, C, replace, ok)) /\ Keeps(d, EnqueueAll(d, C, replace, ok))
<1>1. Owed(d) \subseteq d.index /\ d.index \subseteq Store /\ C \subseteq Owed(d)
  BY DEF Owed, Chosen, Good, Device
<1>2. CASE ~ok
  <2>1. EnqueueAll(d, C, replace, ok) = Delivered(d, Owed(d), "retry")
    BY <1>2 DEF EnqueueAll, Delivered, Rereport
  <2>2. \A s \in Owed(d) : s \in Store /\ d.report[s] # NoReportYet
    BY <1>1 DEF Good
  <2> QED BY <2>1, <2>2, DeliveredSteps DEF Terminal
<1>3. CASE ok
  <2> DEFINE f == [k \in Key |->
                IF (replace \/ d.work[k] = NoWork) /\ \E c \in C : KeyOf(d.report[c]) = k
                THEN [store |-> CHOOSE c \in C : KeyOf(d.report[c]) = k, by |-> "queue"]
                ELSE d.work[k]]
  <2>1. EnqueueAll(d, C, replace, ok) = Rework(d, f)
    BY <1>3 DEF EnqueueAll, Rework
  <2>2. ASSUME NEW k \in Key, \E c \in C : KeyOf(d.report[c]) = k
        PROVE  (CHOOSE c \in C : KeyOf(d.report[c]) = k) \in Store
    BY <1>1, <2>2
  <2>3. d.work \in [Key -> Work \cup {NoWork}]
    BY DEF Good, Device
  <2>4. f \in [Key -> Work \cup {NoWork}]
    BY <2>2, <2>3 DEF Work
  <2> HIDE DEF f
  <2> QED BY <2>1, <2>4, Reworked
<1> QED BY <1>2, <1>3

LEMMA SupersededSteps ==
  ASSUME NEW d, Good(d), NEW new
  PROVE  /\ Steps(d, Superseded(d, new)) /\ Keeps(d, Superseded(d, new))
         /\ \A s \in d.index : Supersedes(new, d.report[s]) =>
              /\ Settled(Superseded(d, new).report[s])
              /\ Superseded(d, new).report[s].status # "succeeded"
<1> DEFINE olds == {s \in d.index : Supersedes(new, d.report[s])}
           f == [s \in Store |-> IF s \in olds THEN Ended(d.report[s], "superseded")
                                             ELSE d.report[s]]
<1>1. Superseded(d, new) = Rewrite(d, d.alarms \ olds, f)
  BY DEF Superseded, Rewrite, Ended
<1>2. olds \subseteq d.index /\ \A s \in olds : ~Settled(d.report[s])
  BY DEF Supersedes, Settled
<1>3. olds = {s \in d.index : Supersedes(new, d.report[s])}
  OBVIOUS
<1> HIDE DEF olds
<1>4. ASSUME NEW s \in Store
      PROVE  /\ f[s] \in Checkpoint \cup {NoReportYet}
             /\ d.report[s] = NoReportYet => f[s] = NoReportYet
             /\ d.report[s] # NoReportYet =>
                  f[s] # NoReportYet /\ KeptAt(d.report[s], f[s], s)
             /\ s \in olds => Settled(f[s]) /\ f[s].status # "succeeded"
  <2>1. CASE s \in olds
    <3>1. d.report[s] \in Checkpoint /\ d.report[s] # NoReportYet /\ ~Settled(d.report[s])
      BY <2>1, <1>2, StoredReport
    <3>2. f[s] = Ended(d.report[s], "superseded")
      BY <2>1
    <3> HIDE DEF f
    <3>3. /\ f[s] \in Checkpoint /\ f[s] # NoReportYet /\ f[s].status = "superseded"
          /\ KeptAt(d.report[s], f[s], s)
      BY <3>1, <3>2, EndedReport
    <3> QED BY <2>1, <3>1, <3>3 DEF Settled, Active
  <2>2. CASE s \notin olds
    BY <2>2, StoredReport, Unchanged
  <2> QED BY <2>1, <2>2
<1>5. f \in [Store -> Checkpoint \cup {NoReportYet}]
  <2>1. \A s \in Store : f[s] \in Checkpoint \cup {NoReportYet}
    BY <1>4
  <2> QED BY <2>1
<1>6. d.alarms \ olds \subseteq Store
  BY DEF Good, Device
<1>7. Superseded(d, new).report = f
  BY <1>1, <1>6 DEF Rewrite, Good, Device
<1> HIDE DEF f
<1>8. d.index \subseteq Store
  BY DEF Good, Device
<1> QED BY <1>1, <1>3, <1>4, <1>5, <1>6, <1>7, <1>8, Rewritten

(* One report rewritten, its alarm among others gone. *)
LEMMA OneRewritten ==
  ASSUME NEW d, Good(d), NEW A, A \subseteq Store, NEW s \in Store,
         d.report[s] # NoReportYet, NEW q, q \in Checkpoint, KeptAt(d.report[s], q, s)
  PROVE  /\ Steps(d, Rewrite(d, A, [d.report EXCEPT ![s] = q]))
         /\ Keeps(d, Rewrite(d, A, [d.report EXCEPT ![s] = q]))
<1> DEFINE f == [d.report EXCEPT ![s] = q]
<1>1. d.report \in [Store -> Checkpoint \cup {NoReportYet}]
  BY StoredReport
<1>2. f \in [Store -> Checkpoint \cup {NoReportYet}]
  BY <1>1
<1>3. ASSUME NEW t \in Store
      PROVE  /\ d.report[t] = NoReportYet => f[t] = NoReportYet
             /\ d.report[t] # NoReportYet =>
                  f[t] # NoReportYet /\ KeptAt(d.report[t], f[t], t)
  <2>1. CASE t = s
    BY <1>1, <2>1, NoReportAssumption
  <2>2. CASE t # s
    BY <1>1, <2>2, Unchanged
  <2> QED BY <2>1, <2>2
<1> HIDE DEF f
<1>4. Steps(d, Rewrite(d, A, f)) /\ Keeps(d, Rewrite(d, A, f))
  BY <1>2, <1>3, Rewritten
<1> QED BY <1>4 DEF f

LEMMA AlarmsGiven ==
  ASSUME NEW d, Good(d), NEW A, A \subseteq Store
  PROVE  /\ Steps(d, [d EXCEPT !.alarms = A]) /\ Keeps(d, [d EXCEPT !.alarms = A])
         /\ [d EXCEPT !.alarms = A].report = d.report
<1> DEFINE e == [d EXCEPT !.alarms = A]
<1>1. d \in Device /\ d.index \subseteq Store
  BY DEF Good, Device
<1>2. e \in Device
  BY <1>1 DEF Device
<1>3. /\ e.account = d.account /\ e.index = d.index
      /\ e.alarms = A /\ e.report = d.report
  BY <1>1 DEF Device
<1> HIDE DEF e
<1>4. Steps(d, e) /\ Keeps(d, e) /\ e.report = d.report
  BY <1>2, <1>3, Unchanged DEF Good, Follows, FollowsAt, Steps, Keeps
<1> QED BY <1>4 DEF e

Cancelled(d, s) == [d EXCEPT !.alarms = @ \ {s}, !.report[s].status = "cancelled",
                             !.report[s].ping = "indisponivel"]

LEMMA CancelSteps ==
  ASSUME NEW d, Good(d), NEW s, s \in d.index
  PROVE  Steps(d, Cancelled(d, s)) /\ Keeps(d, Cancelled(d, s))
<1> DEFINE e == Cancelled(d, s)
           r == d.report[s]
           q == Ended(r, "cancelled")
<1>1. s \in Store /\ r # NoReportYet /\ r \in Checkpoint
  BY DEF Good, Device
<1>2. q \in Checkpoint /\ KeptAt(r, q, s)
  BY <1>1, EndedReport
<1>3. d.report \in [Store -> Checkpoint \cup {NoReportYet}] /\ d \in Device
  BY <1>1, StoredReport DEF Good
<1>4. e = Rewrite(d, d.alarms \ {s}, [d.report EXCEPT ![s] = q])
  BY <1>1, <1>3 DEF Rewrite, Ended, Cancelled
<1>5. d.alarms \ {s} \subseteq Store
  BY DEF Good, Device
<1> HIDE DEF q
<1> QED BY <1>1, <1>2, <1>4, <1>5, OneRewritten

LEMMA ForgetFollows ==
  ASSUME NEW d, Good(d), NEW S
  PROVE  Steps(d, Forget(d, S))
<1> DEFINE e == Forget(d, S)
           f == [s \in Store |-> IF s \in S THEN NoReportYet ELSE d.report[s]]
<1>1. d \in Device /\ d.index \subseteq Store
  BY DEF Good, Device
<1>2. f \in [Store -> Checkpoint \cup {NoReportYet}]
  <2>1. d.report \in [Store -> Checkpoint \cup {NoReportYet}]
    BY <1>1 DEF Device
  <2> QED BY <2>1
<1>3. e = [d EXCEPT !.index = d.index \ S, !.report = f]
  BY DEF Forget
<1>4. \A s \in Store : IF s \in S THEN f[s] = NoReportYet ELSE f[s] = d.report[s]
  OBVIOUS
<1> HIDE DEF e, f
<1>5. /\ e.account = d.account /\ e.index = d.index \ S
      /\ e.alarms = d.alarms /\ e.report = f
  BY <1>1, <1>3 DEF Device
<1>6. e \in Device
  BY <1>1, <1>2, <1>3 DEF Device
<1>7. Good(e)
  BY <1>1, <1>4, <1>5, <1>6 DEF Good
<1>8. Follows(d, e)
  BY <1>4, <1>5, Unchanged DEF Follows, FollowsAt
<1> QED BY <1>5, <1>7, <1>8 DEF Steps, e

LEMMA DeadSteps ==
  ASSUME NEW d, Good(d) PROVE Steps(d, Dead(d)) /\ Keeps(d, Dead(d))
<1> DEFINE f == [k \in Key |-> IF d.work[k] = NoWork THEN NoWork
                              ELSE [d.work[k] EXCEPT !.by = "queue"]]
<1>1. d.work \in [Key -> Work \cup {NoWork}]
  BY DEF Good, Device
<1>2. ASSUME NEW x \in Work PROVE [x EXCEPT !.by = "queue"] \in Work
  BY DEF Work
<1>3. f \in [Key -> Work \cup {NoWork}]
  BY <1>1, <1>2
<1>4. Dead(d) = Rework(d, f)
  BY DEF Dead, Rework
<1> HIDE DEF f
<1> QED BY <1>3, <1>4, Reworked

LEMMA SaveFailureSteps ==
  ASSUME NEW d, Good(d), NEW s \in Store, NEW ok \in BOOLEAN
  PROVE  Steps(d, SaveFailure(d, s, ok)) /\ Keeps(d, SaveFailure(d, s, ok))
<1> DEFINE saves == /\ s \in d.index /\ d.report[s].owner = d.account
                    /\ ~Settled(d.report[s])
           e == Rewrite(d, d.alarms, [d.report EXCEPT ![s] = Fail(d.report[s])])
<1>1. CASE ~saves
  BY <1>1, StepsItself DEF SaveFailure, Keeps
<1>2. CASE saves
  <2>1. d.report[s] # NoReportYet /\ d.report[s] \in Checkpoint /\ d.alarms \subseteq Store
    BY <1>2, StoredReport
  <2>2. Steps(d, e) /\ Keeps(d, e) /\ Good(e)
    <3>1. Fail(d.report[s]) \in Checkpoint /\ KeptAt(d.report[s], Fail(d.report[s]), s)
      BY <1>2, <2>1, FailedReport
    <3> QED BY <2>1, <3>1, OneRewritten DEF Steps
  <2>3. [d EXCEPT !.report[s] = Fail(@)] = e
    BY DEF Rewrite, Good, Device
  <2>4. SaveFailure(d, s, ok) = Enqueue(e, s, ok)
    BY <1>2, <2>3 DEF SaveFailure
  <2>5. e.report[s] # NoReportYet
    BY <2>1, <2>2 DEF Keeps
  <2> HIDE DEF e
  <2>6. Steps(e, Enqueue(e, s, ok)) /\ Keeps(e, Enqueue(e, s, ok))
    BY <2>2, <2>5, EnqueueSteps
  <2> QED BY <2>2, <2>4, <2>6, StepsOn DEF Keeps
<1> QED BY <1>1, <1>2
-----------------------------------------------------------------------------
(* The inductive invariant.  A key is not used again, and what is being    *)
(* captured for a key is the report the key was given to: a save cannot    *)
(* write one report over another.                                          *)
SamePlan(r, q) == q.owner = r.owner /\ q.slot = r.slot /\ q.moment = r.moment
Apart(r, q) == r.slot = q.slot /\ r.moment # q.moment

KeysUsed == \A s \in Store :
  device.report[s] # NoReportYet \/ capture[s] # NoCapture => s <= used
CaptureMatches == \A s \in Store :
  capture[s] # NoCapture /\ device.report[s] # NoReportYet
    => SamePlan(capture[s].snap, device.report[s])

(* What a report says is true of it: the server answered for what counts   *)
(* as acknowledged and agrees with what counts as applied.                 *)
Truthful(r, s) ==
  /\ Acknowledged(r) => s \in answered
  /\ r.status = "succeeded" => InWindow(r)
  /\ r.status = "succeeded" /\ Applied(r) => AgreedOn(r)
ReportsTruthful == \A s \in device.index :
  Truthful(device.report[s], s) /\ (s \in answered => Settled(device.report[s]))

(* A capture under way was not delivered, and succeeds within its window.  *)
Capturable(q) == ~Acknowledged(q) /\ (q.status = "succeeded" => InWindow(q))
CapturesSound == \A s \in Store : capture[s] # NoCapture => Capturable(capture[s].snap)

(* A later report of a moment finds the earlier ones settled, and none of  *)
(* its own revision that succeeded.                                        *)
Superseding(r, q) ==
  r.moment = q.moment =>
    Settled(r) /\ (r.slot = q.slot => r.status # "succeeded")
LaterSupersede == \A s, t \in device.index :
  s < t => Superseding(device.report[s], device.report[t])

(* A job, and what it knew of the reports that are still there.  What it   *)
(* read open can no longer be captured, and stops it before it is sent.    *)
Over(slot, m) == now >= slot.end \/ now > Expected(slot)[m] + WINDOW
OpenIn(j, m) == \E x \in j.body[m] : x.status \in Active
PartSound(x, slot, m) ==
  /\ x.status \in Active => Over(slot, m)
  /\ x.status = "succeeded" =>
       /\ x.captured \in Expected(slot)[m]..(Expected(slot)[m] + WINDOW)
       /\ x.captured < slot.end /\ x.captured <= now
JobSound(j) == \A m \in Moment : \A x \in j.body[m] :
  PartSound(x, j.slot, m) /\ \A y \in j.body[m] : y = x
Sent(r, j) == \E x \in j.body[r.moment] : x.status = "succeeded" /\ x.ping = r.ping
JobKnows(d, j) == \A s \in Told(d, j.owner, j.slot, j.known) :
  \/ OpenIn(j, d.report[s].moment)
  \/ Settled(d.report[s]) /\ (d.report[s].status = "succeeded" => Sent(d.report[s], j))
JobAnswered(j) ==
  /\ j.answer \in Terminal => Told(device, j.owner, j.slot, j.known) \subseteq answered
  /\ j.answer \in {"applied", "already_applied"} =>
       \A m \in Moment : \A x \in j.body[m] :
         x.status = "succeeded" => Agreed(j.owner, j.slot, m, x.ping)
WorkerOK(w) ==
  /\ JobSound(worker[w]) /\ JobKnows(device, worker[w]) /\ JobAnswered(worker[w])
  /\ \A s \in worker[w].known : s <= used
  /\ worker[w].pc # "identified" => ~Unfinished(worker[w])
JobsOK == /\ \A w \in Worker : worker[w] # Idle => WorkerOK(w)
          /\ stray # Idle => JobSound(stray) /\ ~Unfinished(stray)
AnsweredUsed == \A s \in answered : s <= used
Doc == [slot : Slot, calendar : CalendarStatus, first : Ping \cup {None},
        second : Ping \cup {None}, status : Situation \cup {None},
        absences : Int, moved : BOOLEAN]
DocOK == doc \in [Account -> Doc \cup {NoDoc}]

Deliveries == /\ ReportsTruthful /\ CapturesSound /\ LaterSupersede
              /\ JobsOK /\ AnsweredUsed /\ DocOK
IInv == TypeOK /\ KeysUsed /\ CaptureMatches /\ OneActivePlan /\ Deliveries

(* A device with one more report than those of d, which no active report   *)
(* of another revision or of the same moment stands beside.                *)
Adds(d, e, n) ==
  /\ Good(e) /\ e.index \subseteq d.index \cup {n}
  /\ \A s \in Store \ {n} : FollowsAt(d, e, s)
  /\ \A t \in e.index \ {n} :
       n \in e.index /\ ~Settled(e.report[n]) /\ ~Settled(e.report[t])
         => Apart(e.report[n], e.report[t])
  /\ n \in e.index =>
       /\ Truthful(e.report[n], n)
       /\ \A t \in e.index \ {n} : Superseding(e.report[t], e.report[n])

(* What a step does to the device and to the captures. *)
Moves == \/ used' = used /\ Good(device') /\ Follows(device, device')
         \/ used' = used + 1 /\ used' \in Store /\ Adds(device, device', used + 1)
CaptureMoves == \A s \in Store :
  capture'[s] # NoCapture =>
    \/ capture[s] # NoCapture /\ SamePlan(capture[s].snap, capture'[s].snap)
    \/ s <= used /\ device.report[s] # NoReportYet /\ SamePlan(device.report[s], capture'[s].snap)
RestTypeOK ==
  /\ now \in 0..MAXTIME /\ user \in Account \cup {NoAccount} /\ allowed \in BOOLEAN
  /\ capture \in [Store -> {NoCapture} \cup Capture]
  /\ worker \in [Worker -> {Idle} \cup Job] /\ stray \in {Idle} \cup Job
  /\ answered \subseteq Store

LEMMA Known ==
  ASSUME IInv
  PROVE  Good(device) /\ RestTypeOK /\ used \in Nat
<1>1. TypeOK
  BY DEF IInv
<1>2. Good(device) /\ RestTypeOK
  BY <1>1 DEF TypeOK, Good, RestTypeOK
<1>3. used \in {0} \cup Store
  BY <1>1 DEF TypeOK
<1> QED BY <1>2, <1>3, StoreAssumption

LEMMA AddsLater ==
  ASSUME NEW d, NEW e, NEW x, NEW n \in Store, Follows(d, e), Adds(e, x, n)
  PROVE  Adds(d, x, n)
BY FollowsAtOn DEF Adds, Follows

LEMMA TruthfulStays ==
  ASSUME NEW r, NEW q, NEW s, Truthful(r, s), KeptAt(r, q, s)
  PROVE  Truthful(q, s)
<1>1. Still(r, q) /\ InWindow(r) => InWindow(q)
  BY DEF Still, InWindow, KeptAt, SameReport
<1>2. Still(r, q) /\ AgreedOn(r) => AgreedOn(q)
  BY DEF Still, AgreedOn, KeptAt, SameReport
<1>3. Still(r, q) => r.status = "succeeded"
  BY DEF Still
<1> QED BY <1>1, <1>2, <1>3 DEF Truthful, KeptAt

LEMMA SupersedingStays ==
  ASSUME NEW r, NEW q, NEW x, NEW y, NEW s, NEW u, Superseding(r, q),
         KeptAt(r, x, s), KeptAt(q, y, u)
  PROVE  Superseding(x, y)
<1>1. SameReport(r, x) /\ SameReport(q, y)
  BY DEF KeptAt
<1>2. Settled(r) => Settled(x) /\ (x.status = "succeeded" => r.status = "succeeded")
  BY <1>1 DEF SameReport, Settled, Active
<1> QED BY <1>1, <1>2 DEF Superseding, SameReport

LEMMA AddsOn ==
  ASSUME NEW d, NEW x, NEW y, NEW n \in Store, Adds(d, x, n), Good(y), Follows(x, y)
  PROVE  Adds(d, y, n)
<1>1. y.index \subseteq d.index \cup {n}
  BY DEF Adds, Follows
<1>2. \A s \in Store \ {n} : FollowsAt(d, y, s)
  BY FollowsAtOn DEF Adds, Follows
<1>3. ASSUME NEW t \in y.index \ {n}, n \in y.index,
             ~Settled(y.report[n]), ~Settled(y.report[t])
      PROVE  Apart(y.report[n], y.report[t])
  <2>1. t \in Store /\ t \in x.index /\ n \in x.index
    BY <1>3 DEF Follows, Good, Device
  <2>2. y.report[t] # NoReportYet /\ y.report[n] # NoReportYet
    BY <1>3 DEF Good
  <2>3. SameReport(x.report[t], y.report[t]) /\ SameReport(x.report[n], y.report[n])
    BY <2>1, <2>2 DEF Follows, FollowsAt, KeptAt
  <2>4. ~Settled(x.report[t]) /\ ~Settled(x.report[n])
    BY <1>3, <2>3 DEF SameReport
  <2>5. Apart(x.report[n], x.report[t])
    BY <1>3, <2>1, <2>4 DEF Adds
  <2> QED BY <2>3, <2>5 DEF Apart, SameReport
<1>4. ASSUME n \in y.index PROVE Truthful(y.report[n], n)
  <2>1. n \in x.index /\ y.report[n] # NoReportYet
    BY <1>4 DEF Follows, Good
  <2> QED BY <2>1, TruthfulStays DEF Adds, Follows, FollowsAt
<1>5. ASSUME n \in y.index, NEW t \in y.index \ {n}
      PROVE  Superseding(y.report[t], y.report[n])
  <2>1. /\ n \in x.index /\ t \in x.index /\ t \in Store
        /\ y.report[n] # NoReportYet /\ y.report[t] # NoReportYet
    BY <1>5 DEF Follows, Good, Device
  <2>2. KeptAt(x.report[n], y.report[n], n) /\ KeptAt(x.report[t], y.report[t], t)
    BY <2>1 DEF Follows, FollowsAt
  <2>3. Superseding(x.report[t], x.report[n])
    BY <1>5, <2>1 DEF Adds
  <2> QED BY <2>2, <2>3, SupersedingStays
<1> QED BY <1>1, <1>2, <1>3, <1>4, <1>5 DEF Adds

LEMMA OnePlanFollows ==
  ASSUME IInv, Good(device'), NEW n,
         device'.index \subseteq device.index \cup {n},
         \A s \in Store \ {n} : FollowsAt(device, device', s),
         \A t \in device'.index \ {n} :
           n \in device'.index /\ ~Settled(device'.report[n]) /\ ~Settled(device'.report[t])
             => Apart(device'.report[n], device'.report[t])
  PROVE  OneActivePlan'
<1> SUFFICES ASSUME NEW s \in device'.index, NEW t \in device'.index, s # t,
                    ~Settled(device'.report[s]), ~Settled(device'.report[t])
             PROVE  Apart(device'.report[s], device'.report[t])
  BY DEF OneActivePlan, Apart
<1>1. s \in Store /\ t \in Store
  BY DEF Good, Device
<1>2. device'.report[s] # NoReportYet /\ device'.report[t] # NoReportYet
  BY DEF Good
<1>3. CASE n \notin {s, t}
  <2>1. s \in device.index /\ t \in device.index
    BY <1>3
  <2>2. /\ SameReport(device.report[s], device'.report[s])
        /\ SameReport(device.report[t], device'.report[t])
    BY <1>1, <1>2, <1>3 DEF FollowsAt, KeptAt
  <2>3. ~Settled(device.report[s]) /\ ~Settled(device.report[t])
    BY <2>2 DEF SameReport
  <2>4. Apart(device.report[s], device.report[t])
    BY <2>1, <2>3 DEF IInv, OneActivePlan, Apart
  <2> QED BY <2>2, <2>4 DEF Apart, SameReport
<1>4. CASE n \in {s, t}
  BY <1>4 DEF Apart
<1> QED BY <1>3, <1>4

LEMMA InvariantKept ==
  ASSUME IInv, Moves, CaptureMoves, RestTypeOK'
  PROVE  (TypeOK /\ KeysUsed /\ CaptureMatches /\ OneActivePlan)'
<1>1. Good(device') /\ device'.index \subseteq Store
  BY DEF Moves, Adds, Good, Device
<1>2. used \in Nat /\ used' \in {0} \cup Store /\ used <= used' /\ used' \in Nat
  <2>1. used \in Nat /\ used \in {0} \cup Store
    BY Known DEF IInv, TypeOK
  <2>2. used' = used \/ (used' = used + 1 /\ used' \in Store)
    BY DEF Moves
  <2> QED BY <2>1, <2>2
<1>3. ASSUME NEW s \in Store, s # used + 1 \/ used' = used PROVE FollowsAt(device, device', s)
  BY <1>3, <1>2 DEF Moves, Adds, Follows
<1>4. ASSUME NEW s \in Store, device'.report[s] # NoReportYet \/ capture'[s] # NoCapture
      PROVE  s <= used'
  <2>1. CASE s = used + 1 /\ used' # used
    BY <2>1, <1>2 DEF Moves
  <2>2. CASE device'.report[s] # NoReportYet /\ (s # used + 1 \/ used' = used)
    <3>1. s <= used
      BY <2>2, <1>3 DEF FollowsAt, IInv, KeysUsed
    <3> QED BY <3>1, <1>2, StoreAssumption
  <2>3. CASE capture'[s] # NoCapture
    <3>1. s <= used
      BY <2>3 DEF CaptureMoves, IInv, KeysUsed
    <3> QED BY <3>1, <1>2, StoreAssumption
  <2> QED BY <1>4, <2>1, <2>2, <2>3
<1>5. KeysUsed'
  BY <1>4 DEF KeysUsed
<1>6. ASSUME NEW s \in Store, capture'[s] # NoCapture, device'.report[s] # NoReportYet
      PROVE  SamePlan(capture'[s].snap, device'.report[s])
  <2>1. s <= used
    BY <1>6 DEF CaptureMoves, IInv, KeysUsed
  <2>2. s # used + 1
    BY <2>1, <1>2, StoreAssumption
  <2>3. /\ device.report[s] # NoReportYet
        /\ SamePlan(device.report[s], device'.report[s])
    BY <1>3, <1>6, <2>2 DEF FollowsAt, KeptAt, SameReport, SamePlan
  <2>4. SamePlan(device.report[s], capture'[s].snap)
    BY <1>6, <2>3 DEF CaptureMoves, IInv, CaptureMatches, SamePlan
  <2> QED BY <2>3, <2>4 DEF SamePlan
<1>7. CaptureMatches'
  BY <1>6 DEF CaptureMatches
<1>8. OneActivePlan'
  <2>1. CASE used' = used
    <3>1. Follows(device, device')
      BY <1>2, <2>1 DEF Moves
    <3>2. used + 1 \notin device.index
      BY <1>2 DEF IInv, TypeOK
    <3>3. used + 1 \notin device'.index
      BY <3>1, <3>2 DEF Follows
    <3> QED BY <3>1, <3>3, <1>1, OnePlanFollows DEF Follows
  <2>2. CASE used' # used
    <3>1. Adds(device, device', used + 1)
      BY <2>2 DEF Moves
    <3> QED BY <3>1, <1>1, OnePlanFollows DEF Adds
  <2> QED BY <2>1, <2>2
<1>9. TypeOK'
  <2>1. device' \in Device
    BY <1>1 DEF Good
  <2>2. \A s \in device'.index : s <= used' /\ device'.report[s] # NoReportYet
    BY <1>1, <1>4 DEF Good
  <2> QED BY <2>1, <2>2, <1>2 DEF TypeOK, RestTypeOK
<1> QED BY <1>5, <1>7, <1>8, <1>9
-----------------------------------------------------------------------------
(* schedule. *)
LEMMA AddsNew ==
  ASSUME NEW d, NEW u, Steps(d, u), NEW s \in Store, NEW new \in Checkpoint,
         \A t \in u.index \ {s} : ~Settled(u.report[t]) => Apart(new, u.report[t]),
         \A t \in u.index \ {s} : Superseding(u.report[t], new), Truthful(new, s),
         NEW x, x \in Device, x.index \subseteq u.index \cup {s}, x.alarms \subseteq Store,
         x.report = [u.report EXCEPT ![s] = new]
  PROVE  Adds(d, x, s)
<1>1. u.report \in [Store -> Checkpoint \cup {NoReportYet}] /\ u.index \subseteq Store
  BY DEF Steps, Good, Device
<1>2. x.report[s] = new /\ \A t \in Store \ {s} : x.report[t] = u.report[t]
  BY <1>1
<1>3. Good(x)
  <2>1. new # NoReportYet
    BY NoReportAssumption
  <2> QED BY <1>1, <1>2, <2>1 DEF Good, Steps
<1>4. x.index \subseteq d.index \cup {s}
  BY DEF Steps, Follows
<1>5. \A t \in Store \ {s} : FollowsAt(d, x, t)
  BY <1>2 DEF Steps, Follows, FollowsAt
<1>6. \A t \in x.index \ {s} : ~Settled(x.report[t]) => Apart(x.report[s], x.report[t])
  BY <1>1, <1>2
<1>7. Truthful(x.report[s], s)
      /\ \A t \in x.index \ {s} : Superseding(x.report[t], x.report[s])
  BY <1>1, <1>2
<1> QED BY <1>3, <1>4, <1>5, <1>6, <1>7 DEF Adds

LEMMA StoredAdds ==
  ASSUME NEW d, Good(d), NEW s \in Store, NEW new \in Checkpoint,
         new.status = "scheduled", new.delivery = "pending", ~AlreadyScheduled(d, new)
  PROVE  /\ Adds(d, Stored(d, s, new), s)
         /\ Adds(d, Indexed(Stored(d, s, new), s), s)
         /\ Adds(d, Armed(Indexed(Stored(d, s, new), s), s), s)
         /\ Armed(Indexed(Stored(d, s, new), s), s).report[s] # NoReportYet
<1> DEFINE u == Superseded(d, new)
           f == [u.report EXCEPT ![s] = new]
           x == Stored(d, s, new)
           y == Indexed(x, s)
           z == Armed(y, s)
<1>1. Steps(d, u) /\ \A t \in d.index : Supersedes(new, d.report[t]) =>
                       Settled(u.report[t]) /\ u.report[t].status # "succeeded"
  BY SupersededSteps
<1>2. /\ u \in Device /\ u.report \in [Store -> Checkpoint \cup {NoReportYet}]
      /\ u.index \subseteq Store /\ u.alarms \subseteq Store
  BY <1>1 DEF Steps, Good, Device
<1>3. f \in [Store -> Checkpoint \cup {NoReportYet}] /\ f[s] = new
  BY <1>2
<1>4. x = Rereport(u, f)
  BY DEF Stored, Rereport
<1> HIDE DEF u, f
<1>5. x \in Device
  BY <1>2, <1>3, <1>4 DEF Device, Rereport
<1>6. x.index = u.index /\ x.alarms = u.alarms /\ x.report = f
  BY <1>2, <1>4 DEF Device, Rereport
<1> HIDE DEF x
<1>7. y \in Device
  BY <1>5 DEF Indexed, Device
<1>8. y.index = x.index \cup {s} /\ y.alarms = x.alarms /\ y.report = x.report
  BY <1>5 DEF Indexed, Device
<1> HIDE DEF y
<1>9. z \in Device
  BY <1>7 DEF Armed, Device
<1>10. z.index = y.index /\ z.alarms = y.alarms \cup {s} /\ z.report = y.report
  BY <1>7 DEF Armed, Device
<1> HIDE DEF z
<1>11. ASSUME NEW t \in u.index \ {s}, ~Settled(u.report[t])
       PROVE  Apart(new, u.report[t])
  <2>1. t \in d.index /\ t \in Store /\ u.report[t] # NoReportYet
    BY <1>1, <1>2 DEF Steps, Follows, Good
  <2>2. SameReport(d.report[t], u.report[t])
    BY <1>1, <2>1 DEF Steps, Follows, FollowsAt, KeptAt
  <2>3. ~Supersedes(new, d.report[t]) /\ ~Settled(d.report[t])
    BY <1>1, <1>11, <2>1, <2>2 DEF SameReport
  <2> QED BY <2>2, <2>3 DEF SameReport, Supersedes, Settled, Apart
<1>17. ASSUME NEW t \in u.index \ {s}
       PROVE  Superseding(u.report[t], new)
  <2>1. t \in d.index /\ t \in Store /\ u.report[t] # NoReportYet
    BY <1>1, <1>2 DEF Steps, Follows, Good
  <2>2. SameReport(d.report[t], u.report[t])
    BY <1>1, <2>1 DEF Steps, Follows, FollowsAt, KeptAt
  <2>3. CASE Supersedes(new, d.report[t])
    BY <1>1, <2>1, <2>3 DEF Superseding
  <2>4. CASE ~Supersedes(new, d.report[t]) /\ d.report[t].moment = new.moment
    <3>1. d.report[t].status \notin Active
      BY <2>4 DEF Supersedes
    <3>2. d.report[t].slot = new.slot => d.report[t].status # "succeeded"
      BY <2>1, <2>4 DEF AlreadyScheduled
    <3>3. u.report[t].status \in {d.report[t].status, "cancelled"}
          /\ u.report[t].slot = d.report[t].slot
      BY <2>2, <3>1 DEF SameReport, Settled
    <3> QED BY <3>1, <3>2, <3>3 DEF Superseding, Settled, Active
  <2>5. CASE d.report[t].moment # new.moment
    BY <2>2, <2>5 DEF Superseding, SameReport
  <2> QED BY <2>3, <2>4, <2>5
<1>18. Truthful(new, s)
  BY DEF Truthful, Acknowledged, Terminal, Applied
<1>12. f = [u.report EXCEPT ![s] = new]
  BY DEF f
<1>13. Adds(d, x, s)
  BY <1>1, <1>2, <1>5, <1>6, <1>11, <1>12, <1>17, <1>18, AddsNew
<1>14. Adds(d, y, s)
  <2>1. y.index \subseteq u.index \cup {s} /\ y.alarms \subseteq Store /\ y.report = f
    BY <1>2, <1>6, <1>8
  <2> QED BY <1>1, <1>7, <1>11, <1>12, <1>17, <1>18, <2>1, AddsNew
<1>15. Adds(d, z, s)
  <2>1. z.index \subseteq u.index \cup {s} /\ z.alarms \subseteq Store /\ z.report = f
    BY <1>2, <1>6, <1>8, <1>10
  <2> QED BY <1>1, <1>9, <1>11, <1>12, <1>17, <1>18, <2>1, AddsNew
<1>16. z.report[s] # NoReportYet
  BY <1>3, <1>6, <1>8, <1>10, NoReportAssumption
<1> QED BY <1>13, <1>14, <1>15, <1>16 DEF x, y, z

LEMMA NewReportType ==
  ASSUME NEW a \in Account, NEW slot \in Slot, NEW m \in Moment
  PROVE  /\ NewReport(a, slot, m) \in Checkpoint
         /\ NewReport(a, slot, m).status = "scheduled"
         /\ NewReport(a, slot, m).delivery = "pending"
BY DEF NewReport, Checkpoint, Status, Active, Ping
-----------------------------------------------------------------------------
(* Every action keeps the invariant. *)
Kept == Moves /\ CaptureMoves /\ RestTypeOK'

LEMMA DeviceKept ==
  ASSUME IInv, used' = used, Good(device'), Follows(device, device'),
         capture' = capture \/ capture' = [s \in Store |-> NoCapture],
         worker' \in [Worker -> {Idle} \cup Job], stray' \in {Idle} \cup Job,
         answered' = answered, now' = now, user' = user, allowed' \in BOOLEAN
  PROVE  Kept
<1>1. Moves
  BY DEF Moves, Steps
<1>2. RestTypeOK'
  BY DEF RestTypeOK, IInv, TypeOK
<1>3. CaptureMoves
  BY DEF CaptureMoves, SamePlan
<1> QED BY <1>1, <1>2, <1>3 DEF Kept

LEMMA DeviceUntouched ==
  ASSUME IInv, UNCHANGED <<device, used, capture>>,
         worker' \in [Worker -> {Idle} \cup Job], stray' \in {Idle} \cup Job,
         answered' \subseteq Store, now' \in 0..MAXTIME,
         user' \in Account \cup {NoAccount}, allowed' \in BOOLEAN
  PROVE  Kept
<1>1. Good(device') /\ Follows(device, device')
  BY Known, FollowsItself
<1>2. RestTypeOK'
  BY DEF RestTypeOK, IInv, TypeOK
<1> QED BY <1>1, <1>2 DEF Kept, Moves, CaptureMoves, SamePlan

LEMMA ScheduleKept ==
  ASSUME IInv, NEW a \in Account, NEW slot \in Slot, NEW m \in Moment, NEW ok \in BOOLEAN,
         Schedule(a, slot, m, ok)
  PROVE  Kept
<1> DEFINE d == Enter(device, a)
           new == NewReport(a, slot, m)
           s == used + 1
           x == Armed(Indexed(Stored(d, s, new), s), s)
           y == Enqueue(x, s, ok)
<1>1. Good(d) /\ Follows(device, d)
  BY Known, EnterFollows
<1>2. /\ \/ device' = d /\ used' = used
         \/ device' = Reconcile(d) /\ used' = used
         \/ /\ s \in Store /\ device' = Reconcile(y) /\ used' = s
            /\ ~AlreadyScheduled(d, new)
      /\ UNCHANGED <<now, user, allowed, capture, worker, stray, answered>>
  BY DEF Schedule
<1> HIDE DEF d
<1>3. CASE used' = used /\ (device' = d \/ device' = Reconcile(d))
  <2>1. Good(device') /\ Follows(device, device')
    BY <1>1, <1>3, ReconcileSteps, FollowsOn DEF Steps
  <2> QED BY <1>2, <1>3, <2>1, DeviceKept, Known DEF RestTypeOK
<1>4. CASE /\ s \in Store /\ device' = Reconcile(y) /\ used' = s
           /\ ~AlreadyScheduled(d, new)
  <2>1. new \in Checkpoint /\ new.status = "scheduled" /\ new.delivery = "pending"
    BY NewReportType
  <2> HIDE DEF new, s
  <2>2. Adds(d, x, s) /\ x.report[s] # NoReportYet
    BY <1>1, <1>4, <2>1, StoredAdds
  <2>3. Good(x)
    BY <2>2 DEF Adds
  <2> HIDE DEF x
  <2>4. Good(y) /\ Follows(x, y)
    BY <1>4, <2>2, <2>3, EnqueueSteps DEF Steps
  <2> HIDE DEF y
  <2>5. Good(Reconcile(y)) /\ Follows(y, Reconcile(y))
    BY <2>4, ReconcileSteps DEF Steps
  <2>6. Adds(device, device', s)
    BY <1>1, <1>4, <2>2, <2>4, <2>5, FollowsOn, AddsOn, AddsLater
  <2>7. Moves
    BY <1>4, <2>6 DEF Moves, s
  <2> QED BY <1>2, <2>7, Known DEF Kept, CaptureMoves, SamePlan, RestTypeOK
<1> QED BY <1>2, <1>3, <1>4

LEMMA ReadKept ==
  ASSUME IInv, NEW a \in Account, NEW replace \in BOOLEAN, NEW ok \in BOOLEAN,
         Read(a, replace, ok)
  PROVE  Kept
<1> DEFINE d == Enter(device, a)
           e == Reconcile(d)
<1>1. Good(d) /\ Follows(device, d)
  BY Known, EnterFollows
<1>2. /\ used' = used /\ UNCHANGED <<now, user, allowed, capture, worker, stray, answered>>
      /\ \E C \in Chosen(e) : device' = EnqueueAll(e, C, replace, ok)
  BY DEF Read
<1> HIDE DEF d
<1>3. Good(e) /\ Follows(d, e)
  BY <1>1, ReconcileSteps DEF Steps
<1> HIDE DEF e
<1>4. Good(device') /\ Follows(e, device')
  BY <1>2, <1>3, EnqueueAllSteps DEF Steps
<1>5. Follows(device, device')
  BY <1>1, <1>3, <1>4, FollowsOn
<1> QED BY <1>2, <1>4, <1>5, DeviceKept, Known DEF RestTypeOK

LEMMA CancelKept ==
  ASSUME IInv, NEW a \in Account, NEW s \in Store, Cancel(a, s)
  PROVE  Kept
<1> DEFINE d == Enter(device, a)
           e == Cancelled(d, s)
<1>1. Good(d) /\ Follows(device, d)
  BY Known, EnterFollows
<1>2. /\ used' = used /\ UNCHANGED <<now, user, allowed, capture, worker, stray, answered>>
      /\ s \in d.index /\ device' = Reconcile(e)
  BY DEF Cancel, Cancelled
<1> HIDE DEF d
<1>3. Good(e) /\ Follows(d, e)
  <2>1. Steps(d, e)
    BY <1>1, <1>2, CancelSteps
  <2> QED BY <2>1 DEF Steps
<1> HIDE DEF e
<1>4. Good(device') /\ Follows(e, device')
  BY <1>2, <1>3, ReconcileSteps DEF Steps
<1>5. Follows(device, device')
  BY <1>1, <1>3, <1>4, FollowsOn
<1> QED BY <1>2, <1>4, <1>5, DeviceKept, Known DEF RestTypeOK

LEMMA UnscheduleKept ==
  ASSUME IInv, NEW a \in Account, NEW s \in Store, UnscheduleAutomatic(a, s)
  PROVE  Kept
<1> DEFINE d == Enter(device, a)
           c == [d EXCEPT !.alarms = d.alarms \ {s}]
           e == Forget(c, {s})
<1>1. Good(d) /\ Follows(device, d)
  BY Known, EnterFollows
<1>2. /\ used' = used /\ UNCHANGED <<now, user, allowed, capture, worker, stray, answered>>
      /\ device' = Reconcile(e)
  BY DEF UnscheduleAutomatic
<1> HIDE DEF d
<1>3. Good(e) /\ Follows(d, e)
  <2>1. d.alarms \ {s} \subseteq Store
    BY <1>1 DEF Good, Device
  <2>2. Steps(d, c)
    BY <1>1, <2>1, AlarmsGiven
  <2> HIDE DEF c
  <2> QED BY <2>2, ForgetFollows, FollowsOn DEF Steps
<1> HIDE DEF e
<1>4. Good(device') /\ Follows(e, device')
  BY <1>2, <1>3, ReconcileSteps DEF Steps
<1>5. Follows(device, device')
  BY <1>1, <1>3, <1>4, FollowsOn
<1> QED BY <1>2, <1>4, <1>5, DeviceKept, Known DEF RestTypeOK

LEMMA ClearCompletedKept ==
  ASSUME IInv, NEW a \in Account, NEW reviewed, ClearCompleted(a, reviewed)
  PROVE  Kept
<1> DEFINE d == Enter(device, a)
           e == Reconcile(d)
           ended == {s \in e.index : MayClear(e, s) /\ (s \in reviewed \/ Quiet(e.report[s]))}
<1>1. Good(d) /\ Follows(device, d)
  BY Known, EnterFollows
<1>2. /\ used' = used /\ UNCHANGED <<now, user, allowed, capture, worker, stray, answered>>
      /\ device' = Forget(e, ended)
  BY DEF ClearCompleted
<1> HIDE DEF d, ended
<1>3. Good(e) /\ Follows(d, e)
  BY <1>1, ReconcileSteps DEF Steps
<1> HIDE DEF e
<1>4. Good(device') /\ Follows(e, device')
  BY <1>2, <1>3, ForgetFollows DEF Steps
<1>5. Follows(device, device')
  BY <1>1, <1>3, <1>4, FollowsOn
<1> QED BY <1>2, <1>4, <1>5, DeviceKept, Known DEF RestTypeOK

LEMMA DeactivateKept == ASSUME IInv, Deactivate PROVE Kept
<1>1. Good(device') /\ Follows(device, device')
  BY Known, ClearFollows DEF Deactivate
<1> QED BY <1>1, DeviceKept, Known DEF Deactivate, RestTypeOK

LEMMA RestoreKept == ASSUME IInv, NEW ok \in BOOLEAN, Restore(ok) PROVE Kept
<1> DEFINE d == Reconcile(device)
           due == {s \in d.index : d.report[s].owner = d.account /\ d.report[s].status = "scheduled"}
<1>1. PICK C \in Chosen(d) :
        device' = [EnqueueAll(d, C, TRUE, ok) EXCEPT !.alarms = @ \cup due]
  BY DEF Restore
<1> DEFINE e == EnqueueAll(d, C, TRUE, ok)
<1>2. Steps(device, d) /\ Good(d)
  BY Known, ReconcileSteps DEF Steps
<1>3. due \subseteq d.index
  OBVIOUS
<1> HIDE DEF d, due
<1>4. Steps(d, e) /\ Good(e) /\ e.index = d.index
  BY <1>2, EnqueueAllSteps DEF Steps, Keeps
<1>5. device' = [e EXCEPT !.alarms = e.alarms \cup due]
  BY <1>1
<1> HIDE DEF e
<1>6. e.alarms \cup due \subseteq Store
  BY <1>3, <1>4 DEF Good, Device
<1>7. Steps(e, device')
  BY <1>4, <1>5, <1>6, AlarmsGiven
<1>8. Steps(device, device')
  BY <1>2, <1>4, <1>7, StepsOn
<1>9. UNCHANGED <<used, now, user, allowed, capture, worker, stray, answered>>
  BY DEF Restore
<1> QED BY <1>8, <1>9, DeviceKept, Known DEF RestTypeOK, Steps
-----------------------------------------------------------------------------
(* The capture service. *)
LEMMA AlarmFailsKept ==
  ASSUME IInv, NEW s \in Store, NEW ok \in BOOLEAN, AlarmFails(s, ok)
  PROVE  Kept
<1> DEFINE d == [device EXCEPT !.alarms = device.alarms \ {s}]
<1>1. Steps(device, d) /\ Good(d)
  <2>1. device.alarms \ {s} \subseteq Store
    BY Known DEF Good, Device
  <2> QED BY <2>1, Known, AlarmsGiven DEF Steps
<1>2. /\ UNCHANGED <<used, now, user, allowed, capture, worker, stray, answered>>
      /\ device' = SaveFailure(d, s, ok)
  BY DEF AlarmFails
<1> HIDE DEF d
<1>3. Steps(device, device')
  BY <1>1, <1>2, SaveFailureSteps, StepsOn
<1> QED BY <1>2, <1>3, DeviceKept, Known DEF RestTypeOK, Steps

LEMMA RungReport ==
  ASSUME NEW r \in Checkpoint, NEW q, q = [r EXCEPT !.rung = TRUE],
         NEW status \in {"running", "failed"}, NEW s
  PROVE  /\ q \in Checkpoint /\ KeptAt(r, q, s) /\ q # NoReportYet
         /\ [q EXCEPT !.status = status] \in Checkpoint
         /\ SamePlan(r, [q EXCEPT !.status = status])
<1>1. q \in Checkpoint /\ [q EXCEPT !.status = status] \in Checkpoint
  BY DEF Checkpoint, Status, Active
<1>2. /\ SameReport(r, q) /\ q.delivery = r.delivery
      /\ q.status = r.status /\ q.ping = r.ping /\ q.captured = r.captured
  BY DEF Checkpoint, SameReport, Settled
<1>3. SamePlan(r, [q EXCEPT !.status = status])
  BY DEF Checkpoint, SamePlan
<1>4. KeptAt(r, q, s)
  BY <1>2 DEF KeptAt, Still, Acknowledged, Applied
<1> QED BY <1>1, <1>3, <1>4, NoReportAssumption

LEMMA AlarmRingsKept ==
  ASSUME IInv, NEW s \in Store, NEW status \in {"running", "failed"}, AlarmRings(s, status)
  PROVE  Kept
<1> DEFINE c == [device EXCEPT !.alarms = device.alarms \ {s}]
           d == ReconcileOnly(c, {s} \cap device.index)
           r == d.report[s]
           rung == [r EXCEPT !.rung = TRUE]
           starts == s \in d.index /\ r.owner = d.account /\ r.status = "scheduled"
           snap == [rung EXCEPT !.status = status]
<1>1. Steps(device, c) /\ Good(c) /\ c.index = device.index /\ c.report = device.report
  <2>1. device.alarms \ {s} \subseteq Store
    BY Known DEF Good, Device
  <2> QED BY <2>1, Known, AlarmsGiven DEF Steps, Keeps
<1>2. /\ UNCHANGED <<used, now, user, allowed, worker, stray, answered>>
      /\ IF starts
         THEN /\ device' = [d EXCEPT !.report[s] = rung]
              /\ capture' = IF capture[s] # NoCapture THEN capture ELSE
                   [capture EXCEPT ![s] = [pc |-> "save", snap |-> snap]]
         ELSE device' = d /\ capture' = capture
  BY DEF AlarmRings
<1> HIDE DEF c
<1>3. Steps(device, d) /\ Good(d) /\ d.index = device.index
  <2>1. {s} \cap device.index \subseteq c.index
    BY <1>1
  <2>2. Steps(c, d) /\ Keeps(c, d)
    BY <1>1, <2>1, ReconcileOnlySteps
  <2> HIDE DEF d
  <2> QED BY <1>1, <2>2, StepsOn DEF Steps, Keeps
<1> HIDE DEF d
<1>4. CASE ~starts
  BY <1>2, <1>3, <1>4, DeviceKept, Known DEF RestTypeOK, Steps
<1>5. CASE starts
  <2>1. r \in Checkpoint /\ r # NoReportYet
    BY <1>3, <1>5, StoredReport
  <2> HIDE DEF r
  <2>2. /\ rung \in Checkpoint /\ KeptAt(r, rung, s) /\ snap \in Checkpoint
        /\ SamePlan(r, snap)
    BY <2>1, RungReport
  <2> HIDE DEF rung, snap
  <2>3. device' = Rewrite(d, d.alarms, [d.report EXCEPT ![s] = rung])
    <3>1. device' = [d EXCEPT !.report[s] = rung]
      BY <1>2, <1>5
    <3> QED BY <3>1, <1>3 DEF Rewrite, Good, Device
  <2>4. Steps(d, device')
    <3>1. d.alarms \subseteq Store
      BY <1>3 DEF Good, Device
    <3> QED BY <1>3, <2>1, <2>2, <2>3, <3>1, OneRewritten DEF r
  <2>5. Steps(device, device')
    BY <1>3, <2>4, StepsOn
  <2>6. s <= used /\ device.report[s] # NoReportYet /\ SamePlan(device.report[s], snap)
    <3>1. s \in device.index
      BY <1>3, <1>5
    <3>2. device.report[s] # NoReportYet /\ s <= used
      BY <3>1 DEF IInv, TypeOK
    <3>3. SamePlan(device.report[s], r)
      BY <1>3, <2>1 DEF Steps, Follows, FollowsAt, KeptAt, SameReport, SamePlan, r
    <3> QED BY <2>2, <3>2, <3>3 DEF SamePlan
  <2>7. capture \in [Store -> {NoCapture} \cup Capture]
    BY Known DEF RestTypeOK
  <2>8. /\ capture' \in [Store -> {NoCapture} \cup Capture]
        /\ \A t \in Store : t # s => capture'[t] = capture[t]
        /\ capture'[s] = capture[s] \/ capture'[s].snap = snap
    <3> DEFINE new == [pc |-> "save", snap |-> snap]
    <3>1. new \in Capture /\ new.snap = snap
      BY <2>2 DEF Capture
    <3>2. capture' = capture \/ capture' = [capture EXCEPT ![s] = new]
      BY <1>2, <1>5
    <3> HIDE DEF new
    <3> QED BY <2>7, <3>1, <3>2
  <2>9. CaptureMoves
    BY <2>6, <2>8 DEF CaptureMoves, SamePlan
  <2>10. RestTypeOK'
    BY <1>2, <2>8, Known DEF RestTypeOK
  <2>11. Moves
    BY <1>2, <2>5 DEF Moves, Steps
  <2> QED BY <2>9, <2>10, <2>11 DEF Kept
<1> QED BY <1>4, <1>5

LEMMA CaptureSavesKept ==
  ASSUME IInv, NEW s \in Store, NEW ok \in BOOLEAN, CaptureSaves(s, ok)
  PROVE  Kept
<1> DEFINE snap == capture[s].snap
           put == [device EXCEPT !.report[s] = snap]
           next == IF snap.status = "running"
                   THEN [pc |-> "locating", snap |-> snap] ELSE NoCapture
<1>1. /\ UNCHANGED <<used, now, user, allowed, worker, stray, answered>>
      /\ capture[s].pc = "save"
      /\ device' = IF ~MaySave(s) THEN device
                   ELSE IF snap.status = "running" THEN put ELSE Enqueue(put, s, ok)
      /\ capture' = [capture EXCEPT ![s] = next]
  BY DEF CaptureSaves
<1>2. capture \in [Store -> {NoCapture} \cup Capture]
  BY Known DEF RestTypeOK
<1>3. capture[s] # NoCapture /\ snap \in Checkpoint
  BY <1>1, <1>2 DEF NoCapture, Capture
<1>4. Steps(device, device')
  <2>1. CASE ~MaySave(s)
    BY <1>1, <2>1, Known, StepsItself
  <2>2. CASE MaySave(s)
    <3> DEFINE f == [device.report EXCEPT ![s] = snap]
               e == Rewrite(device, device.alarms, f)
    <3>1. device.report[s] # NoReportYet /\ ~Settled(device.report[s])
      BY <2>2 DEF MaySave
    <3>2. KeptAt(device.report[s], snap, s)
      <4>1. SamePlan(snap, device.report[s])
        BY <1>3, <3>1 DEF IInv, CaptureMatches
      <4>2. ~Acknowledged(snap) /\ (snap.status = "succeeded" => InWindow(snap))
        BY <1>3 DEF IInv, Deliveries, CapturesSound, Capturable
      <4>3. ~Applied(snap)
        BY <4>2 DEF Applied, Acknowledged, Terminal
      <4> HIDE DEF snap
      <4> QED BY <3>1, <4>1, <4>2, <4>3 DEF KeptAt, SamePlan, SameReport
    <3>3. put = e
      BY Known DEF Rewrite, Good, Device
    <3>4. Steps(device, e) /\ Keeps(device, e) /\ Good(e)
      <4>1. device.alarms \subseteq Store
        BY Known DEF Good, Device
      <4> HIDE DEF snap
      <4> QED BY <1>3, <3>1, <3>2, <4>1, Known, OneRewritten DEF Steps
    <3>5. e.report[s] # NoReportYet
      BY <3>1, <3>4 DEF Keeps
    <3>6. device' = e \/ device' = Enqueue(e, s, ok)
      BY <1>1, <2>2, <3>3
    <3> HIDE DEF e
    <3> QED BY <3>4, <3>5, <3>6, EnqueueSteps, StepsOn
  <2> QED BY <2>1, <2>2
<1>5. next \in {NoCapture} \cup Capture /\ (next # NoCapture => next.snap = snap)
  BY <1>3 DEF Capture
<1> HIDE DEF next, snap
<1>6. /\ capture' \in [Store -> {NoCapture} \cup Capture]
      /\ \A t \in Store : t # s => capture'[t] = capture[t]
      /\ capture'[s] = next
  BY <1>1, <1>2, <1>5
<1>7. CaptureMoves
  BY <1>3, <1>5, <1>6 DEF CaptureMoves, SamePlan, snap
<1>8. RestTypeOK'
  BY <1>1, <1>6, Known DEF RestTypeOK
<1> QED BY <1>1, <1>4, <1>7, <1>8 DEF Kept, Moves, Steps

LEMMA CaptureEndsKept ==
  ASSUME IInv, NEW s \in Store, NEW status \in {"succeeded", "failed"},
         NEW ping \in Fixes \cup {"indisponivel"}, CaptureEnds(s, status, ping)
  PROVE  Kept
<1> DEFINE snap == capture[s].snap
           fix == [snap EXCEPT !.captured = now]
<1>1. /\ UNCHANGED <<used, now, user, allowed, device, worker, stray, answered>>
      /\ capture[s].pc = "locating"
  BY DEF CaptureEnds
<1>2. PICK q \in {[fix EXCEPT !.status = status, !.ping = ping],
                  [fix EXCEPT !.status = status], [snap EXCEPT !.status = status]} :
        capture' = [capture EXCEPT ![s] = [pc |-> "save", snap |-> q]]
  BY DEF CaptureEnds
<1>3. capture \in [Store -> {NoCapture} \cup Capture]
  BY Known DEF RestTypeOK
<1>4. capture[s] # NoCapture /\ snap \in Checkpoint
  BY <1>1, <1>3 DEF NoCapture, Capture
<1>5. now \in 0..MAXTIME
  BY Known DEF RestTypeOK
<1> HIDE DEF snap
<1>6. fix \in Checkpoint /\ SamePlan(snap, fix)
  BY <1>4, <1>5 DEF Checkpoint, SamePlan
<1>7. q \in Checkpoint /\ SamePlan(snap, q)
  <2>1. status \in Status /\ ping \in Ping
    BY FixesAssumption DEF Status, Ping
  <2> HIDE DEF fix
  <2> QED BY <1>2, <1>4, <1>6, <2>1 DEF Checkpoint, SamePlan
<1> DEFINE new == [pc |-> "save", snap |-> q]
<1>8. new \in Capture /\ new.snap = q
  BY <1>7 DEF Capture
<1>9. capture' = [capture EXCEPT ![s] = new]
  BY <1>2
<1> HIDE DEF new
<1>10. /\ capture' \in [Store -> {NoCapture} \cup Capture]
       /\ \A t \in Store : t # s => capture'[t] = capture[t]
       /\ capture'[s] = new
  BY <1>3, <1>8, <1>9
<1>11. CaptureMoves
  BY <1>4, <1>7, <1>8, <1>10 DEF CaptureMoves, SamePlan, snap
<1>12. RestTypeOK'
  BY <1>1, <1>10, Known DEF RestTypeOK
<1>13. Moves
  BY <1>1, Known, FollowsItself DEF Moves
<1> QED BY <1>11, <1>12, <1>13 DEF Kept
-----------------------------------------------------------------------------
(* The delivery worker and the server. *)
LEMMA WorkStays ==
  ASSUME NEW d, Good(d), NEW a, NEW slot, NEW known, NEW o, NEW S
  PROVE  ReconcileOnly(d, S).work = d.work /\ Record(d, a, slot, known, o).work = d.work
BY DEF ReconcileOnly, Record, Good, Device

LEMMA SuccessSteps ==
  ASSUME NEW d, Good(d), NEW w, worker[w] \in Job
  PROVE  Steps(d, Success(d, w)) /\ Steps(d, Retry(d, w))
<1> DEFINE k == KeyOfWorker(w)
<1>1. k \in Key
  BY DEF Job, Key, KeyOfWorker
<1>2. CASE Stopped(d, w)
  BY <1>2, StepsItself DEF Success, Retry
<1>3. CASE ~Stopped(d, w)
  <2>1. d.work[k] \in Work
    BY <1>1, <1>3 DEF Stopped, Good, Device
  <2>2. /\ Success(d, w) = [d EXCEPT !.work[k] = NoWork]
        /\ Retry(d, w) = [d EXCEPT !.work[k].by = "queue"]
    BY <1>3 DEF Success, Retry
  <2> HIDE DEF k
  <2> QED BY <1>1, <2>1, <2>2, WorkGiven, WorkBy
<1> QED BY <1>2, <1>3

LEMMA PayloadType ==
  ASSUME NEW seen, DOMAIN seen \subseteq Store, \A s \in DOMAIN seen : seen[s] \in Checkpoint
  PROVE  Payload(seen) \in [Moment -> SUBSET Part]
<1>1. ASSUME NEW s, s \in DOMAIN seen
      PROVE  [id |-> s, status |-> seen[s].status, ping |-> seen[s].ping,
              captured |-> seen[s].captured] \in Part
  BY <1>1 DEF Part, Checkpoint
<1> QED BY <1>1 DEF Payload, Latest

LEMMA SameRevisionType ==
  ASSUME NEW d, Good(d), NEW a, NEW slot
  PROVE  /\ DOMAIN SameRevision(d, a, slot) \subseteq Store
         /\ \A s \in DOMAIN SameRevision(d, a, slot) :
              SameRevision(d, a, slot)[s] \in Checkpoint
<1>1. d.index \subseteq Store /\ \A s \in d.index : d.report[s] \in Checkpoint
  BY DEF Good, Device
<1> QED BY <1>1 DEF SameRevision

LEMMA WorkStartsKept ==
  ASSUME IInv, NEW w \in Worker, NEW k \in Key, NEW S, WorkStarts(w, k, S)
  PROVE  Kept
<1> DEFINE seed == device.report[device.work[k].store]
           begins == seed # NoReportYet /\ seed.owner = device.account
           c == [device EXCEPT !.work[k].by = w]
           d == ReconcileOnly(c, S)
           seen == SameRevision(d, seed.owner, seed.slot)
           known == {s \in d.index : d.report[s].owner = seed.owner}
           marked == Record(d, seed.owner, seed.slot, known, "sending")
           again == Record(marked, seed.owner, seed.slot, known, "retry")
           job == [pc |-> "identified", owner |-> seed.owner, slot |-> seed.slot,
                   known |-> known, body |-> Payload(seen), answer |-> None]
<1>1. /\ UNCHANGED <<used, now, user, allowed, capture, stray, answered>>
      /\ device.work[k] # NoWork /\ S \subseteq device.index
      /\ \/ ~begins /\ device' = [device EXCEPT !.work[k] = NoWork] /\ worker' = worker
         \/ /\ begins /\ worker' = worker
            /\ \/ device' = [d EXCEPT !.work[k] = NoWork]
               \/ device' = [d EXCEPT !.work[k].by = "queue"]
               \/ device' = [again EXCEPT !.work[k].by = "queue"]
         \/ begins /\ device' = marked /\ worker' = [worker EXCEPT ![w] = job]
  BY DEF WorkStarts
<1>2. device.work[k] \in Work /\ device.work[k].store \in Store
  BY <1>1, Known DEF Good, Device, Work
<1>3. Steps(device, c) /\ Good(c) /\ c.work[k] \in Work /\ S \subseteq c.index
  <2>1. Steps(device, c) /\ Good(c)
    BY <1>2, Known, WorkBy DEF Steps
  <2>2. c.work[k] = [device.work[k] EXCEPT !.by = w]
    BY Known DEF Good, Device
  <2>3. c.index = device.index
    BY Known DEF Good, Device
  <2> QED BY <1>1, <1>2, <2>1, <2>2, <2>3 DEF Work
<1> HIDE DEF c
<1>4. Steps(device, d) /\ Good(d) /\ d.work[k] \in Work
  BY <1>3, ReconcileOnlySteps, WorkStays, StepsOn DEF Steps
<1> HIDE DEF d
<1>5. Steps(device, marked) /\ Good(marked) /\ marked.work[k] \in Work
  <2>1. Steps(d, marked) /\ marked.work = d.work
    BY <1>4, RecordSteps, WorkStays DEF Terminal
  <2> HIDE DEF marked
  <2> QED BY <1>4, <2>1, StepsOn DEF Steps
<1>6. Steps(device, again) /\ Good(again) /\ again.work[k] \in Work
  <2> HIDE DEF marked
  <2>1. Steps(marked, again) /\ again.work = marked.work
    BY <1>5, RecordSteps, WorkStays DEF Terminal
  <2> HIDE DEF again
  <2> QED BY <1>5, <2>1, StepsOn DEF Steps
<1>7. Steps(device, device')
  <2> HIDE DEF marked, again
  <2>1. CASE device' = [device EXCEPT !.work[k] = NoWork]
    BY <2>1, Known, WorkGiven
  <2>2. CASE device' = [d EXCEPT !.work[k] = NoWork]
    BY <2>2, <1>4, WorkGiven, StepsOn
  <2>3. CASE device' = [d EXCEPT !.work[k].by = "queue"]
    BY <2>3, <1>4, WorkBy, StepsOn
  <2>4. CASE device' = [again EXCEPT !.work[k].by = "queue"]
    BY <2>4, <1>6, WorkBy, StepsOn
  <2>5. CASE device' = marked
    BY <2>5, <1>5
  <2> QED BY <1>1, <2>1, <2>2, <2>3, <2>4, <2>5
<1>8. begins => job \in Job
  <2> SUFFICES ASSUME begins PROVE job \in Job
    OBVIOUS
  <2>1. seed \in Checkpoint
    BY <1>2, Known, StoredReport
  <2>2. seed.owner \in Account /\ seed.slot \in Slot
    BY <2>1 DEF Checkpoint
  <2>3. known \in SUBSET Store
    BY <1>4 DEF Good, Device
  <2> HIDE DEF seed, known
  <2>4. Payload(seen) \in [Moment -> SUBSET Part]
    BY <1>4, SameRevisionType, PayloadType
  <2> HIDE DEF seen
  <2> QED BY <2>2, <2>3, <2>4 DEF Job
<1> HIDE DEF job, begins
<1>9. worker' \in [Worker -> {Idle} \cup Job]
  BY <1>1, <1>8, Known DEF RestTypeOK
<1>10. Good(device') /\ Follows(device, device')
  BY <1>7 DEF Steps
<1>11. /\ UNCHANGED <<used, now, user, allowed, capture, answered>>
       /\ stray' \in {Idle} \cup Job /\ allowed' \in BOOLEAN
  BY <1>1, Known DEF RestTypeOK
<1> QED BY <1>9, <1>10, <1>11, DeviceKept

LEMMA AtWork ==
  ASSUME IInv, NEW w \in Worker, worker[w] # Idle
  PROVE  /\ worker[w] \in Job
         /\ [worker EXCEPT ![w] = Idle] \in [Worker -> {Idle} \cup Job]
         /\ worker[w].pc = "identified" =>
              [worker EXCEPT ![w].pc = "http"] \in [Worker -> {Idle} \cup Job]
<1>1. worker \in [Worker -> {Idle} \cup Job]
  BY Known DEF RestTypeOK
<1>2. worker[w] \in Job
  BY <1>1
<1>3. worker[w].pc = "identified" => [worker[w] EXCEPT !.pc = "http"] \in Job
  BY <1>2 DEF Job
<1> QED BY <1>1, <1>2, <1>3

LEMMA WorkChecksKept ==
  ASSUME IInv, NEW w \in Worker, WorkChecks(w)
  PROVE  Kept
<1>1. worker[w] # Idle /\ worker[w].pc = "identified"
  BY DEF WorkChecks, Idle
<1>2. PICK d \in {device, Reconcile(device)} :
        \/ device' = d /\ worker' = [worker EXCEPT ![w].pc = "http"]
        \/ device' = Success(d, w) /\ worker' = [worker EXCEPT ![w] = Idle]
  BY DEF WorkChecks
<1>3. UNCHANGED <<used, now, user, allowed, capture, stray, answered>>
  BY DEF WorkChecks
<1>4. Steps(device, d) /\ Good(d)
  BY <1>2, Known, StepsItself, ReconcileSteps DEF Steps
<1>5. Steps(d, Success(d, w))
  BY <1>1, <1>4, AtWork, SuccessSteps
<1>6. Good(device') /\ Follows(device, device')
  BY <1>2, <1>4, <1>5, StepsOn DEF Steps
<1>7. worker' \in [Worker -> {Idle} \cup Job]
  BY <1>1, <1>2, AtWork
<1> QED BY <1>3, <1>6, <1>7, DeviceKept, Known DEF RestTypeOK

LEMMA WorkEnds ==
  ASSUME IInv, NEW w \in Worker, worker[w] # Idle,
         NEW o, o \in {"pending", "sending", "retry"} \cup Terminal,
         o \in Terminal => o = worker[w].answer,
         device' \in {Retry(Recorded(device, w, o), w), Success(Recorded(device, w, o), w)}
  PROVE  Good(device') /\ Follows(device, device')
<1> DEFINE d == Recorded(device, w, o)
           job == worker[w]
           told == Told(device, job.owner, job.slot, job.known)
<1>4. JobKnows(device, job) /\ JobAnswered(job)
  BY DEF IInv, Deliveries, JobsOK, WorkerOK
<1>5. o \in Terminal => told \subseteq answered
  BY <1>4 DEF JobAnswered
<1>6. ASSUME o \in {"applied", "already_applied"}, NEW s \in told,
             device.report[s].status = "succeeded"
      PROVE  AgreedOn(device.report[s])
  <2> DEFINE r == device.report[s]
  <2>1. o = job.answer
    BY <1>6 DEF Terminal
  <2>5. ~OpenIn(job, r.moment)
    <3>1. job \in Job /\ job.answer # None
      BY <1>6, <2>1, AtWork DEF None
    <3>2. job.pc # "identified" /\ r.moment \in Moment
      BY <1>6, <3>1, Known DEF Job, Told, Good, Device, Checkpoint
    <3> QED BY <3>2 DEF IInv, Deliveries, JobsOK, WorkerOK, Unfinished, OpenIn
  <2>2. r.owner = job.owner /\ r.slot = job.slot /\ r.moment \in Moment
    <3>1. s \in device.index /\ KeyOf(r) = <<job.owner, job.slot>>
      BY <1>6 DEF Told
    <3>2. r \in Checkpoint
      BY <3>1, Known DEF Good, Device
    <3> QED BY <3>1, <3>2 DEF KeyOf, Checkpoint
  <2>3. PICK x \in job.body[r.moment] : x.status = "succeeded" /\ x.ping = r.ping
    BY <1>4, <1>6, <2>5 DEF JobKnows, Sent
  <2>4. Agreed(job.owner, job.slot, r.moment, x.ping)
    BY <1>4, <1>6, <2>1, <2>2, <2>3 DEF JobAnswered
  <2> QED BY <2>2, <2>3, <2>4 DEF AgreedOn
<1>1. Steps(device, d) /\ Good(d)
  <2>1. d = Record(device, job.owner, job.slot, job.known, o)
    BY DEF Recorded
  <2> HIDE DEF d, job
  <2>2. Steps(device, Record(device, job.owner, job.slot, job.known, o))
    BY <1>5, <1>6, Known, RecordSteps
  <2> QED BY <2>1, <2>2 DEF Steps
<1> HIDE DEF d
<1>2. Steps(d, Success(d, w)) /\ Steps(d, Retry(d, w))
  BY <1>1, AtWork, SuccessSteps
<1>3. device' \in {Retry(d, w), Success(d, w)}
  BY DEF d
<1>7. Steps(device, device')
  BY <1>1, <1>2, <1>3, StepsOn
<1> QED BY <1>7 DEF Steps

LEMMA WorkFailsKept ==
  ASSUME IInv, NEW w \in Worker, NEW onItsWay \in BOOLEAN, WorkFails(w, onItsWay)
  PROVE  Kept
<1>1. worker[w] # Idle
  BY DEF WorkFails, Idle
<1>2. /\ UNCHANGED <<used, now, user, allowed, capture, answered>>
      /\ device' = Retry(Recorded(device, w, "retry"), w)
      /\ worker' = [worker EXCEPT ![w] = Idle]
      /\ stray' \in {stray, worker[w]}
  BY DEF WorkFails
<1>3. Good(device') /\ Follows(device, device')
  BY <1>1, <1>2, WorkEnds DEF Terminal
<1>4. worker' \in [Worker -> {Idle} \cup Job] /\ stray' \in {Idle} \cup Job
  BY <1>1, <1>2, AtWork, Known DEF RestTypeOK
<1> QED BY <1>2, <1>3, <1>4, DeviceKept, Known DEF RestTypeOK

LEMMA WorkRecordsKept ==
  ASSUME IInv, NEW w \in Worker, WorkRecords(w)
  PROVE  Kept
<1> DEFINE o == worker[w].answer
<1>1. worker[w] # Idle /\ worker[w].pc = "answered"
  BY DEF WorkRecords, Idle
<1>2. /\ UNCHANGED <<used, now, user, allowed, capture, stray, answered>>
      /\ device' \in {Retry(Recorded(device, w, o), w), Success(Recorded(device, w, o), w)}
      /\ worker' = [worker EXCEPT ![w] = Idle]
  BY DEF WorkRecords
<1>3. o \in {"pending", "sending", "retry"} \cup Terminal
  <2>1. worker[w] \in Job
    BY <1>1, AtWork
  <2> QED BY <1>1, <2>1 DEF Job
<1>4. Good(device') /\ Follows(device, device')
  <2>1. o \in Terminal => o = worker[w].answer
    OBVIOUS
  <2> HIDE DEF o
  <2> QED BY <1>1, <1>2, <1>3, <2>1, WorkEnds
<1>5. worker' \in [Worker -> {Idle} \cup Job]
  BY <1>1, <1>2, AtWork
<1> QED BY <1>2, <1>4, <1>5, DeviceKept, Known DEF RestTypeOK

LEMMA ServeKept ==
  ASSUME IInv, NEW w \in Worker, Serve(w)
  PROVE  Kept
<1> DEFINE o == Answer(worker[w])
           job == [[worker[w] EXCEPT !.pc = "answered"] EXCEPT !.answer = o]
<1>1. worker[w] # Idle
  BY DEF Serve, Idle
<1>2. /\ UNCHANGED <<used, now, user, allowed, device, capture, stray>>
      /\ worker' = [worker EXCEPT ![w].pc = "answered", ![w].answer = o]
      /\ answered' \subseteq answered \cup worker[w].known
  BY DEF Serve
<1>3. worker[w] \in Job /\ worker \in [Worker -> {Idle} \cup Job]
  BY <1>1, AtWork, Known DEF RestTypeOK
<1>4. o \in {"retry"} \cup Terminal
  BY DEF Answer, Terminal
<1> HIDE DEF o
<1>5. job \in Job
  BY <1>3, <1>4 DEF Job, Terminal, None
<1>6. worker' = [worker EXCEPT ![w] = job]
  BY <1>2, <1>3
<1> HIDE DEF job
<1>7. worker' \in [Worker -> {Idle} \cup Job]
  BY <1>3, <1>5, <1>6
<1>8. answered' \subseteq Store
  BY <1>2, <1>3, Known DEF RestTypeOK, Job
<1> QED BY <1>2, <1>7, <1>8, DeviceUntouched, Known DEF RestTypeOK
-----------------------------------------------------------------------------
(* The process, and the rest. *)
LEMMA DiesKept ==
  ASSUME IInv, NEW d, Good(d), Follows(device, d), Dies(d), used' = used
  PROVE  Kept
<1>2. /\ UNCHANGED <<now, user, allowed, stray, answered>> /\ device' = Dead(d)
      /\ capture' = [s \in Store |-> NoCapture] /\ worker' = [w \in Worker |-> Idle]
  BY DEF Dies
<1>3. Good(device') /\ Follows(device, device')
  BY <1>2, DeadSteps, FollowsOn DEF Steps
<1>4. worker' \in [Worker -> {Idle} \cup Job]
  BY <1>2
<1> QED BY <1>2, <1>3, <1>4, DeviceKept, Known DEF RestTypeOK

LEMMA DeathsKept ==
  ASSUME IInv, Die \/ Reboot \/ ClearDies
  PROVE  Kept
<1>1. CASE Die
  BY <1>1, Known, FollowsItself, DiesKept DEF Die
<1>2. CASE Reboot
  <2>1. {} \subseteq device.index
    OBVIOUS
  <2>2. Steps(device, [device EXCEPT !.alarms = {}])
    BY <2>1, Known, AlarmsGiven
  <2> QED BY <1>2, <2>2, DiesKept DEF Reboot, Steps
<1>3. CASE ClearDies
  <2>1. Good(Own(device, NoAccount)) /\ Follows(device, Own(device, NoAccount))
    BY Known, OwnFollows
  <2>2. Own(device, NoAccount) = [device EXCEPT !.account = NoAccount]
    BY DEF Own
  <2> QED BY <1>3, <2>1, <2>2, DiesKept DEF ClearDies
<1> QED BY <1>1, <1>2, <1>3

LEMMA ScheduleDiesKept ==
  ASSUME IInv, NEW a \in Account, NEW slot \in Slot, NEW m \in Moment,
         ScheduleDies(a, slot, m)
  PROVE  Kept
<1> DEFINE d == Enter(device, a)
           new == NewReport(a, slot, m)
           s == used + 1
           x == Stored(d, s, new)
           y == Indexed(x, s)
<1>1. Good(d) /\ Follows(device, d)
  BY Known, EnterFollows
<1>2. /\ s \in Store /\ used' = s /\ (Dies(x) \/ Dies(y))
      /\ ~AlreadyScheduled(d, new)
  BY DEF ScheduleDies
<1> HIDE DEF d
<1>3. new \in Checkpoint /\ new.status = "scheduled" /\ new.delivery = "pending"
  BY NewReportType
<1> HIDE DEF new, s
<1>4. Adds(d, x, s) /\ Adds(d, y, s)
  BY <1>1, <1>2, <1>3, StoredAdds
<1> HIDE DEF x, y
<1>5. PICK z \in {x, y} : Dies(z)
  BY <1>2
<1>6. /\ UNCHANGED <<now, user, allowed, stray, answered>> /\ device' = Dead(z)
      /\ capture' = [t \in Store |-> NoCapture] /\ worker' = [w \in Worker |-> Idle]
  BY <1>5 DEF Dies
<1>7. Adds(d, z, s) /\ Good(z)
  BY <1>4, <1>5 DEF Adds
<1>8. Good(device') /\ Follows(z, device')
  BY <1>6, <1>7, DeadSteps DEF Steps
<1>9. Adds(device, device', s)
  BY <1>1, <1>2, <1>7, <1>8, AddsOn, AddsLater
<1>10. Moves
  BY <1>2, <1>9 DEF Moves, s
<1> QED BY <1>6, <1>10, Known DEF Kept, CaptureMoves, RestTypeOK

LEMMA PermissionKept ==
  ASSUME IInv, NEW granted \in BOOLEAN, Permission(granted)
  PROVE  Kept
<1>1. device' \in {device, [device EXCEPT !.alarms = {}]} /\ allowed' \in BOOLEAN
  BY DEF Permission
<1>2. Steps(device, device')
  <2>1. {} \subseteq device.index
    OBVIOUS
  <2> QED BY <1>1, <2>1, Known, AlarmsGiven, StepsItself
<1>3. UNCHANGED <<now, user, used, capture, worker, stray, answered>>
  BY DEF Permission
<1> QED BY <1>1, <1>2, <1>3, DeviceKept, Known DEF RestTypeOK, Steps

LEMMA OthersKept ==
  ASSUME IInv,
         \/ \E a \in Account : SignIn(a) \/ ServerEdit(a)
         \/ SignOut \/ ServeStray \/ Tick
  PROVE  Kept
<1> DEFINE Calm == /\ UNCHANGED <<device, used, capture, worker, answered, allowed>>
                   /\ user' \in Account \cup {NoAccount} /\ stray' \in {stray, Idle}
                   /\ now' \in 0..MAXTIME
<1>1. /\ now \in 0..MAXTIME /\ user \in Account \cup {NoAccount}
  BY Known DEF RestTypeOK
<1>2. ASSUME NEW a \in Account, SignIn(a) PROVE Calm
  BY <1>1, <1>2 DEF SignIn
<1>3. ASSUME NEW a \in Account, ServerEdit(a) PROVE Calm
  BY <1>1, <1>3 DEF ServerEdit
<1>4. ASSUME SignOut PROVE Calm
  BY <1>1, <1>4 DEF SignOut
<1>5. ASSUME ServeStray PROVE Calm
  BY <1>1, <1>5 DEF ServeStray
<1>6. ASSUME Tick PROVE Calm
  BY <1>1, <1>6, BoundsAssumption DEF Tick
<1>7. Calm
  BY <1>2, <1>3, <1>4, <1>5, <1>6
<1> QED BY <1>7, DeviceUntouched, Known DEF RestTypeOK

LEMMA StutterKept ==
  ASSUME IInv, UNCHANGED vars PROVE Kept
BY DeviceUntouched, Known DEF vars, RestTypeOK

LEMMA NextKept ==
  ASSUME IInv, [Next]_vars
  PROVE  Kept
<1>1. ASSUME NEW a \in Account, Calls(a) PROVE Kept
  BY <1>1, ScheduleKept, ScheduleDiesKept, ReadKept, CancelKept, UnscheduleKept,
     ClearCompletedKept DEF Calls
<1>2. ASSUME NEW s \in Store, Captures(s) PROVE Kept
  BY <1>2, AlarmRingsKept, AlarmFailsKept, CaptureSavesKept, CaptureEndsKept DEF Captures
<1>3. ASSUME NEW w \in Worker, Works(w) PROVE Kept
  BY <1>3, WorkStartsKept, WorkChecksKept, ServeKept, WorkRecordsKept, WorkFailsKept DEF Works
<1> QED BY <1>1, <1>2, <1>3, RestoreKept, PermissionKept, DeactivateKept, DeathsKept,
           OthersKept, StutterKept DEF Next
-----------------------------------------------------------------------------
(* What a step does to the captures, the jobs, the history of answers and  *)
(* the sessions on the server.  A job under way is the one it was, or is   *)
(* sound; a session goes on agreeing with what it agreed with.             *)
SameJob(j, k) == /\ k.owner = j.owner /\ k.slot = j.slot /\ k.known = j.known
                 /\ k.body = j.body /\ k.answer = j.answer
                 /\ k.pc # "identified" => j.pc # "identified" \/ ~Unfinished(j)
CapturesMove == \A s \in Store : capture'[s] # NoCapture =>
  \/ capture[s] # NoCapture /\ capture'[s].snap = capture[s].snap
  \/ Capturable(capture[s].snap)'
WorkersMove == \A w \in Worker : worker'[w] # Idle =>
  \/ worker[w] # Idle /\ SameJob(worker[w], worker'[w])
  \/ WorkerOK(w)'
StrayMoves == stray' # Idle =>
  \/ stray' = stray
  \/ \E w \in Worker : worker[w] # Idle /\ worker[w].pc = "http" /\ stray' = worker[w]
AnsweredMoves ==
  /\ answered \subseteq answered'
  /\ \A s \in answered' \ answered :
       s <= used /\ (s \in device.index => Settled(device.report[s]))
DocMoves ==
  /\ DocOK'
  /\ \A a \in Account, slot \in Slot, m \in Moment, ping \in Ping :
       Agreed(a, slot, m, ping) => Agreed(a, slot, m, ping)'
DeliveryMoves ==
  /\ CapturesMove /\ WorkersMove /\ StrayMoves /\ AnsweredMoves /\ DocMoves
  /\ now \in Nat /\ now' \in Nat /\ now <= now'

(* What is true of a report, a capture or a part stays true.               *)
LEMMA WindowStays ==
  ASSUME NEW r \in Checkpoint, now \in Nat, now' \in Nat, now <= now', InWindow(r)
  PROVE  InWindow(r)'
<1>1. r.captured \in Int
  BY BoundsAssumption DEF Checkpoint, Unset
<1>2. r.captured <= now'
  BY <1>1 DEF InWindow
<1> QED BY <1>2 DEF InWindow

LEMMA AgreedOnStays ==
  ASSUME NEW r \in Checkpoint, DocMoves, AgreedOn(r)
  PROVE  AgreedOn(r)'
<1>1. r.owner \in Account /\ r.slot \in Slot /\ r.moment \in Moment /\ r.ping \in Ping
  BY DEF Checkpoint
<1>2. Agreed(r.owner, r.slot, r.moment, r.ping)'
  BY <1>1 DEF DocMoves, AgreedOn
<1> QED BY <1>2 DEF AgreedOn

LEMMA TruthLasts ==
  ASSUME NEW r \in Checkpoint, NEW s, DeliveryMoves, Truthful(r, s)
  PROVE  Truthful(r, s)'
<1>1. Acknowledged(r) => s \in answered'
  BY DEF Truthful, DeliveryMoves, AnsweredMoves
<1>2. r.status = "succeeded" => InWindow(r)'
  BY WindowStays DEF Truthful, DeliveryMoves
<1>3. r.status = "succeeded" /\ Applied(r) => AgreedOn(r)'
  BY AgreedOnStays DEF Truthful, DeliveryMoves
<1> QED BY <1>1, <1>2, <1>3 DEF Truthful

(* The reports that were there before a step.                              *)
LEMMA OldReports ==
  ASSUME IInv, Kept, NEW s \in Store, s <= used, s \in device'.index
  PROVE  /\ s \in device.index /\ device.report[s] # NoReportYet
         /\ device'.report[s] # NoReportYet
         /\ KeptAt(device.report[s], device'.report[s], s)
<1>1. used \in Nat /\ s \in Nat /\ s # used + 1
  BY Known, StoreAssumption
<1>2. s \in device.index /\ FollowsAt(device, device', s)
  BY <1>1 DEF Kept, Moves, Adds, Follows
<1>3. device'.report[s] # NoReportYet
  BY DEF Kept, Moves, Adds, Good
<1> QED BY <1>2, <1>3 DEF FollowsAt

LEMMA NewReports ==
  ASSUME IInv, Kept, NEW s \in Store, ~(s <= used), s \in device'.index
  PROVE  /\ s = used + 1 /\ Truthful(device'.report[s], s)
         /\ \A t \in device'.index \ {s} : Superseding(device'.report[t], device'.report[s])
<1>1. s \notin device.index
  BY DEF IInv, TypeOK
<1>2. ~Follows(device, device')
  BY <1>1 DEF Follows
<1>3. Adds(device, device', used + 1)
  BY <1>2 DEF Kept, Moves
<1>4. s = used + 1
  BY <1>1, <1>3 DEF Adds
<1> QED BY <1>3, <1>4 DEF Adds

LEMMA ReportsStayTruthful ==
  ASSUME IInv, Kept, DeliveryMoves
  PROVE  ReportsTruthful' /\ AnsweredUsed'
<1>1. device' \in Device /\ \A s \in device'.index : device'.report[s] # NoReportYet
  BY DEF Kept, Moves, Adds, Good
<1>2. \A s \in answered' : s <= used
  BY DEF DeliveryMoves, AnsweredMoves, IInv, Deliveries, AnsweredUsed
<1>3. ASSUME NEW s \in device'.index
      PROVE  /\ Truthful(device'.report[s], s)
             /\ s \in answered' => Settled(device'.report[s])
  <2>1. s \in Store
    BY <1>1 DEF Device
  <2>2. CASE s <= used
    <3>1. /\ s \in device.index
          /\ KeptAt(device.report[s], device'.report[s], s)
      BY <2>1, <2>2, OldReports
    <3>2. Truthful(device.report[s], s) /\ (s \in answered => Settled(device.report[s]))
      BY <3>1 DEF IInv, Deliveries, ReportsTruthful
    <3>3. s \in answered' => Settled(device.report[s])
      BY <3>1, <3>2 DEF DeliveryMoves, AnsweredMoves
    <3>4. Settled(device.report[s]) => Settled(device'.report[s])
      BY <3>1 DEF KeptAt, SameReport
    <3> QED BY <3>1, <3>2, <3>3, <3>4, TruthfulStays
  <2>3. CASE ~(s <= used)
    BY <2>1, <2>3, <1>2, NewReports
  <2> QED BY <2>2, <2>3
<1>4. ASSUME NEW s \in device'.index PROVE Truthful(device.report[s], s)'
  <2>1. device'.report[s] \in Checkpoint
    BY <1>1 DEF Device
  <2>2. PICK r \in Checkpoint : r = device'.report[s]
    BY <2>1
  <2>3. Truthful(r, s)'
    BY <1>3, <2>2, TruthLasts
  <2> QED BY <2>2, <2>3
<1>5. used \in Nat /\ used' \in Nat /\ used <= used'
  BY Known DEF Kept, Moves
<1>6. answered' \subseteq Nat
  BY StoreAssumption DEF Kept, RestTypeOK
<1>7. AnsweredUsed'
  BY <1>2, <1>5, <1>6 DEF AnsweredUsed
<1> QED BY <1>3, <1>4, <1>7 DEF ReportsTruthful

LEMMA LaterStillSupersede ==
  ASSUME IInv, Kept PROVE LaterSupersede'
<1> SUFFICES ASSUME NEW s \in device'.index, NEW t \in device'.index, s < t
             PROVE  Superseding(device'.report[s], device'.report[t])
  BY DEF LaterSupersede
<1>1. s \in Store /\ t \in Store
  BY DEF Kept, Moves, Adds, Good, Device
<1>2. s \in Nat /\ t \in Nat /\ used \in Nat
  BY <1>1, StoreAssumption, Known
<1>3. CASE t <= used
  <2>1. s <= used
    BY <1>2, <1>3
  <2>2. Superseding(device.report[s], device.report[t])
    BY <1>1, <1>3, <2>1, OldReports DEF IInv, Deliveries, LaterSupersede
  <2> QED BY <1>1, <1>3, <2>1, <2>2, OldReports, SupersedingStays
<1>4. CASE ~(t <= used)
  <2>1. s # t
    BY <1>2
  <2> QED BY <1>1, <1>4, <2>1, NewReports
<1> QED BY <1>3, <1>4

LEMMA CapturesStaySound ==
  ASSUME IInv, Kept, DeliveryMoves PROVE CapturesSound'
<1> SUFFICES ASSUME NEW s \in Store, capture'[s] # NoCapture
             PROVE  Capturable(capture[s].snap)'
  BY DEF CapturesSound
<1>1. CASE capture[s] # NoCapture /\ capture'[s].snap = capture[s].snap
  <2>1. Capturable(capture[s].snap)
    BY <1>1 DEF IInv, Deliveries, CapturesSound
  <2>2. capture[s].snap \in Checkpoint
    BY <1>1, Known DEF RestTypeOK, Capture
  <2>3. PICK q \in Checkpoint : q = capture[s].snap
    BY <2>2
  <2>4. ~Acknowledged(q) /\ (q.status = "succeeded" => InWindow(q)')
    BY <2>1, <2>3, WindowStays DEF Capturable, DeliveryMoves
  <2>5. Capturable(q)'
    BY <2>4 DEF Capturable
  <2> QED BY <1>1, <2>3, <2>5
<1>2. CASE Capturable(capture[s].snap)'
  BY <1>2
<1> QED BY <1>1, <1>2 DEF DeliveryMoves, CapturesMove

LEMMA ToldBefore ==
  ASSUME IInv, Kept, NEW a, NEW slot, NEW known, \A s \in known : s <= used,
         NEW s \in Told(device', a, slot, known)
  PROVE  /\ s \in Told(device, a, slot, known)
         /\ KeptAt(device.report[s], device'.report[s], s)
<1>1. s \in device'.index /\ s \in known /\ KeyOf(device'.report[s]) = <<a, slot>>
  BY DEF Told
<1>2. s \in Store
  BY <1>1 DEF Kept, Moves, Adds, Good, Device
<1>3. s \in device.index /\ KeptAt(device.report[s], device'.report[s], s)
  BY <1>1, <1>2, OldReports
<1> QED BY <1>1, <1>3 DEF Told, KeyOf, KeptAt, SameReport

LEMMA JobStaysSound ==
  ASSUME NEW j \in Job, JobSound(j), DeliveryMoves PROVE JobSound(j)'
<1>1. ASSUME NEW m \in Moment, Over(j.slot, m) PROVE Over(j.slot, m)'
  <2>1. j.slot \in Slot
    BY DEF Job
  <2>2. Expected(j.slot)[m] \in Int /\ j.slot.end \in Int /\ WINDOW \in Int
    BY <2>1, SlotAssumption, WindowAssumption DEF Expected, Moment
  <2> QED BY <1>1, <2>2 DEF Over, DeliveryMoves
<1>2. ASSUME NEW m \in Moment, NEW x \in j.body[m], x.status = "succeeded"
      PROVE  x.captured <= now'
  <2>1. x \in Part
    BY DEF Job
  <2>2. x.captured \in Int
    BY <2>1, BoundsAssumption DEF Part, Unset
  <2>3. x.captured <= now
    BY <1>2 DEF JobSound, PartSound
  <2> QED BY <2>2, <2>3 DEF DeliveryMoves
<1> QED BY <1>1, <1>2 DEF JobSound, PartSound

LEMMA JobStillKnows ==
  ASSUME IInv, Kept, NEW j, \A s \in j.known : s <= used, JobKnows(device, j)
  PROVE  JobKnows(device', j)
<1> SUFFICES ASSUME NEW s \in Told(device', j.owner, j.slot, j.known)
             PROVE  \/ OpenIn(j, device'.report[s].moment)
                    \/ /\ Settled(device'.report[s])
                       /\ device'.report[s].status = "succeeded"
                            => Sent(device'.report[s], j)
  BY DEF JobKnows
<1> DEFINE r == device.report[s]
           q == device'.report[s]
<1>1. s \in Told(device, j.owner, j.slot, j.known) /\ KeptAt(r, q, s)
  BY ToldBefore
<1>2. \/ OpenIn(j, r.moment)
      \/ Settled(r) /\ (r.status = "succeeded" => Sent(r, j))
  BY <1>1 DEF JobKnows
<1> HIDE DEF r, q
<1>3. q.moment = r.moment /\ (Settled(r) => Settled(q))
  BY <1>1, <1>2 DEF KeptAt, SameReport
<1>4. ASSUME Settled(r), r.status = "succeeded" => Sent(r, j), q.status = "succeeded"
      PROVE  Sent(q, j)
  <2>1. Still(r, q)
    BY <1>1, <1>4 DEF KeptAt
  <2> QED BY <1>3, <1>4, <2>1 DEF Sent, Still
<1> QED BY <1>2, <1>3, <1>4 DEF q

LEMMA JobsStayOK ==
  ASSUME IInv, Kept, DeliveryMoves PROVE JobsOK'
<1>1. ASSUME NEW w \in Worker, worker[w] # Idle, SameJob(worker[w], worker'[w])
      PROVE  WorkerOK(w)'
  <2> DEFINE j == worker[w]
             k == worker'[w]
             told == Told(device, j.owner, j.slot, j.known)
  <2>1. JobSound(j) /\ JobKnows(device, j) /\ JobAnswered(j) /\ \A s \in j.known : s <= used
    BY <1>1 DEF IInv, Deliveries, JobsOK, WorkerOK
  <2>2. j \in Job
    BY <1>1, Known DEF RestTypeOK
  <2>3. used \in Nat /\ used' \in Nat /\ used <= used'
    BY Known DEF Kept, Moves
  <2>4. j.known \subseteq Nat
    BY <2>2, StoreAssumption DEF Job
  <2>5. JobSound(worker[w])'
    <3>1. PICK i \in Job : i = j
      BY <2>2
    <3>2. JobSound(i)'
      BY <2>1, <3>1, JobStaysSound
    <3> QED BY <1>1, <3>1, <3>2 DEF JobSound, SameJob, PartSound, Over
  <2>6. JobKnows(device', k)
    <3>1. JobKnows(device', j)
      BY <2>1, JobStillKnows
    <3> QED BY <1>1, <3>1 DEF JobKnows, SameJob, Sent, OpenIn
  <2>7. ASSUME k.answer \in Terminal
        PROVE  Told(device', k.owner, k.slot, k.known) \subseteq answered'
    <3>1. Told(device', k.owner, k.slot, k.known) \subseteq told
      BY <1>1, <2>1, ToldBefore DEF SameJob
    <3>2. told \subseteq answered
      BY <1>1, <2>1, <2>7 DEF JobAnswered, SameJob
    <3> QED BY <3>1, <3>2 DEF DeliveryMoves, AnsweredMoves
  <2>8. ASSUME k.answer \in {"applied", "already_applied"}, NEW m \in Moment,
               NEW x \in k.body[m], x.status = "succeeded"
        PROVE  Agreed(worker[w].owner, worker[w].slot, m, x.ping)'
    <3>1. j.answer = k.answer /\ x \in j.body[m]
      BY <1>1, <2>8 DEF SameJob
    <3>2. Agreed(j.owner, j.slot, m, x.ping)
      BY <2>1, <2>8, <3>1 DEF JobAnswered
    <3>3. x.ping \in Ping /\ j.owner \in Account /\ j.slot \in Slot
      BY <2>2, <3>1 DEF Job, Part
    <3>4. PICK a \in Account, slot \in Slot, ping \in Ping :
            a = j.owner /\ slot = j.slot /\ ping = x.ping
      BY <3>3
    <3>5. Agreed(a, slot, m, ping)'
      BY <3>2, <3>4 DEF DeliveryMoves, DocMoves
    <3> QED BY <1>1, <3>4, <3>5 DEF SameJob
  <2>9. JobAnswered(worker[w])'
    BY <2>7, <2>8 DEF JobAnswered
  <2>10. \A s \in k.known : s <= used'
    BY <1>1, <2>1, <2>3, <2>4 DEF SameJob
  <2>11. k.pc # "identified" => ~Unfinished(k)
    BY <1>1 DEF IInv, Deliveries, JobsOK, WorkerOK, SameJob, Unfinished
  <2> QED BY <2>5, <2>6, <2>9, <2>10, <2>11 DEF WorkerOK, Unfinished
<1>2. ASSUME stray' # Idle PROVE JobSound(stray)' /\ ~Unfinished(stray)'
  <2>1. CASE stray' = stray
    <3>1. stray \in Job /\ JobSound(stray) /\ ~Unfinished(stray)
      BY <1>2, <2>1, Known DEF RestTypeOK, IInv, Deliveries, JobsOK
    <3>2. PICK j \in Job : j = stray
      BY <3>1
    <3>3. JobSound(j)'
      BY <3>1, <3>2, JobStaysSound
    <3> QED BY <2>1, <3>1, <3>2, <3>3 DEF Unfinished
  <2>2. CASE \E w \in Worker : worker[w] # Idle /\ worker[w].pc = "http" /\ stray' = worker[w]
    <3>1. PICK w \in Worker : worker[w] # Idle /\ worker[w].pc = "http" /\ stray' = worker[w]
      BY <2>2
    <3>2. worker[w] \in Job /\ JobSound(worker[w]) /\ ~Unfinished(worker[w])
      BY <3>1, Known DEF RestTypeOK, IInv, Deliveries, JobsOK, WorkerOK
    <3>3. PICK j \in Job : j = worker[w]
      BY <3>2
    <3>4. JobSound(j)'
      BY <3>2, <3>3, JobStaysSound
    <3> QED BY <3>1, <3>2, <3>3, <3>4 DEF Unfinished
  <2> QED BY <1>2, <2>1, <2>2 DEF DeliveryMoves, StrayMoves
<1> QED BY <1>1, <1>2 DEF JobsOK, DeliveryMoves, WorkersMove

LEMMA DeliveriesKept ==
  ASSUME IInv, Kept, DeliveryMoves PROVE Deliveries'
BY ReportsStayTruthful, LaterStillSupersede, CapturesStaySound, JobsStayOK
   DEF Deliveries, DeliveryMoves, DocMoves
-----------------------------------------------------------------------------
(* What each action does to the deliveries. *)
LEMMA DocRests == ASSUME IInv, doc' = doc PROVE DocMoves
BY DEF DocMoves, DocOK, Agreed, IInv, Deliveries

LEMMA Clock ==
  ASSUME IInv, RestTypeOK', now' = now
  PROVE  now \in Nat /\ now' \in Nat /\ now <= now'
BY Known, BoundsAssumption DEF RestTypeOK

LEMMA CalmDeliveries ==
  ASSUME IInv, Kept, UNCHANGED <<now, doc, stray, answered>>,
         capture' \in {capture, [s \in Store |-> NoCapture]},
         worker' \in {worker, [w \in Worker |-> Idle]}
  PROVE  DeliveryMoves
<1>1. CapturesMove
  BY DEF CapturesMove
<1>2. WorkersMove
  BY DEF WorkersMove, SameJob
<1>3. StrayMoves /\ AnsweredMoves
  BY DEF StrayMoves, AnsweredMoves
<1> QED BY <1>1, <1>2, <1>3, DocRests, Clock DEF DeliveryMoves, Kept

(* A worker goes on with its job, or ends. *)
LEMMA WorkerDeliveries ==
  ASSUME IInv, Kept, UNCHANGED <<now, doc, answered, capture>>, StrayMoves,
         NEW w \in Worker, NEW k, worker' = [worker EXCEPT ![w] = k],
         k = Idle \/ (worker[w] # Idle /\ SameJob(worker[w], k))
  PROVE  DeliveryMoves
<1>1. CapturesMove
  BY DEF CapturesMove
<1>2. WorkersMove
  <2>1. worker \in [Worker -> {Idle} \cup Job]
    BY Known DEF RestTypeOK
  <2> SUFFICES ASSUME NEW v \in Worker, worker'[v] # Idle
               PROVE  worker[v] # Idle /\ SameJob(worker[v], worker'[v])
    BY DEF WorkersMove
  <2>2. CASE v = w
    BY <2>1, <2>2
  <2>3. CASE v # w
    BY <2>1, <2>3 DEF SameJob
  <2> QED BY <2>2, <2>3
<1>3. AnsweredMoves
  BY DEF AnsweredMoves
<1> QED BY <1>1, <1>2, <1>3, DocRests, Clock DEF DeliveryMoves, Kept

LEMMA CaptureDeliveries ==
  ASSUME IInv, Kept, UNCHANGED <<now, doc, stray, answered, worker>>,
         NEW s \in Store, \A t \in Store \ {s} : capture'[t] = capture[t],
         NEW q \in Checkpoint, Capturable(q),
         capture'[s] = NoCapture \/ capture'[s].snap = q
  PROVE  DeliveryMoves
<1>1. CapturesMove
  <2> SUFFICES ASSUME NEW t \in Store, capture'[t] # NoCapture
               PROVE  \/ capture[t] # NoCapture /\ capture'[t].snap = capture[t].snap
                      \/ Capturable(capture[t].snap)'
    BY DEF CapturesMove
  <2>1. CASE t # s
    BY <2>1
  <2>2. CASE t = s
    <3>1. Capturable(q)'
      BY DEF Capturable, InWindow
    <3>2. capture'[t].snap = q
      BY <2>2
    <3> QED BY <3>1, <3>2 DEF Capturable
  <2> QED BY <2>1, <2>2
<1>2. WorkersMove
  BY DEF WorkersMove, SameJob
<1>3. StrayMoves /\ AnsweredMoves
  BY DEF StrayMoves, AnsweredMoves
<1> QED BY <1>1, <1>2, <1>3, DocRests, Clock DEF DeliveryMoves, Kept

(* The calls of the app, the permission and the deaths of the process. *)
LEMMA CallsDeliver ==
  ASSUME IInv, Kept, NEW a \in Account, Calls(a) PROVE DeliveryMoves
<1> DEFINE Calm == /\ UNCHANGED <<now, doc, stray, answered>>
                   /\ capture' \in {capture, [s \in Store |-> NoCapture]}
                   /\ worker' \in {worker, [w \in Worker |-> Idle]}
<1>1. Calm
  <2>1. ASSUME NEW slot \in Slot, NEW m \in Moment, ScheduleDies(a, slot, m) PROVE Calm
    BY <2>1 DEF ScheduleDies, Dies
  <2>2. ASSUME NEW slot \in Slot, NEW m \in Moment, NEW ok \in BOOLEAN, Schedule(a, slot, m, ok)
        PROVE  Calm
    BY <2>2 DEF Schedule
  <2>3. ASSUME NEW replace \in BOOLEAN, NEW ok \in BOOLEAN, Read(a, replace, ok) PROVE Calm
    BY <2>3 DEF Read
  <2>4. ASSUME NEW s \in Store, Cancel(a, s) PROVE Calm
    BY <2>4 DEF Cancel
  <2>5. ASSUME NEW s \in Store, UnscheduleAutomatic(a, s) PROVE Calm
    BY <2>5 DEF UnscheduleAutomatic
  <2>6. ASSUME NEW reviewed, ClearCompleted(a, reviewed) PROVE Calm
    BY <2>6 DEF ClearCompleted
  <2> QED BY <2>1, <2>2, <2>3, <2>4, <2>5, <2>6 DEF Calls
<1> QED BY <1>1, CalmDeliveries

LEMMA QuietDeliver ==
  ASSUME IInv, Kept,
         \/ \E ok \in BOOLEAN : Restore(ok) \/ \E s \in Store : AlarmFails(s, ok)
         \/ \E granted \in BOOLEAN : Permission(granted)
         \/ \E a \in Account : SignIn(a)
         \/ Deactivate \/ SignOut \/ Die \/ Reboot \/ ClearDies \/ UNCHANGED vars
  PROVE  DeliveryMoves
<1> DEFINE Calm == /\ UNCHANGED <<now, doc, stray, answered>>
                   /\ capture' \in {capture, [s \in Store |-> NoCapture]}
                   /\ worker' \in {worker, [w \in Worker |-> Idle]}
<1>1. ASSUME NEW ok \in BOOLEAN, Restore(ok) PROVE Calm
  BY <1>1 DEF Restore
<1>2. ASSUME NEW ok \in BOOLEAN, NEW s \in Store, AlarmFails(s, ok) PROVE Calm
  BY <1>2 DEF AlarmFails
<1>3. ASSUME NEW granted \in BOOLEAN, Permission(granted) PROVE Calm
  BY <1>3 DEF Permission
<1>4. ASSUME NEW a \in Account, SignIn(a) PROVE Calm
  BY <1>4 DEF SignIn
<1>5. ASSUME Deactivate \/ SignOut PROVE Calm
  BY <1>5 DEF Deactivate, SignOut
<1>6. ASSUME Die \/ Reboot \/ ClearDies PROVE Calm
  BY <1>6 DEF Die, Reboot, ClearDies, Dies
<1>7. ASSUME UNCHANGED vars PROVE Calm
  BY <1>7 DEF vars
<1>8. Calm
  BY <1>1, <1>2, <1>3, <1>4, <1>5, <1>6, <1>7
<1> QED BY <1>8, CalmDeliveries

(* What an alarm starts has not been delivered: the report was still to be *)
(* captured, and the server answers for settled reports alone.             *)
LEMMA AlarmDelivers ==
  ASSUME IInv, Kept, NEW s \in Store, NEW status \in {"running", "failed"},
         AlarmRings(s, status)
  PROVE  DeliveryMoves
<1> DEFINE c == [device EXCEPT !.alarms = device.alarms \ {s}]
           d == ReconcileOnly(c, {s} \cap device.index)
           r == d.report[s]
           snap == [[r EXCEPT !.rung = TRUE] EXCEPT !.status = status]
           starts == s \in d.index /\ r.owner = d.account /\ r.status = "scheduled"
<1>1. Steps(device, c) /\ Good(c) /\ c.index = device.index
  <2>1. device.alarms \ {s} \subseteq Store
    BY Known DEF Good, Device
  <2> QED BY <2>1, Known, AlarmsGiven DEF Steps, Keeps
<1>2. /\ UNCHANGED <<now, doc, stray, answered, worker>>
      /\ \/ capture' = capture
         \/ starts /\ capture' = [capture EXCEPT ![s] = [pc |-> "save", snap |-> snap]]
  BY DEF AlarmRings
<1> HIDE DEF c
<1>3. Steps(device, d) /\ Good(d)
  <2>1. {s} \cap device.index \subseteq c.index
    BY <1>1
  <2>2. Steps(c, d)
    BY <1>1, <2>1, ReconcileOnlySteps
  <2> HIDE DEF d
  <2> QED BY <1>1, <2>2, StepsOn DEF Steps
<1> HIDE DEF d
<1>4. CASE capture' = capture
  BY <1>2, <1>4, CalmDeliveries
<1>5. CASE starts /\ capture' = [capture EXCEPT ![s] = [pc |-> "save", snap |-> snap]]
  <2>1. r \in Checkpoint /\ r # NoReportYet /\ r.status = "scheduled"
    BY <1>3, <1>5, StoredReport
  <2>2. s \in device.index /\ KeptAt(device.report[s], r, s)
    BY <1>3, <1>5, <2>1 DEF Steps, Follows, FollowsAt
  <2>3. ~Settled(device.report[s])
    BY <2>1, <2>2 DEF KeptAt, SameReport, Settled, Active
  <2>4. s \notin answered /\ ~Acknowledged(device.report[s])
    BY <2>2, <2>3 DEF IInv, Deliveries, ReportsTruthful, Truthful
  <2>5. ~Acknowledged(r)
    BY <2>2, <2>4 DEF KeptAt
  <2> HIDE DEF r
  <2>6. /\ snap \in Checkpoint /\ snap.status # "succeeded" /\ snap.delivery = r.delivery
    BY <2>1 DEF Checkpoint, Status, Active
  <2>7. Capturable(snap)
    BY <2>5, <2>6 DEF Capturable, Acknowledged
  <2>8. capture \in [Store -> {NoCapture} \cup Capture]
    BY Known DEF RestTypeOK
  <2> DEFINE new == [pc |-> "save", snap |-> snap]
  <2>9. new.snap = snap /\ capture' = [capture EXCEPT ![s] = new]
    BY <1>5
  <2> HIDE DEF new, snap
  <2>10. capture'[s].snap = snap /\ \A t \in Store \ {s} : capture'[t] = capture[t]
    BY <2>8, <2>9
  <2> QED BY <1>2, <2>6, <2>7, <2>10, CaptureDeliveries
<1> QED BY <1>2, <1>4, <1>5

LEMMA CaptureSavesDelivers ==
  ASSUME IInv, Kept, NEW s \in Store, NEW ok \in BOOLEAN, CaptureSaves(s, ok)
  PROVE  DeliveryMoves
<1> DEFINE snap == capture[s].snap
           next == IF snap.status = "running"
                   THEN [pc |-> "locating", snap |-> snap] ELSE NoCapture
<1>1. /\ UNCHANGED <<now, doc, stray, answered, worker>>
      /\ capture[s].pc = "save" /\ capture' = [capture EXCEPT ![s] = next]
  BY DEF CaptureSaves
<1>2. capture \in [Store -> {NoCapture} \cup Capture]
  BY Known DEF RestTypeOK
<1>3. capture[s] # NoCapture /\ snap \in Checkpoint
  BY <1>1, <1>2 DEF NoCapture, Capture
<1>4. Capturable(snap)
  BY <1>3 DEF IInv, Deliveries, CapturesSound
<1>5. next = NoCapture \/ next.snap = snap
  OBVIOUS
<1> HIDE DEF next, snap
<1>6. /\ capture'[s] = NoCapture \/ capture'[s].snap = snap
      /\ \A t \in Store \ {s} : capture'[t] = capture[t]
  BY <1>1, <1>2, <1>5
<1> QED BY <1>1, <1>3, <1>4, <1>6, CaptureDeliveries

(* A fix is classified in its window alone. *)
LEMMA CaptureEndsDelivers ==
  ASSUME IInv, Kept, NEW s \in Store, NEW status \in {"succeeded", "failed"},
         NEW ping \in Fixes \cup {"indisponivel"}, CaptureEnds(s, status, ping)
  PROVE  DeliveryMoves
<1> DEFINE snap == capture[s].snap
           fix == [snap EXCEPT !.captured = now]
           placed == [fix EXCEPT !.status = status, !.ping = ping]
           late == [fix EXCEPT !.status = status]
           lost == [snap EXCEPT !.status = status]
<1>1. /\ UNCHANGED <<now, doc, stray, answered, worker>> /\ capture[s].pc = "locating"
  BY DEF CaptureEnds
<1>2. capture \in [Store -> {NoCapture} \cup Capture]
  BY Known DEF RestTypeOK
<1>3. capture[s] # NoCapture /\ snap \in Checkpoint
  BY <1>1, <1>2 DEF NoCapture, Capture
<1>4. Capturable(snap)
  BY <1>3 DEF IInv, Deliveries, CapturesSound
<1>5. now \in 0..MAXTIME /\ now \in Nat
  BY Known, BoundsAssumption DEF RestTypeOK
<1>6. PICK q \in {placed, late, lost} :
        /\ capture' = [capture EXCEPT ![s] = [pc |-> "save", snap |-> q]]
        /\ q = placed /\ status = "succeeded" => ~Late(snap, now)
        /\ q # placed => status = "failed"
  BY DEF CaptureEnds
<1> HIDE DEF snap
<1>7. fix \in Checkpoint /\ SamePlan(snap, fix) /\ fix.delivery = snap.delivery /\ fix.captured = now
  BY <1>3, <1>5 DEF Checkpoint, SamePlan
<1>8. status \in Status /\ ping \in Ping
  BY FixesAssumption DEF Status, Ping
<1> HIDE DEF fix
<1>9. q \in Checkpoint /\ q.delivery = snap.delivery /\ q.status = status
  BY <1>3, <1>6, <1>7, <1>8 DEF Checkpoint
<1>10. q = placed => SamePlan(snap, q) /\ q.captured = now
  BY <1>7 DEF Checkpoint, SamePlan
<1> HIDE DEF placed, late, lost
<1>11. ASSUME q.status = "succeeded" PROVE InWindow(q)
  <2>1. q = placed /\ ~Late(snap, now)
    BY <1>6, <1>9, <1>11
  <2>2. snap.slot \in Slot /\ snap.moment \in Moment
    BY <1>3 DEF Checkpoint
  <2>3. Expected(snap.slot)[snap.moment] \in Int /\ snap.slot.end \in Int /\ WINDOW \in Int
    BY <2>2, SlotAssumption, WindowAssumption DEF Expected, Moment
  <2>4. Expected(q.slot)[q.moment] = Expected(snap.slot)[snap.moment] /\ q.slot = snap.slot
        /\ q.captured = now
    BY <1>10, <2>1 DEF SamePlan
  <2> QED BY <1>5, <2>1, <2>3, <2>4 DEF Late, InWindow
<1>12. Capturable(q)
  BY <1>4, <1>9, <1>11 DEF Capturable, Acknowledged
<1> DEFINE new == [pc |-> "save", snap |-> q]
<1>13. new.snap = q /\ capture' = [capture EXCEPT ![s] = new]
  BY <1>6
<1> HIDE DEF new
<1>14. capture'[s].snap = q /\ \A t \in Store \ {s} : capture'[t] = capture[t]
  BY <1>2, <1>13
<1> QED BY <1>1, <1>9, <1>12, <1>14, CaptureDeliveries

(* After reconcile, what is not settled may still be captured. *)
LEMMA StillOpen ==
  ASSUME NEW c, Good(c), NEW s \in c.index, ~Settled(Reconcile(c).report[s])
  PROVE  LET r == Reconcile(c).report[s]
         IN  /\ ~(now >= r.slot.end)
             /\ ~(now > Expected(r.slot)[r.moment] + WINDOW)
<1>1. c \in Device /\ s \in Store /\ c.report[s] # NoReportYet /\ c.report[s] \in Checkpoint
  BY DEF Good, Device
<1>2. Reconcile(c).report[s] =
        IF Hopeless(c.report[s], now) THEN Fail(c.report[s]) ELSE c.report[s]
  BY <1>1 DEF Reconcile, ReconcileOnly, Device
<1>3. Settled(Fail(c.report[s]))
  BY <1>1 DEF Fail, Checkpoint, Settled, Active
<1> QED BY <1>2, <1>3 DEF Hopeless

PartOf(s, r) == [id |-> s, status |-> r.status, ping |-> r.ping, captured |-> r.captured]

(* What a job holds is what its worker sees again, in a new look.          *)
LEMMA CheckedIsClosed ==
  ASSUME IInv, NEW w \in Worker, worker[w] \in Job, JobSound(worker[w]),
         Payload(SameRevision(Reconcile(device), worker[w].owner, worker[w].slot))
           = worker[w].body
  PROVE  ~Unfinished(worker[w])
<1> DEFINE d == Reconcile(device)
           j == worker[w]
           seen == SameRevision(d, j.owner, j.slot)
<1> SUFFICES ASSUME NEW m \in Moment, NEW x \in j.body[m], x.status \in Active
             PROVE  FALSE
  BY DEF Unfinished
<1>1. Good(device) /\ Good(d) /\ d.index = device.index
  BY Known, ReconcileSteps DEF Steps, Keeps
<1>2. PICK s \in Latest(seen, m) : x = PartOf(s, seen[s])
  BY DEF Payload, PartOf
<1>3. /\ s \in device.index /\ s \in d.index /\ seen[s] = d.report[s]
      /\ d.report[s].slot = j.slot /\ d.report[s].moment = m
  BY <1>1, <1>2 DEF Latest, SameRevision
<1>4. ~Settled(d.report[s])
  BY <1>2, <1>3 DEF PartOf, Settled
<1>5. ~Over(j.slot, m)
  BY <1>1, <1>3, <1>4, StillOpen DEF Over
<1> QED BY <1>5 DEF JobSound, PartSound

LEMMA WorkersDeliver ==
  ASSUME IInv, Kept, NEW w \in Worker,
         \/ WorkChecks(w) \/ WorkRecords(w)
         \/ \E onItsWay \in BOOLEAN : WorkFails(w, onItsWay)
  PROVE  DeliveryMoves
<1> DEFINE sent == [worker[w] EXCEPT !.pc = "http"]
           Ends(k) == /\ worker' = [worker EXCEPT ![w] = k] /\ StrayMoves
                      /\ UNCHANGED <<now, doc, answered, capture>>
<1>1. worker[w] # Idle
  BY DEF WorkChecks, WorkRecords, WorkFails, Idle
<1>2. worker[w] \in Job
  BY <1>1, AtWork
<1>3. JobSound(worker[w])
  BY <1>1 DEF IInv, Deliveries, JobsOK, WorkerOK
<1>4. ASSUME WorkChecks(w)
      PROVE  Ends(Idle) \/ (Ends(sent) /\ SameJob(worker[w], sent))
  <2>1. CASE Ends(Idle)
    BY <2>1
  <2>2. CASE /\ Ends(sent)
             /\ Payload(SameRevision(Reconcile(device), worker[w].owner, worker[w].slot))
                  = worker[w].body
    <3>1. ~Unfinished(worker[w])
      BY <1>2, <1>3, <2>2, CheckedIsClosed
    <3> QED BY <1>2, <2>2, <3>1 DEF SameJob, Job
  <2> QED BY <1>4, <2>1, <2>2 DEF WorkChecks, StrayMoves
<1>5. ASSUME WorkRecords(w) PROVE Ends(Idle)
  BY <1>5 DEF WorkRecords, StrayMoves
<1>6. ASSUME NEW onItsWay \in BOOLEAN, WorkFails(w, onItsWay) PROVE Ends(Idle)
  BY <1>1, <1>6 DEF WorkFails, StrayMoves
<1>7. Ends(Idle) \/ (Ends(sent) /\ SameJob(worker[w], sent))
  BY <1>4, <1>5, <1>6
<1> HIDE DEF sent
<1> QED BY <1>1, <1>7, WorkerDeliveries

(* What the server makes of the evidence of a job. *)
LEMMA PartChosen ==
  ASSUME NEW j \in Job, NEW m \in Moment
  PROVE  ReportOf(j.slot, m, j.body[m]).ping \in Ping
<1>1. j.body[m] \subseteq Part
  BY DEF Job
<1>2. CASE j.body[m] = {}
  BY <1>2 DEF ReportOf, NoReport, Ping
<1>3. CASE j.body[m] # {}
  <2> DEFINE r == CHOOSE x \in j.body[m] : TRUE
  <2>1. r \in Part
    BY <1>1, <1>3
  <2>2. ReportOf(j.slot, m, j.body[m]).ping =
          IF r.status = "succeeded" THEN r.ping ELSE "indisponivel"
    BY <1>3 DEF ReportOf
  <2> HIDE DEF r
  <2> QED BY <2>1, <2>2 DEF Part, Ping
<1> QED BY <1>2, <1>3

LEMMA VerdictType ==
  ASSUME NEW j \in Job, NEW slot \in Slot
  PROVE  LET v == Verdict(slot, EvidenceOf(j), now)
         IN  /\ v.first \in Ping /\ v.second \in Ping
             /\ v.status \in Situation /\ v.absences \in Int
<1> DEFINE e == EvidenceOf(j)
           first == Trusted(slot, Expected(slot).first, e.first, now)
           second == Trusted(slot, Expected(slot).second, e.second, now)
           status == Classify(slot.calls, first, second)
<1>1. /\ e.first = ReportOf(j.slot, "first", j.body["first"])
      /\ e.second = ReportOf(j.slot, "second", j.body["second"])
  BY DEF EvidenceOf
<1>2. e.first.ping \in Ping /\ e.second.ping \in Ping
  BY <1>1, PartChosen DEF Moment
<1> HIDE DEF e
<1>3. first \in Ping /\ second \in Ping
  BY <1>2 DEF Trusted, Ping
<1>4. /\ Verdict(slot, e, now).first = first /\ Verdict(slot, e, now).second = second
      /\ Verdict(slot, e, now).status = status
      /\ Verdict(slot, e, now).absences = Absences(slot.lessons, slot.calls, status)
  BY DEF Verdict
<1> HIDE DEF first, second
<1>5. status \in Situation
  BY DEF Classify, ByPattern, Situation
<1> HIDE DEF status
<1>6. slot.lessons \in {1, 2, 4}
  BY SlotAssumption
<1>7. Absences(slot.lessons, slot.calls, status) \in Int
  BY <1>6 DEF Absences, Unset
<1> QED BY <1>3, <1>4, <1>5, <1>7 DEF e

(* What it writes, and when: only over a session nobody decided. *)
LEMMA Writes ==
  ASSUME IInv, NEW j \in Job, Answer(j) = "applied"
  PROVE  LET old == doc[j.owner]
             v == Verdict(old.slot, EvidenceOf(j), now)
         IN  /\ old # NoDoc /\ old \in Doc /\ old.slot = j.slot
             /\ old.first = None /\ old.second = None
             /\ Decided(j) = [doc EXCEPT ![j.owner] =
                  [old EXCEPT !.first = v.first, !.second = v.second,
                              !.status = v.status, !.absences = v.absences]]
<1> DEFINE old == doc[j.owner]
<1>1. j.owner \in Account /\ doc \in [Account -> Doc \cup {NoDoc}]
  BY DEF Job, IInv, Deliveries, DocOK
<1>2. old # NoDoc /\ Outcome(old, EvidenceOf(j), now) = "applied"
  BY DEF Answer
<1>3. old \in Doc
  BY <1>1, <1>2
<1>4. EvidenceOf(j).slot = j.slot
  BY DEF EvidenceOf
<1> HIDE DEF old
<1>5. old.slot = j.slot /\ old.first = None /\ old.second = None
  BY <1>2, <1>4 DEF Outcome
<1> QED BY <1>2, <1>3, <1>5 DEF old, Decided

LEMMA Deciding ==
  ASSUME IInv, NEW j \in Job, doc' = Decided(j)
  PROVE  DocMoves
<1>1. CASE Answer(j) # "applied"
  BY <1>1, DocRests DEF Decided
<1>2. CASE Answer(j) = "applied"
  <2> DEFINE old == doc[j.owner]
             v == Verdict(old.slot, EvidenceOf(j), now)
             new == [old EXCEPT !.first = v.first, !.second = v.second,
                                !.status = v.status, !.absences = v.absences]
  <2>1. /\ old # NoDoc /\ old \in Doc /\ old.first = None /\ old.second = None
        /\ doc' = [doc EXCEPT ![j.owner] = new]
    BY <1>2, Writes
  <2>2. /\ v.first \in Ping /\ v.second \in Ping
        /\ v.status \in Situation /\ v.absences \in Int
    <3>1. old.slot \in Slot
      BY <2>1 DEF Doc
    <3> HIDE DEF old
    <3> QED BY <3>1, VerdictType
  <2>3. doc \in [Account -> Doc \cup {NoDoc}]
    BY DEF IInv, Deliveries, DocOK
  <2> HIDE DEF old, v
  <2>4. new \in Doc /\ new.slot = old.slot /\ new.moved = old.moved
    BY <2>1, <2>2 DEF Doc
  <2> HIDE DEF new
  <2>5. DocOK'
    BY <2>1, <2>3, <2>4 DEF DocOK
  <2>6. ASSUME NEW a \in Account, NEW slot \in Slot, NEW m \in Moment, NEW ping \in Ping,
               Agreed(a, slot, m, ping)
        PROVE  Agreed(a, slot, m, ping)'
    <3>1. CASE a # j.owner
      BY <2>1, <2>3, <2>6, <3>1 DEF Agreed
    <3>2. CASE a = j.owner
      <4>1. old[m] # ping
        BY <2>1 DEF Moment, None, Ping
      <4>2. old.slot # slot /\ old.moved
        BY <2>1, <2>6, <3>2, <4>1 DEF Agreed, old
      <4>3. doc'[a] = new
        BY <2>1, <2>3, <3>2
      <4> QED BY <2>4, <4>2, <4>3 DEF Agreed
    <3> QED BY <3>1, <3>2
  <2> QED BY <2>5, <2>6 DEF DocMoves
<1> QED BY <1>1, <1>2

(* What its answer says: a ping of the window is in the session now. *)
LEMMA Agreeing ==
  ASSUME IInv, NEW j \in Job, JobSound(j), doc' = Decided(j),
         Answer(j) \in {"applied", "already_applied"},
         NEW m \in Moment, NEW x \in j.body[m], x.status = "succeeded"
  PROVE  doc'[j.owner].slot = j.slot /\ doc'[j.owner][m] = x.ping
<1> DEFINE old == doc[j.owner]
           e == EvidenceOf(j)
           v == Verdict(old.slot, e, now)
           r == ReportOf(j.slot, m, j.body[m])
<1>1. j.owner \in Account /\ doc \in [Account -> Doc \cup {NoDoc}]
  BY DEF Job, IInv, Deliveries, DocOK
<1>2. old # NoDoc /\ Outcome(old, e, now) = Answer(j) /\ old \in Doc
  <2>1. old # NoDoc /\ Outcome(old, e, now) = Answer(j)
    BY DEF Answer
  <2> QED BY <1>1, <2>1
<1>3. e.slot = j.slot
  BY DEF EvidenceOf
<1>4. old.slot = j.slot
  <2> HIDE DEF old, e
  <2> QED BY <1>2, <1>3 DEF Outcome
<1>5. r = [ping |-> x.ping, expected |-> Expected(j.slot)[m], captured |-> x.captured]
  <2>1. \A y \in j.body[m] : y = x
    BY DEF JobSound
  <2>2. (CHOOSE y \in j.body[m] : TRUE) = x
    BY <2>1
  <2> QED BY <2>2 DEF ReportOf
<1>6. PartSound(x, j.slot, m) /\ now \in Nat /\ SKEW \in Nat /\ x.captured \in Int
  BY Known, WindowAssumption, BoundsAssumption
     DEF JobSound, RestTypeOK, Job, Part, Unset
<1>7. Trusted(j.slot, Expected(j.slot)[m], r, now) = x.ping
  BY <1>5, <1>6 DEF Trusted, PartSound
<1>8. v[m] = x.ping
  <2>1. m = "first" => v[m] = Trusted(j.slot, Expected(j.slot).first, e.first, now)
                       /\ e.first = r /\ Expected(j.slot)[m] = Expected(j.slot).first
    BY <1>4 DEF Verdict, EvidenceOf, Expected
  <2>2. m = "second" => v[m] = Trusted(j.slot, Expected(j.slot).second, e.second, now)
                        /\ e.second = r /\ Expected(j.slot)[m] = Expected(j.slot).second
    BY <1>4 DEF Verdict, EvidenceOf, Expected
  <2> HIDE DEF v, r, e
  <2> QED BY <1>7, <2>1, <2>2 DEF Moment
<1>9. CASE Answer(j) = "already_applied"
  <2>1. doc' = doc
    BY <1>9 DEF Decided
  <2>2. old.first = v.first /\ old.second = v.second
    <3> HIDE DEF old, e
    <3> QED BY <1>2, <1>9 DEF Outcome
  <2> HIDE DEF v
  <2> QED BY <1>4, <1>8, <2>1, <2>2 DEF Moment
<1>10. CASE Answer(j) = "applied"
  <2> DEFINE new == [old EXCEPT !.first = v.first, !.second = v.second,
                                !.status = v.status, !.absences = v.absences]
  <2>1. doc' = [doc EXCEPT ![j.owner] = new]
    BY <1>10, Writes
  <2> HIDE DEF old, v
  <2>2. new.slot = old.slot /\ new[m] = v[m]
    BY <1>2 DEF Doc, Moment
  <2> HIDE DEF new
  <2> QED BY <1>1, <1>4, <1>8, <2>1, <2>2
<1> QED BY <1>9, <1>10

LEMMA ServeDelivers ==
  ASSUME IInv, Kept, NEW w \in Worker, Serve(w) PROVE DeliveryMoves
<1> DEFINE j == worker[w]
           k == [[j EXCEPT !.pc = "answered"] EXCEPT !.answer = Answer(j)]
           told == {s \in j.known : /\ device.report[s] # NoReportYet
                                    /\ KeyOf(device.report[s]) = KeyOfWorker(w)}
<1>1. worker[w] # Idle /\ j.pc = "http"
  BY DEF Serve, Idle
<1>2. /\ UNCHANGED <<now, device, used, capture, stray>> /\ doc' = Decided(j)
      /\ worker' = [worker EXCEPT ![w].pc = "answered", ![w].answer = Answer(j)]
      /\ answered' = IF Answer(j) \in Terminal THEN answered \cup told ELSE answered
  BY DEF Serve
<1>3. j \in Job /\ worker \in [Worker -> {Idle} \cup Job]
  BY <1>1, AtWork, Known DEF RestTypeOK
<1>4. /\ JobSound(j) /\ JobKnows(device, j) /\ JobAnswered(j)
      /\ \A s \in j.known : s <= used
      /\ ~Unfinished(j) /\ \A m \in Moment : ~OpenIn(j, m)
  BY <1>1 DEF IInv, Deliveries, JobsOK, WorkerOK, Unfinished, OpenIn
<1>5. DocMoves
  BY <1>2, <1>3, Deciding
<1>6. CapturesMove
  BY <1>2 DEF CapturesMove
<1>7. StrayMoves
  BY <1>2 DEF StrayMoves
<1>8. told \cap device.index = Told(device, j.owner, j.slot, j.known)
  BY Known DEF Told, KeyOfWorker, Good
<1>9. AnsweredMoves
  <2>1. \A s \in told : s <= used /\ (s \in device.index => Settled(device.report[s]))
    <3>1. \A s \in device.index : device.report[s].moment \in Moment
      BY Known DEF Good, Device, Checkpoint
    <3> QED BY <1>4, <1>8, <3>1 DEF JobKnows, Told
  <2> HIDE DEF told
  <2> QED BY <1>2, <2>1 DEF AnsweredMoves
<1>10. worker' = [worker EXCEPT ![w] = k]
  BY <1>2, <1>3
<1>11. /\ k.owner = j.owner /\ k.slot = j.slot /\ k.known = j.known
       /\ k.body = j.body /\ k.answer = Answer(j)
  BY <1>3 DEF Job
<1>12. Answer(j) \in Terminal => Told(device, j.owner, j.slot, j.known) \subseteq answered'
  BY <1>2, <1>8
<1> HIDE DEF k, told
<1>13. worker'[w] = k
  BY <1>3, <1>10
<1>14. WorkerOK(w)'
  <2>1. JobSound(worker[w])'
    BY <1>2, <1>4, <1>11, <1>13 DEF JobSound, PartSound, Over
  <2>2. JobKnows(device', k)
    BY <1>2, <1>4, <1>11 DEF JobKnows, Sent, OpenIn
  <2>3. k.answer \in Terminal => Told(device', k.owner, k.slot, k.known) \subseteq answered'
    BY <1>2, <1>11, <1>12
  <2>4. ASSUME k.answer \in {"applied", "already_applied"}, NEW m \in Moment,
               NEW x \in k.body[m], x.status = "succeeded"
        PROVE  Agreed(worker[w].owner, worker[w].slot, m, x.ping)'
    <3>1. doc'[j.owner].slot = j.slot /\ doc'[j.owner][m] = x.ping
      BY <1>2, <1>3, <1>4, <1>11, <2>4, Agreeing
    <3> QED BY <1>11, <1>13, <3>1 DEF Agreed
  <2>5. JobAnswered(worker[w])'
    BY <1>13, <2>3, <2>4 DEF JobAnswered
  <2> QED BY <1>2, <1>4, <1>11, <1>13, <2>1, <2>2, <2>5 DEF WorkerOK, Unfinished
<1>15. WorkersMove
  <2> SUFFICES ASSUME NEW v \in Worker, worker'[v] # Idle
               PROVE  \/ worker[v] # Idle /\ SameJob(worker[v], worker'[v])
                      \/ WorkerOK(v)'
    BY DEF WorkersMove
  <2>1. CASE v = w
    BY <2>1, <1>14
  <2>2. CASE v # w
    BY <2>2, <1>3, <1>10 DEF SameJob
  <2> QED BY <2>1, <2>2
<1>16. RestTypeOK'
  BY DEF Kept
<1> QED BY <1>2, <1>5, <1>6, <1>7, <1>9, <1>15, <1>16, Clock DEF DeliveryMoves

(* The server alone moves: a stray request, an edit. *)
LEMMA ServerDelivers ==
  ASSUME IInv, Kept, DocMoves, UNCHANGED <<now, capture, worker, answered>>,
         stray' \in {stray, Idle}
  PROVE  DeliveryMoves
<1>1. CapturesMove /\ WorkersMove /\ StrayMoves /\ AnsweredMoves
  BY DEF CapturesMove, WorkersMove, SameJob, StrayMoves, AnsweredMoves
<1> QED BY <1>1, Clock DEF DeliveryMoves, Kept

LEMMA ServeStrayDelivers == ASSUME IInv, Kept, ServeStray PROVE DeliveryMoves
<1>1. stray \in Job
  BY Known DEF ServeStray, RestTypeOK
<1>2. DocMoves
  BY <1>1, Deciding DEF ServeStray
<1> QED BY <1>2, ServerDelivers DEF ServeStray

Marked(old) == [old EXCEPT !.status = "presente", !.absences = 0]
MovedTo(slot) == [Blank(slot) EXCEPT !.moved = TRUE]

LEMMA BlankType ==
  ASSUME NEW slot \in Slot PROVE Blank(slot) \in Doc /\ Blank(slot).slot = slot
<1>1. Unset \in Int
  BY DEF Unset
<1> QED BY <1>1, Zenon DEF Blank, Doc, CalendarStatus

LEMMA Edited ==
  ASSUME NEW old \in Doc, NEW slot \in Slot
  PROVE  /\ Marked(old) \in Doc /\ Marked(old).slot = old.slot
         /\ Marked(old).moved = old.moved
         /\ Marked(old).first = old.first /\ Marked(old).second = old.second
         /\ MovedTo(slot) \in Doc /\ MovedTo(slot).slot = slot /\ MovedTo(slot).moved
<1>1. MovedTo(slot) = [Blank(slot) EXCEPT !.moved = TRUE]
  BY DEF MovedTo
<1>2. Blank(slot) \in Doc /\ Blank(slot).slot = slot
  BY BlankType
<1>3. MovedTo(slot) \in Doc /\ MovedTo(slot).slot = slot /\ MovedTo(slot).moved
  BY <1>1, <1>2 DEF Doc
<1>4. "presente" \in Situation /\ 0 \in Int
  BY DEF Situation
<1>5. Marked(old) \in Doc
  BY <1>4 DEF Marked, Doc
<1>6. /\ Marked(old).slot = old.slot /\ Marked(old).moved = old.moved
      /\ Marked(old).first = old.first /\ Marked(old).second = old.second
  BY DEF Marked, Doc
<1> QED BY <1>3, <1>5, <1>6

LEMMA ServerEditDelivers ==
  ASSUME IInv, Kept, NEW a \in Account, ServerEdit(a) PROVE DeliveryMoves
<1> DEFINE old == doc[a]
           marked == Marked(old)
<1>1. PICK new \in {NoDoc, marked} \cup {MovedTo(slot) : slot \in Slot \ {old.slot}} :
        /\ new # NoDoc /\ old.moved => new.slot = old.slot
        /\ doc' = [doc EXCEPT ![a] = new]
  BY DEF ServerEdit, Marked, MovedTo
<1>2. old # NoDoc /\ UNCHANGED <<now, capture, worker, answered, stray>>
  BY DEF ServerEdit
<1>3. doc \in [Account -> Doc \cup {NoDoc}]
  BY DEF IInv, Deliveries, DocOK
<1>4. old \in Doc
  BY <1>2, <1>3
<1> HIDE DEF old
<1>5. marked \in Doc /\ marked.slot = old.slot /\ marked.moved = old.moved
      /\ marked.first = old.first /\ marked.second = old.second
  <2>1. old.slot \in Slot
    BY <1>4 DEF Doc
  <2> QED BY <1>4, <2>1, Edited
<1>6. \A slot \in Slot : /\ MovedTo(slot) \in Doc
                        /\ MovedTo(slot).slot = slot /\ MovedTo(slot).moved
  BY <1>4, Edited
<1> HIDE DEF marked
<1>7. new \in Doc \cup {NoDoc}
  BY <1>5, <1>6
<1>8. DocOK'
  BY <1>1, <1>3, <1>7 DEF DocOK
<1>9. ASSUME NEW b \in Account, NEW slot \in Slot, NEW m \in Moment, NEW ping \in Ping,
             Agreed(b, slot, m, ping)
      PROVE  Agreed(b, slot, m, ping)'
  <2>1. CASE b # a
    BY <1>1, <1>3, <1>9, <2>1 DEF Agreed
  <2>2. CASE b = a
    <3>1. doc'[b] = new
      BY <1>1, <1>3, <2>2
    <3>2. CASE new = NoDoc
      BY <3>1, <3>2 DEF Agreed
    <3>3. CASE new = marked
      <4>1. new[m] = old[m]
        BY <1>5, <3>3 DEF Moment
      <4> QED BY <1>2, <1>5, <1>9, <2>2, <3>1, <3>3, <4>1 DEF Agreed, old
    <3>4. CASE new # NoDoc /\ new \in {MovedTo(s) : s \in Slot \ {old.slot}}
      <4>1. new.moved /\ new.slot # old.slot
        BY <1>6, <3>4
      <4>2. ~old.moved
        BY <1>1, <3>4, <4>1
      <4>3. old.slot = slot
        BY <1>2, <1>9, <2>2, <4>2 DEF Agreed, old
      <4> QED BY <3>1, <4>1, <4>3 DEF Agreed
    <3> QED BY <3>2, <3>3, <3>4
  <2> QED BY <2>1, <2>2
<1> QED BY <1>2, <1>8, <1>9, ServerDelivers DEF DocMoves

LEMMA TickDelivers == ASSUME IInv, Kept, Tick PROVE DeliveryMoves
<1>1. CapturesMove /\ WorkersMove /\ StrayMoves /\ AnsweredMoves
  BY DEF Tick, CapturesMove, WorkersMove, SameJob, StrayMoves, AnsweredMoves
<1>2. now \in Nat /\ now' = now + 1
  BY Known, BoundsAssumption DEF Tick, RestTypeOK
<1> QED BY <1>1, <1>2, DocRests DEF DeliveryMoves, Tick

(* The reports that a worker reads are truthful, and a later one of a      *)
(* moment leaves the earlier ones settled.                                 *)
LEMMA ReadsTruth ==
  ASSUME IInv, NEW d, Steps(device, d)
  PROVE  /\ \A s \in d.index : /\ s \in Store /\ s <= used /\ d.report[s] \in Checkpoint
                               /\ Truthful(d.report[s], s)
         /\ \A s, t \in d.index : s < t => Superseding(d.report[s], d.report[t])
<1>1. ASSUME NEW s \in d.index
      PROVE  /\ s \in Store /\ s \in device.index /\ d.report[s] \in Checkpoint
             /\ KeptAt(device.report[s], d.report[s], s)
  <2>1. s \in Store /\ d.report[s] # NoReportYet /\ d.report[s] \in Checkpoint
    BY DEF Steps, Good, Device
  <2> QED BY <2>1 DEF Steps, Follows, FollowsAt
<1>2. ASSUME NEW s \in d.index PROVE s <= used /\ Truthful(d.report[s], s)
  <2>1. s <= used
    BY <1>1 DEF IInv, TypeOK
  <2>2. Truthful(device.report[s], s)
    BY <1>1 DEF IInv, Deliveries, ReportsTruthful
  <2> QED BY <1>1, <2>1, <2>2, TruthfulStays
<1>3. ASSUME NEW s \in d.index, NEW t \in d.index, s < t
      PROVE  Superseding(d.report[s], d.report[t])
  <2>1. Superseding(device.report[s], device.report[t])
    BY <1>1, <1>3 DEF IInv, Deliveries, LaterSupersede
  <2> QED BY <1>1, <2>1, SupersedingStays
<1> QED BY <1>1, <1>2, <1>3

(* A worker that does not wait has a job that is sound, and knows how each *)
(* report of its revision ended.                                           *)
LEMMA JobBegins ==
  ASSUME IInv, NEW d, Good(d), Steps(device, d), NEW a, a = d.account, NEW slot \in Slot,
         ~TooEarly(slot, SameRevision(d, a, slot)),
         NEW e, Good(e), Follows(d, e), NEW j, j.owner = a, j.slot = slot,
         j.known = {s \in d.index : d.report[s].owner = a},
         j.body = Payload(SameRevision(d, a, slot))
  PROVE  JobSound(j) /\ JobKnows(e, j) /\ \A s \in j.known : s <= used
<1> DEFINE seen == SameRevision(d, a, slot)
           same == {s \in d.index : d.report[s].owner = a /\ d.report[s].slot = slot}
<1>1. Steps(device, d) /\ Good(d) /\ d.account = a
  OBVIOUS
<1>2. \A s \in d.index : /\ s \in Store /\ s <= used /\ d.report[s] \in Checkpoint
                         /\ Truthful(d.report[s], s)
  BY <1>1, ReadsTruth
<1>3. \A s, t \in d.index : s < t => Superseding(d.report[s], d.report[t])
  BY <1>1, ReadsTruth
<1>5. DOMAIN seen = same /\ \A s \in same : seen[s] = d.report[s]
  BY <1>1 DEF SameRevision
<1>6. j.known = {s \in d.index : d.report[s].owner = a} /\ j.body = Payload(seen)
      /\ ~TooEarly(slot, seen) /\ Follows(d, e)
  OBVIOUS
<1>7. \A s \in same : s \in Nat /\ s \in d.index
  BY <1>2, StoreAssumption
<1> HIDE DEF seen
<1>8. ASSUME NEW m \in Moment
      PROVE  /\ Latest(seen, m) = {s \in same : /\ d.report[s].moment = m
                                                /\ \A t \in same : d.report[t].moment = m => t <= s}
             /\ j.body[m] = {PartOf(s, d.report[s]) : s \in Latest(seen, m)}
  <2>1. Latest(seen, m) = {s \in same : /\ d.report[s].moment = m
                                        /\ \A t \in same : d.report[t].moment = m => t <= s}
    BY <1>5 DEF Latest
  <2>2. j.body[m] = {PartOf(s, seen[s]) : s \in Latest(seen, m)}
    BY <1>6 DEF Payload, PartOf
  <2>3. \A s \in Latest(seen, m) : seen[s] = d.report[s]
    BY <1>5, <2>1
  <2> QED BY <2>1, <2>2, <2>3
<1> HIDE DEF same
<1>9. \A s \in same : s \in d.index /\ d.report[s].owner = a /\ d.report[s].slot = slot
  BY DEF same
<1>10. now \in Nat
  BY Known, BoundsAssumption DEF RestTypeOK
<1>11. ASSUME NEW m \in Moment, NEW s \in Latest(seen, m), ~Settled(d.report[s])
       PROVE  Over(slot, m)
  <2>1. s \in same /\ \A t \in Latest(seen, m) : t = s
    BY <1>7, <1>8
  <2>2. \A t \in Latest(seen, m) : ~Settled(seen[t])
    BY <1>5, <1>11, <2>1
  <2>3. Expected(slot)[m] \in Int /\ slot.end \in Int /\ WINDOW \in Int
    BY SlotAssumption, WindowAssumption DEF Expected, Moment
  <2> QED BY <1>6, <1>10, <2>2, <2>3 DEF TooEarly, Over
<1>12. ASSUME NEW m \in Moment, NEW x \in j.body[m]
       PROVE  PartSound(x, slot, m) /\ \A y \in j.body[m] : y = x
  <2>1. PICK s \in Latest(seen, m) : x = PartOf(s, d.report[s])
    BY <1>8
  <2>2. s \in same /\ d.report[s].moment = m /\ \A t \in Latest(seen, m) : t = s
    BY <1>7, <1>8
  <2>3. \A y \in j.body[m] : y = x
    BY <1>8, <2>1, <2>2
  <2>4. x.status = d.report[s].status /\ x.captured = d.report[s].captured
    BY <2>1 DEF PartOf
  <2>5. x.status \in Active => Over(slot, m)
    BY <1>11, <2>4 DEF Settled
  <2>6. x.status = "succeeded" => InWindow(d.report[s])
    BY <1>2, <1>9, <2>2, <2>4 DEF Truthful
  <2>7. d.report[s].slot = slot
    BY <1>9, <2>2
  <2> QED BY <2>2, <2>3, <2>4, <2>5, <2>6, <2>7 DEF PartSound, InWindow
<1>13. JobSound(j)
  BY <1>12 DEF JobSound
<1>14. ASSUME NEW s \in Told(e, j.owner, j.slot, j.known)
       PROVE  \/ OpenIn(j, e.report[s].moment)
              \/ /\ Settled(e.report[s])
                 /\ e.report[s].status = "succeeded" => Sent(e.report[s], j)
  <2> DEFINE r == d.report[s]
             q == e.report[s]
             m == r.moment
  <2>1. /\ s \in e.index /\ s \in d.index /\ s \in Store /\ r.owner = a
        /\ q # NoReportYet /\ KeyOf(q) = <<a, slot>>
    BY <1>2, <1>6 DEF Told, Good
  <2>2. KeptAt(r, q, s) /\ r \in Checkpoint /\ m \in Moment
    BY <1>2, <1>6, <2>1 DEF Follows, FollowsAt, Checkpoint
  <2>3. s \in same
    BY <2>1, <2>2 DEF same, KeptAt, SameReport, KeyOf
  <2>4. q.moment = m
    BY <2>2 DEF KeptAt, SameReport
  <2>5. CASE ~Settled(r) /\ s \in Latest(seen, m)
    <3>1. PartOf(s, r) \in j.body[m] /\ PartOf(s, r).status \in Active
      BY <1>8, <2>2, <2>5 DEF PartOf, Settled
    <3> QED BY <2>4, <3>1 DEF OpenIn
  <2>6. CASE Settled(r) \/ s \notin Latest(seen, m)
    <3>1. Settled(r) /\ (r.status = "succeeded" => s \in Latest(seen, m))
      <4>1. CASE s \in Latest(seen, m)
        BY <2>6, <4>1
      <4>2. CASE s \notin Latest(seen, m)
        <5>1. PICK t \in same : d.report[t].moment = m /\ ~(t <= s)
          BY <1>8, <2>2, <2>3, <4>2
        <5>2. s < t /\ t \in d.index /\ d.report[t].slot = r.slot
          BY <1>7, <1>9, <2>3, <5>1
        <5>3. Superseding(r, d.report[t])
          BY <1>3, <2>1, <5>2
        <5> QED BY <5>1, <5>2, <5>3 DEF Superseding
      <4> QED BY <4>1, <4>2
    <3>2. Settled(q) /\ (q.status = "succeeded" => Still(r, q))
      BY <2>2, <3>1 DEF KeptAt, SameReport
    <3>3. ASSUME q.status = "succeeded" PROVE Sent(q, j)
      <4>1. Still(r, q) /\ r.status = "succeeded"
        BY <3>2, <3>3 DEF Still
      <4>2. PartOf(s, r) \in j.body[m]
        BY <1>8, <2>2, <3>1, <4>1
      <4>3. PartOf(s, r).status = "succeeded" /\ PartOf(s, r).ping = q.ping
        BY <4>1 DEF PartOf, Still
      <4> QED BY <2>4, <4>2, <4>3 DEF Sent
    <3> QED BY <3>2, <3>3
  <2> QED BY <2>5, <2>6
<1>15. JobKnows(e, j)
  BY <1>14 DEF JobKnows
<1> QED BY <1>2, <1>6, <1>13, <1>15

LEMMA WorkStartsDelivers ==
  ASSUME IInv, Kept, NEW w \in Worker, NEW k \in Key, NEW S, WorkStarts(w, k, S)
  PROVE  DeliveryMoves
<1> DEFINE seed == device.report[device.work[k].store]
           begins == seed # NoReportYet /\ seed.owner = device.account
           c == [device EXCEPT !.work[k].by = w]
           d == ReconcileOnly(c, S)
           seen == SameRevision(d, seed.owner, seed.slot)
           known == {s \in d.index : d.report[s].owner = seed.owner}
           marked == Record(d, seed.owner, seed.slot, known, "sending")
           job == [pc |-> "identified", owner |-> seed.owner, slot |-> seed.slot,
                   known |-> known, body |-> Payload(seen), answer |-> None]
<1>1. UNCHANGED <<now, doc, stray, answered, capture, used>> /\ device.work[k] # NoWork
      /\ S \subseteq device.index
  BY DEF WorkStarts
<1>2. \/ worker' = worker
      \/ /\ begins /\ device' = marked /\ worker' = [worker EXCEPT ![w] = job]
         /\ ~TooEarly(seed.slot, seen)
  BY DEF WorkStarts
<1>3. CASE worker' = worker
  BY <1>1, <1>3, CalmDeliveries
<1>4. CASE /\ begins /\ device' = marked /\ worker' = [worker EXCEPT ![w] = job]
           /\ ~TooEarly(seed.slot, seen)
  <2>1. device.work[k] \in Work /\ device.work[k].store \in Store
    BY <1>1, Known DEF Good, Device, Work
  <2>2. Steps(device, c) /\ Good(c)
    BY <2>1, Known, WorkBy DEF Steps
  <2>3. c.account = device.account /\ c.index = device.index
    BY <2>2, Known DEF Steps, Good, Device
  <2>4. seed \in Checkpoint
    BY <1>4, <2>1, Known, StoredReport
  <2>5. seed.slot \in Slot
    BY <2>4 DEF Checkpoint
  <2>6. seed.owner = c.account
    BY <1>4, <2>3
  <2> HIDE DEF seed, c
  <2>7. Steps(device, d) /\ Good(d) /\ d.account = c.account
    BY <1>1, <2>2, <2>3, ReconcileOnlySteps, StepsOn DEF Steps
  <2>8. Good(marked) /\ Follows(d, marked)
    <3> HIDE DEF d, known
    <3> QED BY <2>7, RecordSteps DEF Terminal, Steps
  <2>9. /\ job.owner = seed.owner /\ job.slot = seed.slot /\ job.answer = None
        /\ job.pc = "identified"
        /\ job.known = known /\ job.body = Payload(seen)
    OBVIOUS
  <2> HIDE DEF job, marked
  <2>10. /\ JobSound(job) /\ JobKnows(marked, job)
         /\ \A s \in job.known : s <= used
    BY <1>4, <2>5, <2>6, <2>7, <2>8, <2>9, JobBegins
  <2>11. worker \in [Worker -> {Idle} \cup Job]
    BY Known DEF RestTypeOK
  <2>12. worker'[w] = job /\ \A v \in Worker \ {w} : worker'[v] = worker[v]
    BY <1>4, <2>11
  <2>13. device' = marked
    BY <1>4
  <2> HIDE DEF begins, d, seen, known
  <2>14. WorkerOK(w)'
    <3>1. JobSound(worker[w])'
      BY <1>1, <2>10, <2>12 DEF JobSound, PartSound, Over
    <3>2. JobAnswered(worker[w])'
      BY <2>9, <2>12 DEF JobAnswered, None, Terminal
    <3>3. JobKnows(device, worker[w])'
      BY <2>10, <2>12, <2>13
    <3> QED BY <1>1, <2>9, <2>10, <2>12, <3>1, <3>2, <3>3 DEF WorkerOK
  <2>15. WorkersMove
    BY <2>12, <2>14 DEF WorkersMove, SameJob
  <2>16. CapturesMove /\ StrayMoves /\ AnsweredMoves
    BY <1>1 DEF CapturesMove, StrayMoves, AnsweredMoves
  <2> QED BY <1>1, <2>15, <2>16, DocRests, Clock DEF DeliveryMoves, Kept
<1> QED BY <1>2, <1>3, <1>4

LEMMA NextDelivers ==
  ASSUME IInv, Kept, [Next]_vars
  PROVE  DeliveryMoves
<1>1. ASSUME NEW s \in Store, Captures(s) PROVE DeliveryMoves
  BY <1>1, AlarmDelivers, CaptureSavesDelivers, CaptureEndsDelivers, QuietDeliver
     DEF Captures
<1>2. ASSUME NEW w \in Worker, Works(w) PROVE DeliveryMoves
  BY <1>2, WorkStartsDelivers, WorkersDeliver, ServeDelivers DEF Works
<1> QED BY <1>1, <1>2, CallsDeliver, QuietDeliver, ServeStrayDelivers,
           ServerEditDelivers, TickDelivers DEF Next
-----------------------------------------------------------------------------
LEMMA InitInvariant == Init => IInv
<1> SUFFICES ASSUME Init PROVE IInv
  OBVIOUS
<1>1. device \in Device /\ device.index = {} /\ device.alarms = {}
  BY DEF Init, Device
<1>2. \A s \in Store : device.report[s] = NoReportYet /\ capture[s] = NoCapture
  BY DEF Init
<1>3. capture \in [Store -> {NoCapture} \cup Capture] /\ worker \in [Worker -> {Idle} \cup Job]
  BY DEF Init
<1>4. now \in 0..MAXTIME /\ user \in Account \cup {NoAccount} /\ allowed \in BOOLEAN
  BY BoundsAssumption DEF Init
<1>5. used = 0 /\ stray = Idle /\ answered = {}
  BY DEF Init
<1>6. TypeOK
  BY <1>1, <1>3, <1>4, <1>5 DEF TypeOK
<1>7. ReportsTruthful /\ CapturesSound /\ LaterSupersede
  BY <1>1, <1>2 DEF ReportsTruthful, CapturesSound, LaterSupersede
<1>8. JobsOK /\ AnsweredUsed
  BY <1>5 DEF Init, JobsOK, AnsweredUsed
<1>9. DocOK
  <2>1. \A s \in Slot : Blank(s) \in Doc
    BY BlankType
  <2> QED BY <2>1, PlannedAssumption DEF Init, DocOK
<1> QED BY <1>1, <1>2, <1>6, <1>7, <1>8, <1>9
        DEF IInv, KeysUsed, CaptureMatches, OneActivePlan, Deliveries

LEMMA Invariant == Spec => []IInv
<1>1. IInv /\ [Next]_vars => IInv'
  BY NextKept, NextDelivers, InvariantKept, DeliveriesKept DEF Kept, IInv
<1> QED BY <1>1, InitInvariant, PTL DEF Spec

(* The types of the device, of its captures, of its workers and of the     *)
(* jobs they hold, and that the index of the reports names none that was   *)
(* removed or not yet stored.                                              *)
THEOREM DeviceTypes == Spec => []TypeOK
<1>1. IInv => TypeOK
  BY DEF IInv
<1> QED BY <1>1, Invariant, PTL

(* The reports of a session that may still be captured are of one          *)
(* revision, one of each moment at most, for every interleaving of calls,  *)
(* alarms, captures, deliveries and deaths of the process.                 *)
THEOREM OnePlan == Spec => []OneActivePlan
<1>1. IInv => OneActivePlan
  BY DEF IInv
<1> QED BY <1>1, Invariant, PTL

(* CheckpointDelivery.kt, record: a report that counts as delivered is     *)
(* settled, and some request was about its revision, and knew of it, when  *)
(* the server answered that request for good.                              *)
THEOREM AckedWasSent == Spec => []AcknowledgedWasSent
<1>1. IInv => AcknowledgedWasSent
  BY DEF IInv, Deliveries, ReportsTruthful, Truthful, AcknowledgedWasSent
<1> QED BY <1>1, Invariant, PTL

(* CheckpointDelivery.kt, payload and readyAt: no request that leaves the  *)
(* phone, nor one given up on that is still on its way, has a report that  *)
(* could still change.                                                     *)
THEOREM OpenIsNotSent == Spec => []NothingOpenSent
<1>1. IInv => NothingOpenSent
  BY DEF IInv, Deliveries, JobsOK, WorkerOK, NothingOpenSent
<1> QED BY <1>1, Invariant, PTL

(* CheckpointDelivery.kt, checkpoint_service.py: a captured ping that the  *)
(* phone shows as applied is the one the server has, unless the session    *)
(* was moved or deleted there, whatever was lost, repeated or late between *)
(* the two.                                                                *)
THEOREM PhoneAgrees == Spec => []ServerAgrees
<1>1. IInv => ServerAgrees
  <2> SUFFICES ASSUME IInv, NEW s \in device.index,
                      device.report[s].status = "succeeded", Applied(device.report[s]),
                      doc[device.report[s].owner] # NoDoc,
                      doc[device.report[s].owner].slot = device.report[s].slot
               PROVE  doc[device.report[s].owner][device.report[s].moment] = device.report[s].ping
    BY DEF ServerAgrees, Applied
  <2>1. AgreedOn(device.report[s])
    BY DEF IInv, Deliveries, ReportsTruthful, Truthful
  <2> QED BY <2>1 DEF AgreedOn, Agreed
<1> QED BY <1>1, Invariant, PTL

StandsNext ==
  \A s \in device.index :
    Settled(device.report[s]) /\ device'.report[s] # NoReportYet
      => device'.report[s].status \in {device.report[s].status, "cancelled"}

(* FirstCheckpointBridge.kt, FirstCheckpointService.kt: how a report ended *)
(* stands in every later state, unless the user cancels it or it goes.     *)
THEOREM OutcomeStands == Spec => SettledStands
<1>1. IInv /\ [Next]_vars => StandsNext
  <2> SUFFICES ASSUME IInv, Moves, NEW s \in device.index,
                      Settled(device.report[s]), device'.report[s] # NoReportYet
               PROVE  device'.report[s].status \in {device.report[s].status, "cancelled"}
    BY NextKept DEF Kept, StandsNext
  <2>1. s \in Store /\ s # used + 1
    <3>1. s \in Store /\ s <= used
      BY Known DEF IInv, TypeOK, Good, Device
    <3>2. s \in Nat /\ used \in Nat
      BY <3>1, StoreAssumption, Known
    <3> QED BY <3>1, <3>2
  <2>2. FollowsAt(device, device', s)
    BY <2>1 DEF Moves, Follows, Adds
  <2> QED BY <2>2 DEF FollowsAt, KeptAt, SameReport
<1>2. Spec => [][StandsNext]_vars
  BY <1>1, Invariant, PTL DEF Spec
<1> QED BY <1>2 DEF SettledStands, StandsNext
=============================================================================

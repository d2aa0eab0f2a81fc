------------------------ MODULE AcademicSync_proofs ------------------------
(***************************************************************************)
(* What a synchronisation shows of itself, and what it leaves of a course, *)
(* for any number of synchronisations, courses and versions of a plan.     *)
(***************************************************************************)
EXTENDS AcademicSync, FiniteSetTheorems, TLAPS

Locals == [pc : PCs, at : 1..(N + 1), completed : 0..3, mute : BOOLEAN,
           wr : Statuses \union {None}, ver : Versions, out : [Courses -> Outcomes],
           wrote : SUBSET {"dates", "plan", "sessions"}, alone : BOOLEAN]

Visiting == {"visit"} \union PerCourse
Over == {"ended", "raised"}

(* How far a run is: each course before the one at hand has an outcome.    *)
Staged(x) ==
    /\ x.pc \in {"waiting", "siga"} => x.completed = 0
    /\ x.pc = "moodle" => x.completed = 1
    /\ x.pc \in Visiting \union {"last"} => x.completed = 2
    /\ x.pc \in {"waiting", "siga", "moodle"} => x.at = 1
    /\ x.pc \in Visiting => x.at \in Courses
    /\ x.pc \in {"last", "ended"} => x.at = N + 1
    /\ \A c \in Courses : x.out[c] = "open" <=> c >= x.at

(* What it has yet to write is the truth.                                  *)
Writing(x) ==
    x.wr # None =>
        /\ ~x.mute
        /\ x.pc # "waiting"
        /\ x.pc \notin Over => x.wr = "running"
        /\ x.pc = "raised" => x.wr = "failed"
        /\ x.pc = "ended" => x.wr \in {"partial", "succeeded"}
        /\ x.wr = "succeeded" => \A c \in Courses : x.out[c] \in Settled

Own(x) == Staged(x) /\ Writing(x)

RankOf(x) == IF x.wr = "running" THEN x.completed ELSE 4

(* What the document has shown of it, s, is behind what it may yet write.  *)
Ahead(x, s) ==
    /\ x.pc = "waiting" => s = -1
    /\ x.wr # None => s < RankOf(x)
    /\ x.wr = None /\ ~x.mute /\ x.pc \notin Over => s <= x.completed

(* What a document says of a run x.                                        *)
Truth(d, x) ==
    /\ d.status = "running" => d.completed <= x.completed
    /\ d.status = "failed" => x.pc = "raised"
    /\ d.status \in {"partial", "succeeded"} =>
          /\ x.pc = "ended" \/ (x.pc = "raised" /\ x.mute)
          /\ \A c \in Courses : x.out[c] # "open"
    /\ d.status = "succeeded" => \A c \in Courses : x.out[c] \in Settled

Silent(x) == x.pc # "waiting" /\ x.mute /\ x.wr = None

RunsFit == \A r \in Runs : Own(run[r]) /\ Ahead(run[r], shown[r])
LateFits ==
    /\ \A d \in late : /\ Silent(run[d.run]) /\ Truth(d, run[d.run])
                       /\ Rank(d) > shown[d.run]
    /\ \A d, e \in late : d.run = e.run => d = e
DocFits == doc # None => Truth(doc, run[doc.run])

Inv == TypeOK /\ RunsFit /\ LateFits /\ DocFits

(* A run x that goes on as y: nothing it showed or may show becomes false. *)
Later(x, y) ==
    /\ x.completed <= y.completed
    /\ x.pc = "raised" => y.pc = "raised"
    /\ x.pc \in Over => y.out = x.out /\ (y.pc = x.pc \/ (y.pc = "raised" /\ y.mute))
    /\ x.pc # "waiting" /\ x.mute => y.mute
    /\ Silent(x) => Silent(y)

Goes(x, y) ==
    /\ y \in Locals
    /\ Own(y)
    /\ \A s \in -1..4 : Ahead(x, s) => Ahead(y, s)
    /\ Later(x, y)

(* All a run has in common with itself when only what it holds differs.    *)
Like(x, y) ==
    /\ y.pc = x.pc /\ y.at = x.at /\ y.completed = x.completed /\ y.mute = x.mute
    /\ y.wr = x.wr /\ y.out = x.out

LEMMA LikeOwn ==
    ASSUME NEW x, NEW y, Own(x), Like(x, y)
    PROVE  Own(y)
BY DEF Own, Staged, Writing, Like

LEMMA LikeGoes ==
    ASSUME NEW x \in Locals, NEW y, NEW z, Like(x, y), Goes(y, z)
    PROVE  Goes(x, z)
<1>1. \A s \in -1..4 : Ahead(x, s) => Ahead(y, s)
  BY DEF Ahead, RankOf, Like
<1>2. Later(x, z)
  BY DEF Goes, Later, Like, Silent
<1> QED
  BY <1>1, <1>2 DEF Goes

LEMMA StaysGoes ==
    ASSUME NEW x \in Locals, NEW y \in Locals, Own(x), Like(x, y)
    PROVE  Goes(x, y)
<1>1. Own(y)
  BY LikeOwn
<1>2. \A s \in -1..4 : Ahead(x, s) => Ahead(y, s)
  BY DEF Ahead, RankOf, Like
<1>3. Later(x, y)
  BY DEF Later, Like, Silent, Locals
<1> QED
  BY <1>1, <1>2, <1>3 DEF Goes

LEMMA LocalsOf ==
    ASSUME Inv, NEW r \in Runs
    PROVE  run[r] \in Locals /\ Own(run[r]) /\ Ahead(run[r], shown[r]) /\ shown[r] \in -1..4
BY DEF Inv, TypeOK, Locals, RunsFit

LEMMA RankType ==
    ASSUME NEW d \in Documents
    PROVE  Rank(d) \in 0..4
BY DEF Rank, Documents

LEMMA TruthLasts ==
    ASSUME NEW d \in Documents, NEW x \in Locals, NEW y \in Locals, Truth(d, x), Later(x, y)
    PROVE  Truth(d, y)
<1>1. CASE d.status = "running"
  BY <1>1 DEF Truth, Later, Documents, Locals
<1>2. CASE d.status = "failed"
  BY <1>2 DEF Truth, Later
<1>3. CASE d.status \in {"partial", "succeeded"}
  BY <1>3 DEF Truth, Later, Over
<1> QED
  BY <1>1, <1>2, <1>3 DEF Documents, Statuses

(* Steps of runs that leave the document, and what is on its way, alone.   *)
LEMMA RunsKeep ==
    ASSUME Inv, UNCHANGED progress, run' \in [Runs -> Locals],
           \A r \in Runs : Goes(run[r], run'[r])
    PROVE  RunsFit' /\ LateFits' /\ DocFits'
<1>1. UNCHANGED <<doc, late, shown>>
  BY DEF progress
<1>2. RunsFit'
  BY <1>1, LocalsOf DEF RunsFit, Goes
<1>3. ASSUME NEW d \in Documents, Truth(d, run[d.run])
      PROVE  Truth(d, run'[d.run])
  <2>1. d.run \in Runs
    BY DEF Documents
  <2> QED
    BY <1>3, <2>1, LocalsOf, TruthLasts DEF Goes
<1>4. LateFits'
  <2>1. ASSUME NEW d \in late
        PROVE  Silent(run'[d.run]) /\ Truth(d, run'[d.run]) /\ Rank(d) > shown[d.run]
    <3>1. d \in Documents /\ d.run \in Runs
      BY DEF Inv, TypeOK, Documents
    <3> QED
      BY <1>3, <3>1 DEF Inv, LateFits, Goes, Later
  <2> QED
    BY <1>1, <2>1 DEF Inv, LateFits
<1>5. DocFits'
  BY <1>1, <1>3 DEF Inv, DocFits, TypeOK
<1> QED
  BY <1>2, <1>4, <1>5

(* The ways a run goes on. *)
LEMMA MoveGoes ==
    ASSUME NEW x \in Locals, NEW y \in Locals, Own(x), x.wr = None, x.pc \in Visiting,
           y.pc \in Visiting, y.at = x.at, y.completed = x.completed, y.mute = x.mute,
           y.wr = None, y.out = x.out
    PROVE  Goes(x, y)
<1>1. /\ y.pc \notin {"waiting", "siga", "moodle", "last"} \union Over
      /\ x.pc \notin {"waiting", "siga", "moodle", "last"} \union Over
  BY DEF Visiting, PerCourse, Over
<1>2. Staged(y)
  BY <1>1 DEF Own, Staged, Over
<1>3. Writing(y)
  BY DEF Writing
<1>4. \A s \in -1..4 : Ahead(x, s) => Ahead(y, s)
  BY <1>1 DEF Ahead
<1>5. Later(x, y)
  BY <1>1 DEF Later, Silent, Over, Locals
<1> QED
  BY <1>2, <1>3, <1>4, <1>5 DEF Goes, Own

LEMMA LeaveFields ==
    ASSUME NEW x \in Locals, NEW outcome \in Outcomes, x.at \in Courses
    PROVE  LET y == Leave(x, outcome) IN
           /\ y \in Locals /\ y.at = x.at + 1
           /\ y.pc = IF x.at + 1 <= N THEN "visit" ELSE "last"
           /\ y.out = [x.out EXCEPT ![x.at] = outcome]
           /\ y.completed = x.completed /\ y.mute = x.mute /\ y.wr = x.wr
           /\ y.wrote = {} /\ y.alone = x.alone
<1> DEFINE z == [x EXCEPT !.out[x.at] = outcome, !.at = @ + 1, !.ver = 0, !.wrote = {}]
           y == [z EXCEPT !.pc = Visit(z)]
<1>1. Leave(x, outcome) = y
  BY DEF Leave
<1>2. x.at + 1 \in 1..(N + 1) /\ 0 \in Versions
  BY NAssumption, VersionAssumption DEF Courses, Versions
<1>3. /\ z \in Locals /\ z.at = x.at + 1 /\ z.out = [x.out EXCEPT ![x.at] = outcome]
      /\ z.completed = x.completed /\ z.mute = x.mute /\ z.wr = x.wr
      /\ z.wrote = {} /\ z.alone = x.alone
  BY <1>2 DEF Locals
<1> HIDE DEF z
<1>4. Visit(z) = IF x.at + 1 <= N THEN "visit" ELSE "last"
  BY <1>3 DEF Visit
<1>5. /\ y \in Locals /\ y.at = z.at /\ y.out = z.out /\ y.completed = z.completed
      /\ y.mute = z.mute /\ y.wr = z.wr /\ y.wrote = z.wrote /\ y.alone = z.alone
      /\ y.pc = Visit(z)
  BY <1>3, <1>4 DEF Locals, PCs
<1> HIDE DEF y
<1> QED
  BY <1>1, <1>3, <1>4, <1>5

LEMMA LeaveGoes ==
    ASSUME NEW x \in Locals, NEW outcome \in Outcomes \ {"open"}, Own(x), x.wr = None,
           x.pc \in Visiting
    PROVE  Goes(x, Leave(x, outcome))
<1> DEFINE y == Leave(x, outcome)
<1>1. x.at \in Courses /\ x.completed = 2
  BY DEF Own, Staged
<1>2. /\ y \in Locals /\ y.at = x.at + 1
      /\ y.pc = IF x.at + 1 <= N THEN "visit" ELSE "last"
      /\ y.out = [x.out EXCEPT ![x.at] = outcome]
      /\ y.completed = x.completed /\ y.mute = x.mute /\ y.wr = x.wr
  BY <1>1, LeaveFields
<1> HIDE DEF y
<1>3. x.pc \notin {"waiting"} \union Over /\ y.pc \notin {"waiting", "siga", "moodle"} \union Over
  BY <1>2 DEF Visiting, PerCourse, Over
<1>4. y.at \in 1..(N + 1) /\ (y.pc \in Visiting => y.at \in Courses)
      /\ (y.pc = "last" => y.at = N + 1)
  BY <1>1, <1>2, NAssumption DEF Courses, Visiting, PerCourse
<1>5. \A c \in Courses : y.out[c] = "open" <=> c >= y.at
  BY <1>1, <1>2, NAssumption DEF Own, Staged, Courses, Locals
<1>6. Staged(y)
  BY <1>1, <1>2, <1>3, <1>4, <1>5 DEF Staged, Over
<1>7. Writing(y)
  BY <1>2 DEF Writing
<1>8. \A s \in -1..4 : Ahead(x, s) => Ahead(y, s)
  BY <1>2, <1>3 DEF Ahead
<1>9. Later(x, y)
  BY <1>2, <1>3 DEF Later, Silent, Over, Locals
<1>10. Goes(x, y)
  BY <1>2, <1>6, <1>7, <1>8, <1>9 DEF Goes, Own
<1> QED
  BY <1>10 DEF y

LEMMA RaiseFields ==
    ASSUME NEW x \in Locals
    PROVE  LET y == Raise(x) IN
           /\ y \in Locals /\ y.pc = "raised" /\ y.at = x.at /\ y.completed = x.completed
           /\ y.mute = x.mute /\ y.out = x.out /\ y.alone = x.alone
           /\ y.wr = IF x.mute THEN None ELSE "failed"
BY DEF Raise, Writes, Locals, PCs, Statuses

LEMMA RaiseGoes ==
    ASSUME NEW x \in Locals, Own(x), x.wr = None, x.pc \notin {"waiting"} \union Over
    PROVE  Goes(x, Raise(x))
<1> DEFINE y == Raise(x)
<1>1. /\ y \in Locals /\ y.pc = "raised" /\ y.at = x.at /\ y.completed = x.completed
      /\ y.mute = x.mute /\ y.out = x.out /\ y.wr = IF x.mute THEN None ELSE "failed"
  BY RaiseFields
<1> HIDE DEF y
<1>2. Staged(y)
  BY <1>1 DEF Own, Staged, Visiting, PerCourse
<1>3. Writing(y)
  BY <1>1 DEF Writing, Over
<1>4. \A s \in -1..4 : Ahead(x, s) => Ahead(y, s)
  <2> SUFFICES ASSUME NEW s \in -1..4, Ahead(x, s) PROVE Ahead(y, s)
    OBVIOUS
  <2>1. x.completed <= 2
    BY DEF Own, Staged, Locals, PCs, Visiting, Over
  <2>2. ~x.mute => s <= x.completed
    BY DEF Ahead
  <2>3. y.wr # None => s < 4
    BY <1>1, <2>1, <2>2 DEF Locals
  <2>4. RankOf(y) = 4
    BY <1>1, NoneAssumption DEF RankOf
  <2> QED
    BY <1>1, <2>3, <2>4 DEF Ahead, Over
<1>5. Later(x, y)
  BY <1>1 DEF Later, Silent, Over, Locals
<1>6. Goes(x, y)
  BY <1>1, <1>2, <1>3, <1>4, <1>5 DEF Goes, Own
<1> QED
  BY <1>6 DEF y

LEMMA ObservedFields ==
    ASSUME NEW x \in Locals, NEW pc \in PCs, NEW n \in 0..3
    PROVE  LET y == Observed([x EXCEPT !.pc = pc], n) IN
           /\ y \in Locals /\ y.pc = pc /\ y.at = x.at /\ y.completed = n
           /\ y.mute = x.mute /\ y.out = x.out /\ y.alone = x.alone
           /\ y.wrote = x.wrote
           /\ y.wr = IF x.mute THEN None ELSE "running"
<1> DEFINE z == [x EXCEPT !.pc = pc]
           u == [z EXCEPT !.completed = n]
<1>1. /\ z \in Locals /\ z.pc = pc /\ z.at = x.at /\ z.mute = x.mute /\ z.out = x.out
      /\ z.alone = x.alone /\ z.wrote = x.wrote
  BY DEF Locals
<1> HIDE DEF z
<1>2. /\ u \in Locals /\ u.pc = pc /\ u.at = x.at /\ u.mute = x.mute /\ u.out = x.out
      /\ u.alone = x.alone /\ u.completed = n /\ u.wrote = x.wrote
  BY <1>1 DEF Locals
<1>3. Observed(z, n) = [u EXCEPT !.wr = IF u.mute THEN None ELSE "running"]
  BY DEF Observed, Writes
<1> HIDE DEF u
<1> DEFINE y == [u EXCEPT !.wr = IF u.mute THEN None ELSE "running"]
<1>4. /\ y \in Locals /\ y.pc = pc /\ y.at = x.at /\ y.completed = n
      /\ y.mute = x.mute /\ y.out = x.out /\ y.alone = x.alone
      /\ y.wrote = x.wrote
      /\ y.wr = IF x.mute THEN None ELSE "running"
  BY <1>2 DEF Locals, Statuses
<1> HIDE DEF y
<1>5. Observed(z, n) = y
  BY <1>3 DEF y
<1> QED
  BY <1>4, <1>5 DEF z

(* A stage is done: the run goes to pc and its progress to n.              *)
LEMMA ObservedGoes ==
    ASSUME NEW x \in Locals, Own(x), x.wr = None, NEW pc \in PCs, NEW n \in 1..2,
           \/ x.pc = "siga" /\ pc = "moodle" /\ n = 1
           \/ x.pc = "moodle" /\ pc = Visit(x) /\ n = 2
    PROVE  Goes(x, Observed([x EXCEPT !.pc = pc], n))
<1> DEFINE y == Observed([x EXCEPT !.pc = pc], n)
<1>1. /\ y \in Locals /\ y.pc = pc /\ y.at = x.at /\ y.completed = n
      /\ y.mute = x.mute /\ y.out = x.out /\ y.wr = IF x.mute THEN None ELSE "running"
  BY ObservedFields
<1> HIDE DEF y
<1>2. x.at = 1 /\ x.completed = n - 1 /\ x.pc \notin {"waiting"} \union Over
  BY DEF Own, Staged, Over
<1>3. pc = "visit" => 1 \in Courses
  BY <1>2, NAssumption DEF Visit, Courses
<1>4. pc = "last" => N + 1 = 1
  BY <1>2, NAssumption DEF Visit
<1>5. pc \in {"moodle", "visit", "last"}
  BY DEF Visit
<1>6. Staged(y)
  BY <1>1, <1>2, <1>3, <1>4, <1>5 DEF Own, Staged, Visit, Visiting, PerCourse
<1>7. Writing(y)
  BY <1>1, <1>5, NoneAssumption DEF Writing, Over
<1>8. \A s \in -1..4 : Ahead(x, s) => Ahead(y, s)
  <2> SUFFICES ASSUME NEW s \in -1..4, Ahead(x, s) PROVE Ahead(y, s)
    OBVIOUS
  <2>1. ~x.mute => s < n
    BY <1>2 DEF Ahead, Locals
  <2> QED
    BY <1>1, <1>5, <2>1 DEF Ahead, RankOf
<1>9. Later(x, y)
  BY <1>1, <1>2, <1>5 DEF Later, Silent, Over
<1>10. Goes(x, y)
  BY <1>1, <1>6, <1>7, <1>8, <1>9 DEF Goes, Own
<1> QED
  BY <1>10 DEF y

LEMMA ReviewsType ==
    ASSUME NEW x
    PROVE  /\ IsFiniteSet({c \in Courses : x.out[c] \in Review})
           /\ Reviews(x) \in 0..N
           /\ Reviews(x) = 0 => \A c \in Courses : x.out[c] \notin Review
<1> DEFINE S == {c \in Courses : x.out[c] \in Review}
<1>1. IsFiniteSet(Courses) /\ Cardinality(Courses) = N
  <2>1. 1 <= N + 1 /\ 1 \in Int /\ N \in Int
    BY NAssumption
  <2>2. IsFiniteSet(1..N) /\ Cardinality(1..N) = IF 1 > N THEN 0 ELSE N - 1 + 1
    BY <2>1, FS_Interval
  <2> QED
    BY <2>2, NAssumption DEF Courses
<1>2. S \subseteq Courses
  OBVIOUS
<1>3. IsFiniteSet(S) /\ Cardinality(S) <= Cardinality(Courses)
  BY <1>1, <1>2, FS_Subset
<1>4. Cardinality(S) \in Nat
  BY <1>3, FS_CardinalityType
<1>5. Cardinality(S) = 0 => S = {}
  BY <1>3, FS_EmptySet
<1> QED
  BY <1>1, <1>3, <1>4, <1>5, NAssumption DEF Reviews

LEMMA ReviewsNumber ==
    ASSUME NEW x
    PROVE  Reviews(x) \in 0..N /\ Reviews(x) \in Nat
<1> DEFINE k == Reviews(x)
<1>1. k \in 0..N
  BY ReviewsType
<1> HIDE DEF k
<1>2. k \in Nat
  BY <1>1, NAssumption
<1> QED
  BY <1>1, <1>2 DEF k

LEMMA LastGoes ==
    ASSUME NEW x \in Locals, Own(x), x.wr = None, x.pc = "last",
           NEW status \in {"partial", "succeeded"}, status = "succeeded" => Reviews(x) = 0
    PROVE  Goes(x, Writes([x EXCEPT !.pc = "ended", !.completed = 3], status))
<1> DEFINE z == [x EXCEPT !.pc = "ended", !.completed = 3]
           y == Writes(z, status)
<1>1. /\ z \in Locals /\ z.pc = "ended" /\ z.at = x.at /\ z.completed = 3
      /\ z.mute = x.mute /\ z.out = x.out
  <2> DEFINE w == [x EXCEPT !.pc = "ended"]
  <2>1. w \in Locals /\ w.pc = "ended" /\ w.at = x.at /\ w.mute = x.mute /\ w.out = x.out
    BY DEF Locals, PCs
  <2>2. z = [w EXCEPT !.completed = 3]
    OBVIOUS
  <2> HIDE DEF w, z
  <2> QED
    BY <2>1, <2>2 DEF Locals
<1> HIDE DEF z
<1>2. /\ y \in Locals /\ y.pc = "ended" /\ y.at = x.at /\ y.completed = 3
      /\ y.mute = x.mute /\ y.out = x.out /\ y.wr = IF x.mute THEN None ELSE status
  BY <1>1 DEF Writes, Locals, Statuses
<1> HIDE DEF y
<1>3. x.at = N + 1 /\ x.completed = 2 /\ \A c \in Courses : x.out[c] # "open"
  BY NAssumption DEF Own, Staged, Courses
<1>4. status = "succeeded" => \A c \in Courses : x.out[c] \in Settled
  <2>1. Reviews(x) = 0 => \A c \in Courses : x.out[c] \notin Review
    BY ReviewsType
  <2> QED
    BY <1>3, <2>1 DEF Locals, Outcomes
<1>5. Staged(y)
  BY <1>2, <1>3, NAssumption DEF Staged, Own, Visiting, PerCourse, Courses
<1>6. Writing(y)
  BY <1>2, <1>4 DEF Writing, Over
<1>7. \A s \in -1..4 : Ahead(x, s) => Ahead(y, s)
  <2> SUFFICES ASSUME NEW s \in -1..4, Ahead(x, s) PROVE Ahead(y, s)
    OBVIOUS
  <2>1. ~x.mute => s <= 2
    BY <1>3 DEF Ahead, Over
  <2>2. y.wr # "running" /\ RankOf(y) = 4
    BY <1>2, NoneAssumption DEF RankOf
  <2> QED
    BY <1>2, <2>1, <2>2 DEF Ahead, Over
<1>8. Later(x, y)
  BY <1>2, <1>3 DEF Later, Silent, Over
<1>9. Goes(x, y)
  BY <1>2, <1>5, <1>6, <1>7, <1>8 DEF Goes, Own
<1> QED
  BY <1>9 DEF y, z

LEMMA KillGoes ==
    ASSUME NEW x \in Locals, Own(x), x.pc # "waiting"
    PROVE  Goes(x, [x EXCEPT !.pc = "raised", !.mute = TRUE, !.wr = None])
<1> DEFINE y == [x EXCEPT !.pc = "raised", !.mute = TRUE, !.wr = None]
<1>1. /\ y \in Locals /\ y.pc = "raised" /\ y.at = x.at /\ y.completed = x.completed
      /\ y.mute = TRUE /\ y.out = x.out /\ y.wr = None
  BY DEF Locals, PCs
<1> HIDE DEF y
<1>2. Staged(y)
  BY <1>1 DEF Own, Staged, Visiting, PerCourse
<1>3. Writing(y) /\ \A s \in -1..4 : Ahead(y, s)
  BY <1>1 DEF Writing, Ahead
<1>4. Later(x, y)
  BY <1>1 DEF Later, Silent, Over, Locals
<1>5. Goes(x, y)
  BY <1>1, <1>2, <1>3, <1>4 DEF Goes, Own
<1> QED
  BY <1>5 DEF y

LEMMA BeginGoes ==
    ASSUME NEW mute \in BOOLEAN, NEW alone \in BOOLEAN
    PROVE  /\ Waiting \in Locals
           /\ Goes(Waiting, Writes([Waiting EXCEPT !.pc = "siga", !.mute = mute,
                                                    !.alone = alone], "running"))
<1> DEFINE z == [Waiting EXCEPT !.pc = "siga", !.mute = mute, !.alone = alone]
           y == Writes(z, "running")
           w == Waiting
<1>1. 1 \in 1..(N + 1) /\ 0 \in Versions
  BY NAssumption, VersionAssumption DEF Versions
<1>2. /\ w \in Locals /\ w.pc = "waiting" /\ w.at = 1 /\ w.completed = 0 /\ w.mute = TRUE
      /\ w.wr = None /\ w.out = [c \in Courses |-> "open"]
  BY <1>1 DEF Waiting, Locals, PCs, Outcomes
<1> HIDE DEF w
<1>3. z = [w EXCEPT !.pc = "siga", !.mute = mute, !.alone = alone]
  BY DEF w
<1> HIDE DEF z
<1>4. /\ z \in Locals /\ z.pc = "siga" /\ z.at = 1 /\ z.completed = 0 /\ z.mute = mute
      /\ z.wr = None /\ z.out = w.out
  BY <1>2, <1>3 DEF Locals, PCs
<1>5. /\ y \in Locals /\ y.pc = "siga" /\ y.at = 1 /\ y.completed = 0 /\ y.mute = mute
      /\ y.wr = IF mute THEN None ELSE "running"
      /\ y.out = w.out
  BY <1>4 DEF Writes, Locals, Statuses
<1> HIDE DEF y
<1>6. Staged(y)
  BY <1>2, <1>5 DEF Staged, Visiting, PerCourse, Courses
<1>7. Writing(y)
  BY <1>5, NoneAssumption DEF Writing, Over
<1>8. \A s \in -1..4 : Ahead(w, s) => Ahead(y, s)
  BY <1>2, <1>5 DEF Ahead, RankOf
<1>9. Later(w, y)
  BY <1>2, <1>5 DEF Later, Silent, Over
<1>10. Goes(w, y)
  BY <1>5, <1>6, <1>7, <1>8, <1>9 DEF Goes, Own
<1> QED
  BY <1>2, <1>10 DEF w, y, z

LEMMA WaitingOwn == Own(Waiting) /\ Ahead(Waiting, -1)
<1>1. /\ Waiting.pc = "waiting" /\ Waiting.at = 1 /\ Waiting.completed = 0 /\ Waiting.wr = None
      /\ Waiting.mute = TRUE /\ \A c \in Courses : Waiting.out[c] = "open"
  BY DEF Waiting
<1> QED
  BY <1>1 DEF Own, Staged, Writing, Ahead, Courses, Visiting, PerCourse

LEMMA InitInv == Init => Inv
<1> SUFFICES ASSUME Init PROVE Inv
  OBVIOUS
<1>1. Waiting \in Locals
  BY BeginGoes
<1>2. run \in [Runs -> Locals]
  BY <1>1 DEF Init
<1>3. 0 \in Versions
  BY VersionAssumption DEF Versions
<1>4. TypeOK
  BY <1>2, <1>3 DEF Init, TypeOK, Locals
<1>5. RunsFit
  BY WaitingOwn DEF Init, RunsFit
<1>6. LateFits /\ DocFits
  BY DEF Init, LateFits, DocFits
<1> QED
  BY <1>4, <1>5, <1>6 DEF Inv

(* What is stored keeps its types. *)
StoreTyped ==
    /\ official \in [Courses -> Versions] /\ dates \in [Courses -> Versions]
    /\ plan \in [Courses -> Versions] /\ sessions \in [Courses -> Versions]
    /\ clash \subseteq Courses

LEMMA RunsInv ==
    ASSUME Inv, UNCHANGED progress, StoreTyped', run' \in [Runs -> Locals],
           \A r \in Runs : Goes(run[r], run'[r])
    PROVE  Inv'
<1>1. RunsFit' /\ LateFits' /\ DocFits'
  BY RunsKeep
<1>2. TypeOK'
  BY DEF Inv, TypeOK, StoreTyped, progress, Locals
<1> QED
  BY <1>1, <1>2 DEF Inv

LEMMA BecomeInv ==
    ASSUME Inv, NEW r \in Runs, NEW y, Become(r, y), Goes(run[r], y),
           UNCHANGED progress, StoreTyped'
    PROVE  Inv'
<1>1. y \in Locals /\ run \in [Runs -> Locals]
  BY DEF Goes, Inv, TypeOK, Locals
<1>2. run' \in [Runs -> Locals] /\ \A q \in Runs : run'[q] = IF q = r THEN y ELSE run[q]
  BY <1>1 DEF Become
<1>3. \A q \in Runs : Goes(run[q], run[q])
  BY LocalsOf, StaysGoes DEF Like
<1>4. \A q \in Runs : Goes(run[q], run'[q])
  BY <1>2, <1>3
<1> QED
  BY <1>2, <1>4, RunsInv

LEMMA StoreKeeps ==
    ASSUME Inv, UNCHANGED <<official, store, clash>>
    PROVE  StoreTyped'
BY DEF Inv, TypeOK, StoreTyped, store

LEMMA HandOf ==
    ASSUME Inv, NEW r \in Runs, NEW pc \in Visiting, At(r, pc)
    PROVE  /\ run[r] \in Locals /\ Own(run[r]) /\ run[r].pc = pc /\ run[r].wr = None
           /\ run[r].pc \in Visiting /\ run[r].pc \notin {"waiting"} \union Over
           /\ Here(r) \in Courses /\ run[r].at \in Courses
BY LocalsOf DEF At, Here, Own, Staged, Visiting, PerCourse, Over

(* A run that goes on with its course. *)
LEMMA StepGoes ==
    ASSUME NEW x \in Locals, Own(x), x.wr = None, x.pc \in Visiting, NEW pc \in PerCourse
    PROVE  /\ Goes(x, [x EXCEPT !.pc = pc])
           /\ \A v \in Versions : Goes(x, [x EXCEPT !.pc = pc, !.ver = v])
<1>1. pc \in PCs /\ pc \in Visiting
  BY DEF PCs, Visiting
<1>2. Goes(x, [x EXCEPT !.pc = pc])
  <2> DEFINE y == [x EXCEPT !.pc = pc]
  <2>1. /\ y \in Locals /\ y.pc = pc /\ y.at = x.at /\ y.completed = x.completed
        /\ y.mute = x.mute /\ y.wr = x.wr /\ y.out = x.out
    BY <1>1 DEF Locals
  <2> HIDE DEF y
  <2>2. Goes(x, y)
    BY <1>1, <2>1, MoveGoes
  <2> QED
    BY <2>2 DEF y
<1>3. ASSUME NEW v \in Versions PROVE Goes(x, [x EXCEPT !.pc = pc, !.ver = v])
  <2> DEFINE y == [x EXCEPT !.pc = pc, !.ver = v]
  <2>1. /\ y \in Locals /\ y.pc = pc /\ y.at = x.at /\ y.completed = x.completed
        /\ y.mute = x.mute /\ y.wr = x.wr /\ y.out = x.out
    BY <1>1 DEF Locals
  <2> HIDE DEF y
  <2>2. Goes(x, y)
    BY <1>1, <2>1, MoveGoes
  <2> QED
    BY <2>2 DEF y
<1> QED
  BY <1>2, <1>3

LEMMA WroteFields ==
    ASSUME NEW x \in Locals, NEW collection \in {"dates", "plan", "sessions"}
    PROVE  LET y == Wrote(x, collection) IN
           /\ y \in Locals /\ Like(x, y) /\ y.ver = x.ver /\ y.alone = x.alone
           /\ y.wrote = x.wrote \union {collection}
BY DEF Wrote, Locals, Like

(* A run that wrote, and goes on, leaves its course or fails. *)
LEMMA WroteGoes ==
    ASSUME NEW x \in Locals, Own(x), x.wr = None, x.pc \in Visiting,
           NEW collection \in {"dates", "plan", "sessions"}
    PROVE  LET z == Wrote(x, collection) IN
           /\ \A pc \in PerCourse : Goes(x, [z EXCEPT !.pc = pc])
           /\ \A outcome \in Outcomes \ {"open"} : Goes(x, Leave(z, outcome))
           /\ Goes(x, Raise(z))
<1> DEFINE z == Wrote(x, collection)
<1>1. z \in Locals /\ Like(x, z)
  BY WroteFields
<1> HIDE DEF z
<1>2. Own(z) /\ z.wr = None /\ z.pc \in Visiting
  BY <1>1, LikeOwn DEF Like
<1>3. z.pc \notin {"waiting"} \union Over
  BY <1>2 DEF Visiting, PerCourse, Over
<1>4. ASSUME NEW pc \in PerCourse PROVE Goes(x, [z EXCEPT !.pc = pc])
  BY <1>1, <1>2, StepGoes, LikeGoes
<1>5. ASSUME NEW outcome \in Outcomes \ {"open"} PROVE Goes(x, Leave(z, outcome))
  BY <1>1, <1>2, LeaveGoes, LikeGoes
<1>6. Goes(x, Raise(z))
  BY <1>1, <1>2, <1>3, RaiseGoes, LikeGoes
<1> QED
  BY <1>4, <1>5, <1>6 DEF z

LEMMA OutcomesAre ==
    /\ "unchanged" \in Outcomes \ {"open"} /\ "applied" \in Outcomes \ {"open"}
    /\ "skipped" \in Outcomes \ {"open"} /\ "ambiguous" \in Outcomes \ {"open"}
    /\ "unpublished" \in Outcomes \ {"open"} /\ "conflict" \in Outcomes \ {"open"}
    /\ "unavailable" \in Outcomes \ {"open"}
BY DEF Outcomes, Review, Settled

LEMMA VisitKeeps ==
    ASSUME Inv, NEW r \in Runs, NEW n \in 0..2,
           NEW answer \in Answers, Admit(r, n, answer)
    PROVE  Inv'
<1>1. At(r, "visit") /\ UNCHANGED <<official, store, clash, progress>>
  BY DEF Admit
<1>2. run[r] \in Locals /\ Own(run[r]) /\ run[r].wr = None /\ run[r].pc \in Visiting
  BY <1>1, HandOf DEF Visiting
<1>3. \A outcome \in Outcomes \ {"open"} : Goes(run[r], Leave(run[r], outcome))
  BY <1>2, LeaveGoes
<1>4. /\ Goes(run[r], [run[r] EXCEPT !.pc = "preview"])
      /\ Goes(run[r], [run[r] EXCEPT !.pc = "fetch"])
  BY <1>2, StepGoes DEF PerCourse
<1>5. \A y : Become(r, y) /\ Goes(run[r], y) => Inv'
  BY <1>1, StoreKeeps, BecomeInv
<1>6. CASE n = 0
  <2>1. Become(r, Leave(run[r], "skipped"))
    BY <1>6 DEF Admit
  <2> QED
    BY <1>3, <1>5, <2>1, OutcomesAre
<1>7. CASE n > 1
  <2>1. Become(r, Leave(run[r], "ambiguous"))
    BY <1>7 DEF Admit
  <2> QED
    BY <1>3, <1>5, <2>1, OutcomesAre
<1>8. CASE n = 1 /\ answer = "deferred"
  <2>1. Become(r, Leave(run[r], "unchanged"))
    BY <1>8 DEF Admit
  <2> QED
    BY <1>3, <1>5, <2>1, OutcomesAre
<1>9. CASE n = 1 /\ answer = "paused"
  <2>1. Become(r, Leave(run[r], "unavailable"))
    BY <1>9 DEF Admit
  <2> QED
    BY <1>3, <1>5, <2>1, OutcomesAre
<1>12. CASE n = 1 /\ answer = "not_published"
  <2>1. Become(r, Leave(run[r], "unpublished"))
    BY <1>12 DEF Admit
  <2> QED
    BY <1>3, <1>5, <2>1, OutcomesAre
<1>10. CASE n = 1 /\ answer = "shared"
  <2>1. Become(r, [run[r] EXCEPT !.pc = "preview"])
    BY <1>10 DEF Admit
  <2> QED
    BY <1>4, <1>5, <2>1
<1>11. CASE n = 1 /\ answer = "import"
  <2>1. Become(r, [run[r] EXCEPT !.pc = "fetch"])
    BY <1>11 DEF Admit
  <2> QED
    BY <1>4, <1>5, <2>1
<1> QED
  BY <1>6, <1>7, <1>8, <1>9, <1>10, <1>11, <1>12 DEF Answers

LEMMA FetchKeeps ==
    ASSUME Inv, NEW r \in Runs, Fetch(r)
    PROVE  Inv'
<1>1. At(r, "fetch") /\ UNCHANGED <<official, store, clash, progress>>
  BY DEF Fetch
<1>2. /\ run[r] \in Locals /\ Own(run[r]) /\ run[r].wr = None /\ run[r].pc \in Visiting
      /\ Here(r) \in Courses
  BY <1>1, HandOf DEF Visiting, PerCourse
<1>3. official[Here(r)] \in Versions
  BY <1>2 DEF Inv, TypeOK
<1>4. \A y : Become(r, y) /\ Goes(run[r], y) => Inv'
  BY <1>1, StoreKeeps, BecomeInv
<1>5. CASE official[Here(r)] = 0
  <2>1. Become(r, Leave(run[r], "unpublished"))
    BY <1>5 DEF Fetch
  <2> QED
    BY <1>2, <1>4, <2>1, LeaveGoes, OutcomesAre
<1>6. CASE official[Here(r)] # 0
  <2>1. Become(r, [run[r] EXCEPT !.pc = "dates", !.ver = official[Here(r)]])
    BY <1>6 DEF Fetch
  <2> QED
    BY <1>2, <1>3, <1>4, <2>1, StepGoes DEF PerCourse
<1> QED
  BY <1>5, <1>6

LEMMA ImportDatesKeeps ==
    ASSUME Inv, NEW r \in Runs, NEW heard \in BOOLEAN, ImportDates(r, heard)
    PROVE  Inv'
<1> DEFINE x == Wrote(run[r], "dates")
<1>1. /\ At(r, "dates") /\ UNCHANGED <<official, plan, sessions, clash, progress>>
      /\ dates' = [dates EXCEPT ![Here(r)] = x.ver]
      /\ Become(r, IF heard THEN [x EXCEPT !.pc = "plan"] ELSE Raise(x))
  BY DEF ImportDates
<1>2. /\ run[r] \in Locals /\ Own(run[r]) /\ run[r].wr = None /\ run[r].pc \in Visiting
  BY <1>1, HandOf DEF Visiting, PerCourse
<1>3. x.ver \in Versions
  BY <1>2, WroteFields DEF Locals
<1>4. Goes(run[r], [x EXCEPT !.pc = "plan"]) /\ Goes(run[r], Raise(x))
  BY <1>2, WroteGoes DEF PerCourse
<1> HIDE DEF x
<1>5. StoreTyped'
  BY <1>1, <1>3 DEF Inv, TypeOK, StoreTyped
<1>6. \A y : Become(r, y) /\ Goes(run[r], y) => Inv'
  BY <1>1, <1>5, BecomeInv
<1>7. CASE heard
  BY <1>1, <1>4, <1>6, <1>7
<1>8. CASE ~heard
  BY <1>1, <1>4, <1>6, <1>8
<1> QED
  BY <1>7, <1>8

LEMMA SavePlanKeeps ==
    ASSUME Inv, NEW r \in Runs, NEW heard \in BOOLEAN, SavePlan(r, heard)
    PROVE  Inv'
<1> DEFINE x == Wrote(run[r], "plan")
<1>1. /\ At(r, "plan") /\ UNCHANGED <<official, dates, sessions, clash, progress>>
      /\ plan' = [plan EXCEPT ![Here(r)] = x.ver]
      /\ Become(r, IF heard THEN [x EXCEPT !.pc = "preview"] ELSE Raise(x))
  BY DEF SavePlan
<1>2. /\ run[r] \in Locals /\ Own(run[r]) /\ run[r].wr = None /\ run[r].pc \in Visiting
  BY <1>1, HandOf DEF Visiting, PerCourse
<1>3. x.ver \in Versions
  BY <1>2, WroteFields DEF Locals
<1>4. Goes(run[r], [x EXCEPT !.pc = "preview"]) /\ Goes(run[r], Raise(x))
  BY <1>2, WroteGoes DEF PerCourse
<1> HIDE DEF x
<1>5. StoreTyped'
  BY <1>1, <1>3 DEF Inv, TypeOK, StoreTyped
<1>6. \A y : Become(r, y) /\ Goes(run[r], y) => Inv'
  BY <1>1, <1>5, BecomeInv
<1>7. CASE heard
  BY <1>1, <1>4, <1>6, <1>7
<1>8. CASE ~heard
  BY <1>1, <1>4, <1>6, <1>8
<1> QED
  BY <1>7, <1>8

LEMMA PreviewKeeps ==
    ASSUME Inv, NEW r \in Runs, Preview(r)
    PROVE  Inv'
<1>1. At(r, "preview") /\ UNCHANGED <<official, store, clash, progress>>
  BY DEF Preview
<1>2. /\ run[r] \in Locals /\ Own(run[r]) /\ run[r].wr = None /\ run[r].pc \in Visiting
  BY <1>1, HandOf DEF Visiting, PerCourse
<1>3. \A y : Become(r, y) /\ Goes(run[r], y) => Inv'
  BY <1>1, StoreKeeps, BecomeInv
<1>4. \A outcome \in Outcomes \ {"open"} : Goes(run[r], Leave(run[r], outcome))
  BY <1>2, LeaveGoes
<1>5. Goes(run[r], [run[r] EXCEPT !.pc = "apply"])
  BY <1>2, StepGoes DEF PerCourse
<1>6. \/ Become(r, Leave(run[r], "conflict")) \/ Become(r, Leave(run[r], "unchanged"))
      \/ Become(r, [run[r] EXCEPT !.pc = "apply"])
  BY DEF Preview
<1> QED
  BY <1>3, <1>4, <1>5, <1>6, OutcomesAre

LEMMA ApplyKeeps ==
    ASSUME Inv, NEW r \in Runs, Apply(r)
    PROVE  Inv'
<1>1. At(r, "apply") /\ UNCHANGED <<official, store, clash, progress>>
  BY DEF Apply
<1>2. /\ run[r] \in Locals /\ Own(run[r]) /\ run[r].wr = None /\ run[r].pc \in Visiting
      /\ Here(r) \in Courses
  BY <1>1, HandOf DEF Visiting, PerCourse
<1>3. \A y : Become(r, y) /\ Goes(run[r], y) => Inv'
  BY <1>1, StoreKeeps, BecomeInv
<1>4. Goes(run[r], Leave(run[r], "applied"))
  BY <1>2, LeaveGoes, OutcomesAre
<1>5. Goes(run[r], [run[r] EXCEPT !.pc = "commit", !.ver = plan[Here(r)]])
  <2>1. plan[Here(r)] \in Versions
    BY <1>2 DEF Inv, TypeOK
  <2> QED
    BY <1>2, <2>1, StepGoes DEF PerCourse
<1>6. \/ Become(r, Leave(run[r], "applied"))
      \/ Become(r, [run[r] EXCEPT !.pc = "commit", !.ver = plan[Here(r)]])
  BY DEF Apply
<1> QED
  BY <1>3, <1>4, <1>5, <1>6

LEMMA CommitKeeps ==
    ASSUME Inv, NEW r \in Runs, NEW heard \in BOOLEAN, Commit(r, heard)
    PROVE  Inv'
<1> DEFINE x == Wrote(run[r], "sessions")
<1>1. /\ At(r, "commit") /\ UNCHANGED <<official, dates, plan, clash, progress>>
      /\ sessions' = [sessions EXCEPT ![Here(r)] = x.ver]
      /\ Become(r, IF heard THEN Leave(x, "applied") ELSE Raise(x))
  BY DEF Commit
<1>2. /\ run[r] \in Locals /\ Own(run[r]) /\ run[r].wr = None /\ run[r].pc \in Visiting
  BY <1>1, HandOf DEF Visiting, PerCourse
<1>3. x.ver \in Versions
  BY <1>2, WroteFields DEF Locals
<1>4. Goes(run[r], Leave(x, "applied")) /\ Goes(run[r], Raise(x))
  BY <1>2, WroteGoes, OutcomesAre
<1> HIDE DEF x
<1>5. StoreTyped'
  BY <1>1, <1>3 DEF Inv, TypeOK, StoreTyped
<1>6. \A y : Become(r, y) /\ Goes(run[r], y) => Inv'
  BY <1>1, <1>5, BecomeInv
<1>7. CASE heard
  BY <1>1, <1>4, <1>6, <1>7
<1>8. CASE ~heard
  BY <1>1, <1>4, <1>6, <1>8
<1> QED
  BY <1>7, <1>8

LEMMA StagesKeep ==
    ASSUME Inv, NEW r \in Runs, Siga(r) \/ Moodle(r)
    PROVE  Inv'
<1>1. UNCHANGED <<official, store, clash, progress>>
  BY DEF Siga, Moodle
<1>2. run[r] \in Locals /\ Own(run[r])
  BY LocalsOf
<1>3. \A y : Become(r, y) /\ Goes(run[r], y) => Inv'
  BY <1>1, StoreKeeps, BecomeInv
<1>4. CASE Siga(r)
  <2>1. /\ run[r].wr = None /\ run[r].pc = "siga"
        /\ Become(r, Observed([run[r] EXCEPT !.pc = "moodle"], 1))
    BY <1>4 DEF Siga, At
  <2>2. "moodle" \in PCs /\ 1 \in 1..2
    BY DEF PCs
  <2>3. Goes(run[r], Observed([run[r] EXCEPT !.pc = "moodle"], 1))
    BY <1>2, <2>1, <2>2, ObservedGoes
  <2> QED
    BY <1>3, <2>1, <2>3
<1>5. CASE Moodle(r)
  <2>1. /\ run[r].wr = None /\ run[r].pc = "moodle"
        /\ Become(r, Observed([run[r] EXCEPT !.pc = Visit(run[r])], 2))
    BY <1>5 DEF Moodle, At
  <2>2. Visit(run[r]) \in PCs /\ 2 \in 1..2
    BY DEF PCs, Visit
  <2>3. Goes(run[r], Observed([run[r] EXCEPT !.pc = Visit(run[r])], 2))
    BY <1>2, <2>1, <2>2, ObservedGoes
  <2> QED
    BY <1>3, <2>1, <2>3
<1> QED
  BY <1>4, <1>5

LEMMA FailuresKeep ==
    ASSUME Inv, NEW r \in Runs, FatalFailure(r) \/ CourseFailure(r)
    PROVE  Inv'
<1>1. UNCHANGED <<official, store, clash, progress>>
  BY DEF FatalFailure, CourseFailure
<1>2. run[r] \in Locals /\ Own(run[r])
  BY LocalsOf
<1>3. \A y : Become(r, y) /\ Goes(run[r], y) => Inv'
  BY <1>1, StoreKeeps, BecomeInv
<1>4. CASE FatalFailure(r)
  <2>1. /\ run[r].wr = None /\ run[r].pc \in PerCourse \union {"siga", "moodle", "visit"}
        /\ Become(r, Raise(run[r]))
    BY <1>4 DEF FatalFailure, At
  <2>2. run[r].pc \notin {"waiting"} \union Over
    BY <2>1 DEF PerCourse, Over
  <2>3. Goes(run[r], Raise(run[r]))
    BY <1>2, <2>1, <2>2, RaiseGoes
  <2> QED
    BY <1>3, <2>1, <2>3
<1>5. CASE CourseFailure(r)
  <2>1. /\ run[r].wr = None /\ run[r].pc \in Visiting
        /\ Become(r, Leave(run[r], "unavailable"))
    BY <1>5 DEF CourseFailure, At, Visiting
  <2>2. Goes(run[r], Leave(run[r], "unavailable"))
    BY <1>2, <2>1, LeaveGoes, OutcomesAre
  <2> QED
    BY <1>3, <2>1, <2>2
<1> QED
  BY <1>4, <1>5

LEMMA LastKeeps ==
    ASSUME Inv, NEW r \in Runs, Last(r)
    PROVE  Inv'
<1>1. /\ UNCHANGED <<official, store, clash, progress>>
      /\ run[r].pc = "last" /\ run[r].wr = None
  BY DEF Last, At
<1>2. run[r] \in Locals /\ Own(run[r])
  BY LocalsOf
<1>3. \A y : Become(r, y) /\ Goes(run[r], y) => Inv'
  BY <1>1, StoreKeeps, BecomeInv
<1>4. Reviews(run[r]) \in Nat
  BY ReviewsNumber
<1>5. CASE Reviews(run[r]) > MaxReviews
  <2>1. Become(r, Raise(run[r]))
    BY <1>5 DEF Last
  <2>2. Goes(run[r], Raise(run[r]))
    BY <1>1, <1>2, RaiseGoes DEF Over
  <2> QED
    BY <1>3, <2>1, <2>2
<1>6. CASE ~(Reviews(run[r]) > MaxReviews)
  <2> DEFINE status == IF Reviews(run[r]) > 0 THEN "partial" ELSE "succeeded"
             y == Writes([run[r] EXCEPT !.pc = "ended", !.completed = 3], status)
  <2>1. Become(r, y)
    BY <1>6 DEF Last
  <2>2. status \in {"partial", "succeeded"} /\ (status = "succeeded" => Reviews(run[r]) = 0)
    BY <1>4
  <2> HIDE DEF status
  <2>3. Goes(run[r], y)
    BY <1>1, <1>2, <2>2, LastGoes
  <2> QED
    BY <1>3, <2>1, <2>3
<1> QED
  BY <1>5, <1>6

LEMMA KillKeeps ==
    ASSUME Inv, NEW r \in Runs, Kill(r)
    PROVE  Inv'
<1> DEFINE y == [run[r] EXCEPT !.pc = "raised", !.mute = TRUE, !.wr = None]
<1>1. /\ UNCHANGED <<official, store, clash, progress>> /\ Become(r, y)
  BY DEF Kill
<1>2. run[r] \in Locals /\ Own(run[r]) /\ run[r].pc # "waiting"
  BY LocalsOf DEF Kill, Active, Own, Writing
<1>3. Goes(run[r], y)
  BY <1>2, KillGoes
<1> QED
  BY <1>1, <1>3, StoreKeeps, BecomeInv

(* A run beside which another one begins, or the user edits.               *)
LEMMA CrossedGoes ==
    ASSUME Inv, NEW r \in Runs
    PROVE  /\ [run[r] EXCEPT !.alone = FALSE] \in Locals
           /\ Like(run[r], [run[r] EXCEPT !.alone = FALSE])
           /\ Goes(run[r], [run[r] EXCEPT !.alone = FALSE])
           /\ Goes(run[r], run[r])
<1>1. run[r] \in Locals /\ Own(run[r])
  BY LocalsOf
<1>2. /\ [run[r] EXCEPT !.alone = FALSE] \in Locals
      /\ Like(run[r], [run[r] EXCEPT !.alone = FALSE])
  BY <1>1 DEF Locals, Like
<1>3. Like(run[r], run[r])
  BY DEF Like
<1> QED
  BY <1>1, <1>2, <1>3, StaysGoes

LEMMA BeginKeeps ==
    ASSUME Inv, NEW r \in Runs, Begin(r)
    PROVE  Inv'
<1> DEFINE alone == \A p \in Runs : ~Active(p)
           y == Writes([Waiting EXCEPT !.pc = "siga", !.mute = r \notin Followed,
                                       !.alone = alone], "running")
<1>1. /\ run[r] = Waiting /\ UNCHANGED <<official, store, clash, progress>>
      /\ run' = [q \in Runs |-> IF q = r THEN y
                                ELSE IF Active(q) THEN [run[q] EXCEPT !.alone = FALSE]
                                ELSE run[q]]
  BY DEF Begin
<1>2. Goes(Waiting, y)
  <2>1. alone \in BOOLEAN /\ (r \notin Followed) \in BOOLEAN
    OBVIOUS
  <2> HIDE DEF alone
  <2> QED
    BY <2>1, BeginGoes
<1> HIDE DEF y
<1>3. \A q \in Runs : Goes(run[q], run'[q])
  BY <1>1, <1>2, CrossedGoes
<1>4. run' \in [Runs -> Locals]
  <2>1. \A q \in Runs : run'[q] \in Locals
    BY <1>3 DEF Goes
  <2> QED
    BY <1>1, <2>1
<1> QED
  BY <1>1, <1>3, <1>4, StoreKeeps, RunsInv

LEMMA PublishKeeps ==
    ASSUME Inv, NEW c \in Changing, NEW v \in Versions, Publish(c, v)
    PROVE  Inv'
<1>1. UNCHANGED <<store, clash, run, progress>> /\ official' = [official EXCEPT ![c] = v]
  BY DEF Publish
<1>2. StoreTyped'
  BY <1>1 DEF Inv, TypeOK, StoreTyped, store
<1>3. run' \in [Runs -> Locals]
  BY <1>1 DEF Inv, TypeOK, Locals
<1>4. \A r \in Runs : Goes(run[r], run'[r])
  BY <1>1, CrossedGoes
<1> QED
  BY <1>1, <1>2, <1>3, <1>4, RunsInv

LEMMA EditKeeps ==
    ASSUME Inv, NEW c \in Changing, NEW b \in BOOLEAN, NEW v \in Versions, Edit(c, b, v)
    PROVE  Inv'
<1>1. /\ UNCHANGED <<official, dates, plan, progress>>
      /\ sessions' = [sessions EXCEPT ![c] = v]
      /\ clash' = IF b THEN clash \union {c} ELSE clash \ {c}
      /\ run' = [q \in Runs |-> IF Active(q) THEN [run[q] EXCEPT !.alone = FALSE] ELSE run[q]]
  BY DEF Edit
<1>2. StoreTyped'
  BY <1>1, ChangingAssumption DEF Inv, TypeOK, StoreTyped, Courses
<1>3. \A q \in Runs : Goes(run[q], run'[q])
  BY <1>1, CrossedGoes
<1>4. run' \in [Runs -> Locals]
  <2>1. \A q \in Runs : run'[q] \in Locals
    BY <1>3 DEF Goes
  <2> QED
    BY <1>1, <2>1
<1> QED
  BY <1>1, <1>2, <1>3, <1>4, RunsInv

(* What a run has yet to write is a document, and tells the truth.         *)
LEMMA FieldsTruth ==
    ASSUME Inv, NEW r \in Runs, run[r].wr # None
    PROVE  /\ Fields(r) \in Documents /\ Fields(r).run = r
           /\ Rank(Fields(r)) = RankOf(run[r]) /\ Truth(Fields(r), run[r])
<1>1. run[r] \in Locals /\ Own(run[r])
  BY LocalsOf
<1>2. run[r].wr \in Statuses /\ run[r].completed \in 0..3
  BY <1>1 DEF Locals
<1>3. (IF run[r].wr = "partial" THEN Reviews(run[r]) ELSE 0) \in 0..N
  <2>1. Reviews(run[r]) \in 0..N
    BY ReviewsNumber
  <2>2. 0 \in 0..N
    BY NAssumption
  <2> QED
    BY <2>1, <2>2
<1>4. Fields(r) \in Documents
  BY <1>2, <1>3 DEF Fields, Documents
<1>5. /\ Fields(r).run = r /\ Fields(r).status = run[r].wr
      /\ Fields(r).completed = run[r].completed
  BY DEF Fields
<1>6. Rank(Fields(r)) = RankOf(run[r])
  BY <1>5 DEF Rank, RankOf
<1>7. run[r].wr = "failed" => run[r].pc = "raised"
  BY <1>1, <1>2 DEF Own, Writing, Over
<1>8. run[r].wr \in {"partial", "succeeded"} => run[r].pc = "ended"
  BY <1>1, <1>2 DEF Own, Writing, Over
<1>9. run[r].pc = "ended" => \A c \in Courses : run[r].out[c] # "open"
  BY <1>1, NAssumption DEF Own, Staged, Courses
<1>10. run[r].wr = "succeeded" => \A c \in Courses : run[r].out[c] \in Settled
  BY <1>1, <1>2, NoneAssumption DEF Own, Writing
<1>11. Truth(Fields(r), run[r])
  BY <1>2, <1>5, <1>7, <1>8, <1>9, <1>10 DEF Truth
<1> QED
  BY <1>4, <1>5, <1>6, <1>11

(* What showing a document that is ahead of the shown does.                *)
LEMMA ShowDoes ==
    ASSUME Inv, NEW d \in Documents, Rank(d) > shown[d.run], Show(d)
    PROVE  /\ doc' = d /\ shown' \in [Runs -> -1..4]
           /\ \A q \in Runs : shown'[q] = IF q = d.run THEN Rank(d) ELSE shown[q]
<1>1. Rank(d) \in 0..4 /\ d.run \in Runs
  BY RankType DEF Documents
<1>2. shown \in [Runs -> -1..4]
  BY DEF Inv, TypeOK
<1>3. doc' = d /\ shown' = [shown EXCEPT ![d.run] = IF Rank(d) > @ THEN Rank(d) ELSE @]
  BY DEF Show
<1>4. shown' = [shown EXCEPT ![d.run] = Rank(d)]
  BY <1>3
<1> QED
  BY <1>1, <1>2, <1>3, <1>4

LEMMA WriteDoes ==
    ASSUME Inv, NEW r \in Runs, NEW heard \in BOOLEAN, NEW fate \in {"now", "later", "never"},
           Write(r, heard, fate)
    PROVE  /\ run[r].wr # None /\ Rank(Fields(r)) > shown[r] /\ Fields(r) \in Documents
           /\ Fields(r).run = r
           /\ fate = "now" => doc' = Fields(r)
           /\ fate # "now" => UNCHANGED <<doc, shown>>
           /\ shown' \in [Runs -> -1..4]
           /\ \A q \in Runs : shown'[q] = IF q = r /\ fate = "now" THEN Rank(Fields(r))
                                          ELSE shown[q]
<1>1. run[r].wr # None
  BY DEF Write
<1>2. /\ Fields(r) \in Documents /\ Fields(r).run = r /\ Rank(Fields(r)) = RankOf(run[r])
  BY <1>1, FieldsTruth
<1>3. shown[r] < RankOf(run[r])
  BY <1>1, LocalsOf DEF Ahead
<1>4. RankOf(run[r]) \in Int /\ shown[r] \in Int
  BY LocalsOf DEF RankOf, Locals
<1>5. Rank(Fields(r)) > shown[r]
  BY <1>2, <1>3, <1>4
<1>6. CASE fate = "now"
  <2>1. Show(Fields(r))
    BY <1>6 DEF Write
  <2> QED
    BY <1>1, <1>2, <1>5, <1>6, <2>1, ShowDoes
<1>7. CASE fate # "now"
  <2>1. UNCHANGED <<doc, shown>>
    BY <1>7 DEF Write
  <2>2. shown \in [Runs -> -1..4]
    BY DEF Inv, TypeOK
  <2> QED
    BY <1>1, <1>2, <1>5, <1>7, <2>1, <2>2
<1> QED
  BY <1>6, <1>7

LEMMA WriteKeeps ==
    ASSUME Inv, NEW r \in Runs, NEW heard \in BOOLEAN, NEW fate \in {"now", "later", "never"},
           Write(r, heard, fate)
    PROVE  Inv'
<1> DEFINE x == run[r]
           y == IF heard THEN [x EXCEPT !.wr = None] ELSE GivesUp(x)
           d == Fields(r)
<1>1. /\ x.wr # None /\ Rank(d) > shown[r] /\ d \in Documents /\ d.run = r
      /\ fate = "now" => doc' = d
      /\ fate # "now" => UNCHANGED <<doc, shown>>
      /\ shown' \in [Runs -> -1..4]
      /\ \A q \in Runs : shown'[q] = IF q = r /\ fate = "now" THEN Rank(d) ELSE shown[q]
  BY WriteDoes
<1>2. Rank(d) = RankOf(x) /\ Truth(d, x)
  BY <1>1, FieldsTruth
<1>3. /\ Become(r, y) /\ UNCHANGED <<official, store, clash>> /\ (heard => fate = "now")
      /\ late' = IF fate = "later" THEN late \union {d} ELSE late
  BY DEF Write
<1>4. x \in Locals /\ Own(x) /\ x.pc # "waiting" /\ (x.pc \notin Over => x.wr = "running")
  BY <1>1, LocalsOf DEF Own, Writing
<1>5. /\ y \in Locals /\ y.pc = x.pc /\ y.at = x.at /\ y.completed = x.completed
      /\ y.wr = None /\ y.out = x.out /\ (x.mute => y.mute) /\ (~heard => y.mute)
  BY <1>4 DEF GivesUp, Locals
<1> HIDE DEF y, d
<1>6. run' \in [Runs -> Locals] /\ \A q \in Runs : run'[q] = IF q = r THEN y ELSE run[q]
  BY <1>3, <1>5 DEF Become, Inv, TypeOK, Locals
<1>7. TypeOK'
  <2>1. late' \subseteq Documents /\ doc' \in Documents \union {None}
    BY <1>1, <1>3 DEF Inv, TypeOK
  <2>2. StoreTyped'
    BY <1>3, StoreKeeps
  <2> QED
    BY <1>1, <1>6, <2>1, <2>2 DEF TypeOK, StoreTyped, Locals
<1>8. Own(y)
  <2>1. Staged(y)
    BY <1>4, <1>5 DEF Own, Staged
  <2>2. Writing(y)
    BY <1>5 DEF Writing
  <2> QED
    BY <2>1, <2>2 DEF Own
<1>9. Later(x, y)
  BY <1>1, <1>4, <1>5 DEF Later, Silent, Locals
<1>10. Truth(d, y)
  BY <1>1, <1>2, <1>4, <1>5, <1>9, TruthLasts
<1>11. RunsFit'
  <2> SUFFICES ASSUME NEW q \in Runs PROVE Own(run'[q]) /\ Ahead(run'[q], shown'[q])
    BY DEF RunsFit
  <2>1. CASE q # r
    BY <1>1, <1>6, <2>1, LocalsOf
  <2>2. CASE q = r
    <3>1. heard /\ y.pc \notin Over => shown'[r] = y.completed
      BY <1>1, <1>2, <1>3, <1>4, <1>5 DEF RankOf
    <3>2. y.completed <= y.completed
      BY <1>5 DEF Locals
    <3>3. Ahead(y, shown'[r])
      BY <1>4, <1>5, <3>1, <3>2 DEF Ahead
    <3> QED
      BY <1>6, <1>8, <2>2, <3>3
  <2> QED
    BY <2>1, <2>2
<1>12. ASSUME NEW e \in late
       PROVE  /\ e.run # r /\ e.run \in Runs /\ Silent(run'[e.run]) /\ Truth(e, run'[e.run])
              /\ Rank(e) > shown'[e.run]
  <2>1. e \in Documents /\ e.run \in Runs
    BY DEF Inv, TypeOK, Documents
  <2>2. Silent(run[e.run]) /\ Truth(e, run[e.run]) /\ Rank(e) > shown[e.run]
    BY DEF Inv, LateFits
  <2>3. e.run # r
    BY <1>1, <2>2 DEF Silent
  <2> QED
    BY <1>1, <1>6, <2>1, <2>2, <2>3
<1>13. LateFits'
  <2>1. CASE fate = "later"
    <3>1. Silent(y) /\ Rank(d) > shown'[r]
      BY <1>1, <1>3, <1>4, <1>5, <2>1 DEF Silent
    <3>2. run'[d.run] = y /\ shown'[d.run] = shown'[r]
      BY <1>1, <1>6
    <3>3. \A e \in late' : Silent(run'[e.run]) /\ Truth(e, run'[e.run]) /\ Rank(e) > shown'[e.run]
      BY <1>1, <1>3, <1>10, <1>12, <2>1, <3>1, <3>2
    <3>4. \A e, f \in late' : e.run = f.run => e = f
      BY <1>1, <1>3, <1>12, <2>1 DEF Inv, LateFits
    <3> QED
      BY <3>3, <3>4 DEF LateFits
  <2>2. CASE fate # "later"
    <3>1. \A e \in late' : Silent(run'[e.run]) /\ Truth(e, run'[e.run]) /\ Rank(e) > shown'[e.run]
      BY <1>3, <1>12, <2>2
    <3>2. \A e, f \in late' : e.run = f.run => e = f
      BY <1>3, <2>2 DEF Inv, LateFits
    <3> QED
      BY <3>1, <3>2 DEF LateFits
  <2> QED
    BY <2>1, <2>2
<1>14. DocFits'
  <2>1. CASE fate = "now"
    BY <1>1, <1>6, <1>10, <2>1 DEF DocFits
  <2>2. CASE fate # "now"
    <3> SUFFICES ASSUME doc # None PROVE Truth(doc, run'[doc.run])
      BY <1>1, <2>2 DEF DocFits
    <3>1. doc \in Documents /\ doc.run \in Runs /\ Truth(doc, run[doc.run])
      BY DEF Inv, TypeOK, DocFits, Documents
    <3>2. CASE doc.run = r
      BY <1>4, <1>5, <1>6, <1>9, <3>1, <3>2, TruthLasts
    <3>3. CASE doc.run # r
      BY <1>6, <3>1, <3>3
    <3> QED
      BY <3>2, <3>3
  <2> QED
    BY <2>1, <2>2
<1> QED
  BY <1>7, <1>11, <1>13, <1>14 DEF Inv

LEMMA ArriveKeeps ==
    ASSUME Inv, NEW d \in late, Arrive(d)
    PROVE  Inv'
<1>1. /\ late' = late \ {d} /\ Show(d) /\ UNCHANGED <<official, store, clash, run>>
  BY DEF Arrive
<1>2. d \in Documents /\ d.run \in Runs
  BY DEF Inv, TypeOK, Documents
<1>3. Silent(run[d.run]) /\ Truth(d, run[d.run]) /\ Rank(d) > shown[d.run]
  BY DEF Inv, LateFits
<1>4. /\ doc' = d /\ shown' \in [Runs -> -1..4]
      /\ \A q \in Runs : shown'[q] = IF q = d.run THEN Rank(d) ELSE shown[q]
  BY <1>1, <1>2, <1>3, ShowDoes
<1>5. TypeOK'
  <2>1. StoreTyped'
    BY <1>1, StoreKeeps
  <2> QED
    BY <1>1, <1>2, <1>4, <2>1 DEF Inv, TypeOK, StoreTyped
<1>6. RunsFit'
  <2> SUFFICES ASSUME NEW q \in Runs PROVE Own(run[q]) /\ Ahead(run[q], shown'[q])
    BY <1>1 DEF RunsFit
  <2>1. Own(run[q]) /\ Ahead(run[q], shown[q])
    BY LocalsOf
  <2>2. CASE q = d.run
    BY <1>3, <2>1, <2>2 DEF Silent, Ahead
  <2>3. CASE q # d.run
    BY <1>4, <2>1, <2>3
  <2> QED
    BY <2>2, <2>3
<1>7. LateFits'
  <2>1. \A e \in late' : e \in late /\ e.run # d.run /\ e.run \in Runs
    BY <1>1 DEF Inv, LateFits, TypeOK, Documents
  <2>2. \A e \in late' : Silent(run[e.run]) /\ Truth(e, run[e.run]) /\ Rank(e) > shown'[e.run]
    BY <1>4, <2>1 DEF Inv, LateFits
  <2>3. \A e, f \in late' : e.run = f.run => e = f
    BY <2>1 DEF Inv, LateFits
  <2> QED
    BY <1>1, <2>2, <2>3 DEF LateFits
<1>8. DocFits'
  BY <1>1, <1>3, <1>4 DEF DocFits
<1> QED
  BY <1>5, <1>6, <1>7, <1>8 DEF Inv

LEMMA StutterKeeps ==
    ASSUME Inv, UNCHANGED vars
    PROVE  Inv'
<1>1. UNCHANGED <<official, store, clash, run, progress>>
  BY DEF vars
<1>2. StoreTyped' /\ run' \in [Runs -> Locals]
  BY <1>1, StoreKeeps DEF Inv, TypeOK, Locals
<1>3. \A r \in Runs : Goes(run[r], run'[r])
  BY <1>1, CrossedGoes
<1> QED
  BY <1>1, <1>2, <1>3, RunsInv

LEMMA StepInv == Inv /\ [Next]_vars => Inv'
<1> SUFFICES ASSUME Inv, [Next]_vars PROVE Inv'
  OBVIOUS
<1>1. CASE UNCHANGED vars
  BY <1>1, StutterKeeps
<1>2. ASSUME NEW r \in Runs, Begin(r) \/ Kill(r) PROVE Inv'
  BY <1>2, BeginKeeps, KillKeeps
<1>3. ASSUME NEW r \in Runs, Step(r) PROVE Inv'
  <2>1. CASE Siga(r) \/ Moodle(r)
    BY <2>1, StagesKeep
  <2>2. CASE Fetch(r) \/ Preview(r) \/ Apply(r)
    BY <2>2, FetchKeeps, PreviewKeeps, ApplyKeeps
  <2>3. CASE Last(r) \/ FatalFailure(r) \/ CourseFailure(r)
    BY <2>3, LastKeeps, FailuresKeep
  <2>4. ASSUME NEW n \in 0..2, NEW a \in Answers, Admit(r, n, a)
        PROVE  Inv'
    BY <2>4, VisitKeeps
  <2>5. ASSUME NEW h \in BOOLEAN, ImportDates(r, h) \/ SavePlan(r, h) \/ Commit(r, h)
        PROVE  Inv'
    BY <2>5, ImportDatesKeeps, SavePlanKeeps, CommitKeeps
  <2>6. ASSUME NEW h \in BOOLEAN, NEW f \in {"now", "later", "never"}, Write(r, h, f)
        PROVE  Inv'
    BY <2>6, WriteKeeps
  <2> QED
    BY <1>3, <2>1, <2>2, <2>3, <2>4, <2>5, <2>6 DEF Step
<1>4. ASSUME NEW d \in late, Arrive(d) PROVE Inv'
  BY <1>4, ArriveKeeps
<1>5. ASSUME NEW c \in Changing, NEW v \in Versions, Publish(c, v) PROVE Inv'
  BY <1>5, PublishKeeps
<1>6. ASSUME NEW c \in Changing, NEW b \in BOOLEAN, NEW v \in Versions, Edit(c, b, v)
      PROVE  Inv'
  BY <1>6, EditKeeps
<1> QED
  BY <1>1, <1>2, <1>3, <1>4, <1>5, <1>6 DEF Next

(* What the document, and the writes on their way to it, may say of runs.  *)
LEMMA SpecInv == Spec => []Inv
BY InitInv, StepInv, PTL DEF Spec

(* Runs, documents and history keep their types. *)
THEOREM SyncTypes == Spec => []TypeOK
<1>1. Inv => TypeOK
  BY DEF Inv
<1> QED
  BY <1>1, SpecInv, PTL

(* academic_sync_progress.py: the document tells an end only of a run that *)
(* had it, for any number of runs that write it beside each other and any  *)
(* fate of their writes.                                                   *)
THEOREM ProgressTells == Spec => []ProgressTruthful
<1>1. Inv => ProgressTruthful
  <2> SUFFICES ASSUME Inv, doc # None PROVE ProgressTruthful
    BY DEF ProgressTruthful
  <2>1. doc \in Documents /\ Truth(doc, run[doc.run])
    BY DEF Inv, TypeOK, DocFits
  <2>2. CASE doc.status = "running"
    BY <2>1, <2>2 DEF ProgressTruthful, Truth
  <2>3. CASE doc.status = "failed"
    BY <2>1, <2>3 DEF ProgressTruthful, Truth
  <2>4. CASE doc.status = "partial"
    BY <2>1, <2>4 DEF ProgressTruthful, Truth
  <2>5. CASE doc.status = "succeeded"
    BY <2>1, <2>5 DEF ProgressTruthful, Truth
  <2> QED
    BY <2>1, <2>2, <2>3, <2>4, <2>5 DEF Documents, Statuses
<1> QED
  BY <1>1, SpecInv, PTL

LEMMA OthersKeepDoc ==
    ASSUME [Next]_vars, \A r \in Runs, h \in BOOLEAN, f \in {"now", "later", "never"} :
                           ~Write(r, h, f),
           \A d \in late : ~Arrive(d)
    PROVE  doc' = doc
<1>1. CASE UNCHANGED vars
  BY <1>1 DEF vars, progress
<1>2. ASSUME NEW r \in Runs, Begin(r) \/ Kill(r) PROVE doc' = doc
  <2>1. UNCHANGED progress
    BY <1>2 DEF Begin, Kill
  <2> QED
    BY <2>1 DEF progress
<1>3. ASSUME NEW r \in Runs, Step(r) PROVE doc' = doc
  <2>1. UNCHANGED progress
    <3>1. CASE Siga(r) \/ Moodle(r) \/ Fetch(r)
      BY <3>1 DEF Siga, Moodle, Fetch
    <3>2. CASE Preview(r) \/ Apply(r) \/ Last(r)
      BY <3>2 DEF Preview, Apply, Last
    <3>3. CASE FatalFailure(r) \/ CourseFailure(r)
      BY <3>3 DEF FatalFailure, CourseFailure
    <3>4. ASSUME NEW n \in 0..2, NEW a \in Answers,
                 Admit(r, n, a)
          PROVE  UNCHANGED progress
      BY <3>4 DEF Admit
    <3>5. ASSUME NEW h \in BOOLEAN, ImportDates(r, h) \/ SavePlan(r, h) \/ Commit(r, h)
          PROVE  UNCHANGED progress
      BY <3>5 DEF ImportDates, SavePlan, Commit
    <3> QED
      BY <1>3, <3>1, <3>2, <3>3, <3>4, <3>5 DEF Step
  <2> QED
    BY <2>1 DEF progress
<1>4. ASSUME NEW c \in Changing, NEW v \in Versions, Publish(c, v) PROVE doc' = doc
  BY <1>4 DEF Publish, progress
<1>5. ASSUME NEW c \in Changing, NEW b \in BOOLEAN, NEW v \in Versions, Edit(c, b, v)
      PROVE  doc' = doc
  BY <1>5 DEF Edit, progress
<1> QED
  BY <1>1, <1>2, <1>3, <1>4, <1>5 DEF Next

LEMMA StepForward == Inv /\ [Next]_vars => Forward
<1> SUFFICES ASSUME Inv, [Next]_vars, doc' # doc PROVE Rank(doc') > shown[doc'.run]
  BY DEF Forward
<1>1. ASSUME NEW r \in Runs, NEW h \in BOOLEAN, NEW f \in {"now", "later", "never"}, Write(r, h, f)
      PROVE  Rank(doc') > shown[doc'.run]
  <2>1. /\ Rank(Fields(r)) > shown[r] /\ Fields(r).run = r
        /\ f = "now" => doc' = Fields(r)
        /\ f # "now" => UNCHANGED <<doc, shown>>
    BY <1>1, WriteDoes
  <2>2. doc' = Fields(r)
    BY <2>1
  <2> QED
    BY <2>1, <2>2
<1>2. ASSUME NEW d \in late, Arrive(d) PROVE Rank(doc') > shown[doc'.run]
  <2>1. doc' = d
    BY <1>2 DEF Arrive, Show
  <2>2. Rank(d) > shown[d.run]
    BY DEF Inv, LateFits
  <2> QED
    BY <2>1, <2>2
<1> QED
  BY <1>1, <1>2, OthersKeepDoc

(* academic_sync_progress.py: what the document shows of a run only goes   *)
(* forward, whatever is lost, late or written by another run in between.   *)
THEOREM ProgressGoesForward == Spec => ProgressForward
BY SpecInv, StepForward, PTL DEF Spec, ProgressForward

(* What a run has of the course at hand, if nothing crossed it: the dates  *)
(* it imported are those of the plan it is about to save, and then of the  *)
(* one that is saved.                                                      *)
Holds(x, ds, p) ==
    /\ x.pc \in {"waiting", "siga", "moodle", "visit", "fetch", "dates"} => "dates" \notin x.wrote
    /\ x.alone /\ "dates" \in x.wrote =>
          /\ x.pc = "plan" => ds[x.at] = x.ver
          /\ x.pc \in {"preview", "apply", "commit"} => ds[x.at] = p[x.at]
          /\ x.pc = "commit" => x.ver = p[x.at]

AllHold == \A r \in Runs : Holds(run[r], dates, plan)
OneAlone == \A r, q \in Runs : Active(r) /\ run[r].alone /\ q # r => ~Active(q)

Agrees(x, y, ds, p, s) ==
    \A c \in Courses :
        /\ x.out[c] = "open" /\ y.out[c] \in {"unchanged", "applied"}
        /\ "dates" \in x.wrote /\ x.alone
        => ds[c] = p[c] /\ s[c] = p[c]

(* A step of a run r that becomes y. *)
Turn(r, y) ==
    /\ Become(r, y) /\ y \in Locals /\ Active(r) /\ y.alone = run[r].alone
    /\ Holds(y, dates', plan')
    /\ Agrees(run[r], y, dates', plan', sessions')

LEMMA TurnKeeps ==
    ASSUME Inv, AllHold, OneAlone, NEW r \in Runs, NEW y, Turn(r, y)
    PROVE  /\ AllHold' /\ OneAlone'
           /\ \A q \in Runs, c \in Courses : Agreed(q, c)
<1>1. \A q \in Runs : run'[q] = IF q = r THEN y ELSE run[q]
  BY DEF Turn, Become, Inv, TypeOK
<1>2. AllHold'
  <2> SUFFICES ASSUME NEW q \in Runs PROVE Holds(run'[q], dates', plan')
    BY DEF AllHold
  <2>1. CASE q = r
    BY <1>1, <2>1 DEF Turn
  <2>2. CASE q # r
    <3>1. run'[q] = run[q] /\ Holds(run[q], dates, plan)
      BY <1>1, <2>2 DEF AllHold
    <3>2. ~(run[q].alone /\ Active(q))
      BY <2>2 DEF OneAlone, Turn
    <3>3. run[q].alone => run[q].pc \notin {"plan", "preview", "apply", "commit"}
      BY <3>2 DEF Active
    <3> QED
      BY <3>1, <3>3 DEF Holds
  <2> QED
    BY <2>1, <2>2
<1>3. OneAlone'
  <2> SUFFICES ASSUME NEW p \in Runs, NEW q \in Runs, Active(p)', run'[p].alone, q # p, Active(q)'
               PROVE  FALSE
    BY DEF OneAlone
  <2>1. Active(p) /\ Active(q)
    BY <1>1 DEF Active, Turn
  <2>2. run[p].alone
    BY <1>1 DEF Turn
  <2> QED
    BY <2>1, <2>2 DEF OneAlone
<1>4. ASSUME NEW q \in Runs, NEW c \in Courses PROVE Agreed(q, c)
  <2>1. CASE q = r
    BY <1>1, <2>1 DEF Agreed, Became, Turn, Agrees
  <2>2. CASE q # r
    <3>1. run'[q] = run[q]
      BY <1>1, <2>2
    <3> QED
      BY <3>1 DEF Agreed, Became
  <2> QED
    BY <2>1, <2>2
<1> QED
  BY <1>2, <1>3, <1>4

(* A run that is done with a course holds nothing of the next.             *)
LEMMA LeaveHolds ==
    ASSUME NEW x \in Locals, NEW outcome \in Outcomes, x.at \in Courses, NEW ds, NEW p, NEW s,
           outcome \in {"unchanged", "applied"} /\ "dates" \in x.wrote /\ x.alone =>
              ds[x.at] = p[x.at] /\ s[x.at] = p[x.at]
    PROVE  /\ Leave(x, outcome) \in Locals /\ Leave(x, outcome).alone = x.alone
           /\ Holds(Leave(x, outcome), ds, p)
           /\ Agrees(x, Leave(x, outcome), ds, p, s)
<1> DEFINE y == Leave(x, outcome)
<1>1. /\ y \in Locals /\ y.pc \in {"visit", "last"} /\ y.alone = x.alone /\ y.wrote = {}
      /\ y.out = [x.out EXCEPT ![x.at] = outcome]
  BY LeaveFields
<1> HIDE DEF y
<1>2. Holds(y, ds, p)
  BY <1>1 DEF Holds
<1>3. \A c \in Courses : y.out[c] = IF c = x.at THEN outcome ELSE x.out[c]
  BY <1>1 DEF Locals
<1>4. Agrees(x, y, ds, p, s)
  BY <1>3 DEF Agrees
<1> QED
  BY <1>1, <1>2, <1>4 DEF y

LEMMA RaiseHolds ==
    ASSUME NEW x \in Locals, NEW ds, NEW p, NEW s
    PROVE  /\ Raise(x) \in Locals /\ Raise(x).alone = x.alone
           /\ Holds(Raise(x), ds, p) /\ Agrees(x, Raise(x), ds, p, s)
<1> DEFINE y == Raise(x)
<1>1. y \in Locals /\ y.pc = "raised" /\ y.out = x.out /\ y.alone = x.alone
  BY RaiseFields
<1> HIDE DEF y
<1>2. Holds(y, ds, p) /\ Agrees(x, y, ds, p, s)
  BY <1>1 DEF Holds, Agrees
<1> QED
  BY <1>1, <1>2 DEF y

(* No course is settled by a step that keeps the outcomes.                 *)
LEMMA SameOutAgrees ==
    ASSUME NEW x, NEW y, y.out = x.out, NEW ds, NEW p, NEW s
    PROVE  Agrees(x, y, ds, p, s)
BY DEF Agrees

LEMMA HandHolds ==
    ASSUME Inv, AllHold, NEW r \in Runs, NEW pc \in Visiting, At(r, pc)
    PROVE  /\ run[r] \in Locals /\ run[r].at \in Courses /\ Here(r) = run[r].at
           /\ run[r].pc = pc /\ Active(r) /\ Holds(run[r], dates, plan)
<1>1. run[r] \in Locals /\ run[r].at \in Courses /\ run[r].pc = pc
      /\ run[r].pc \notin {"waiting"} \union Over
  BY HandOf
<1>2. Active(r)
  BY <1>1 DEF Active, Over
<1> QED
  BY <1>1, <1>2 DEF AllHold, Here

LEMMA StagesTurn ==
    ASSUME Inv, AllHold, NEW r \in Runs, Siga(r) \/ Moodle(r)
    PROVE  \E y : Turn(r, y)
<1>1. run[r] \in Locals /\ Holds(run[r], dates, plan)
  BY LocalsOf DEF AllHold
<1>2. ASSUME NEW pc \in {"moodle", "visit", "last"}, NEW n \in 0..3,
             run[r].pc \in {"siga", "moodle"}, Become(r, Observed([run[r] EXCEPT !.pc = pc], n))
      PROVE  \E y : Turn(r, y)
  <2> DEFINE y == Observed([run[r] EXCEPT !.pc = pc], n)
  <2>1. pc \in PCs
    BY DEF PCs
  <2>2. /\ y \in Locals /\ y.pc = pc /\ y.out = run[r].out /\ y.alone = run[r].alone
        /\ y.wrote = run[r].wrote
    BY <1>1, <2>1, ObservedFields
  <2>3. Become(r, y)
    BY <1>2
  <2> HIDE DEF y
  <2>4. Holds(y, dates', plan')
    BY <1>1, <1>2, <2>2 DEF Holds
  <2>5. Agrees(run[r], y, dates', plan', sessions')
    BY <2>2, SameOutAgrees
  <2>6. Active(r)
    BY <1>2 DEF Active
  <2> QED
    BY <2>2, <2>3, <2>4, <2>5, <2>6 DEF Turn
<1>3. CASE Siga(r)
  <2>1. run[r].pc = "siga" /\ Become(r, Observed([run[r] EXCEPT !.pc = "moodle"], 1))
    BY <1>3 DEF Siga, At
  <2> QED
    BY <1>2, <2>1
<1>4. CASE Moodle(r)
  <2>1. run[r].pc = "moodle" /\ Become(r, Observed([run[r] EXCEPT !.pc = Visit(run[r])], 2))
    BY <1>4 DEF Moodle, At
  <2>2. Visit(run[r]) \in {"visit", "last"}
    BY DEF Visit
  <2> QED
    BY <1>2, <2>1, <2>2
<1> QED
  BY <1>3, <1>4

(* A step that keeps all but the pc, and perhaps the version in hand.      *)
LEMMA MoveTurn ==
    ASSUME Inv, AllHold, NEW r \in Runs, NEW from \in Visiting, At(r, from), NEW y \in Locals,
           y.at = run[r].at, y.out = run[r].out, y.alone = run[r].alone,
           y.wrote = run[r].wrote, Become(r, y), Holds(y, dates', plan')
    PROVE  \E z : Turn(r, z)
<1>1. Active(r)
  BY HandHolds
<1>2. Agrees(run[r], y, dates', plan', sessions')
  BY SameOutAgrees
<1> QED
  BY <1>1, <1>2 DEF Turn

LEMMA VisitTurns ==
    ASSUME Inv, AllHold, NEW r \in Runs, NEW n \in 0..2,
           NEW answer \in Answers, Admit(r, n, answer)
    PROVE  \E y : Turn(r, y)
<1>1. At(r, "visit") /\ UNCHANGED <<official, store, clash, progress>>
  BY DEF Admit
<1>2. /\ run[r] \in Locals /\ run[r].at \in Courses /\ run[r].pc = "visit" /\ Active(r)
      /\ "dates" \notin run[r].wrote
  BY <1>1, HandHolds DEF Visiting, Holds
<1>3. ASSUME NEW outcome \in Outcomes, Become(r, Leave(run[r], outcome))
      PROVE  \E y : Turn(r, y)
  <2>1. /\ Leave(run[r], outcome) \in Locals /\ Leave(run[r], outcome).alone = run[r].alone
        /\ Holds(Leave(run[r], outcome), dates', plan')
        /\ Agrees(run[r], Leave(run[r], outcome), dates', plan', sessions')
    BY <1>2, LeaveHolds
  <2> QED
    BY <1>2, <1>3, <2>1 DEF Turn
<1>4. ASSUME NEW pc \in {"preview", "fetch"}, Become(r, [run[r] EXCEPT !.pc = pc])
      PROVE  \E y : Turn(r, y)
  <2> DEFINE y == [run[r] EXCEPT !.pc = pc]
  <2>1. /\ y \in Locals /\ y.pc = pc /\ y.at = run[r].at /\ y.out = run[r].out
        /\ y.alone = run[r].alone /\ y.wrote = run[r].wrote
    BY <1>2 DEF Locals, PCs, PerCourse
  <2>2. Become(r, y)
    BY <1>4
  <2> HIDE DEF y
  <2>3. Holds(y, dates', plan')
    BY <1>2, <2>1 DEF Holds
  <2>4. "visit" \in Visiting
    BY DEF Visiting
  <2> QED
    BY <1>1, <2>1, <2>2, <2>3, <2>4, MoveTurn
<1>5. CASE n = 0
  <2>1. Become(r, Leave(run[r], "skipped"))
    BY <1>5 DEF Admit
  <2> QED
    BY <1>3, <2>1, OutcomesAre
<1>6. CASE n > 1
  <2>1. Become(r, Leave(run[r], "ambiguous"))
    BY <1>6 DEF Admit
  <2> QED
    BY <1>3, <2>1, OutcomesAre
<1>7. CASE n = 1 /\ answer = "deferred"
  <2>1. Become(r, Leave(run[r], "unchanged"))
    BY <1>7 DEF Admit
  <2> QED
    BY <1>3, <2>1, OutcomesAre
<1>8. CASE n = 1 /\ answer = "paused"
  <2>1. Become(r, Leave(run[r], "unavailable"))
    BY <1>8 DEF Admit
  <2> QED
    BY <1>3, <2>1, OutcomesAre
<1>11. CASE n = 1 /\ answer = "not_published"
  <2>1. Become(r, Leave(run[r], "unpublished"))
    BY <1>11 DEF Admit
  <2> QED
    BY <1>3, <2>1, OutcomesAre
<1>9. CASE n = 1 /\ answer = "shared"
  <2>1. Become(r, [run[r] EXCEPT !.pc = "preview"])
    BY <1>9 DEF Admit
  <2> QED
    BY <1>4, <2>1
<1>10. CASE n = 1 /\ answer = "import"
  <2>1. Become(r, [run[r] EXCEPT !.pc = "fetch"])
    BY <1>10 DEF Admit
  <2> QED
    BY <1>4, <2>1
<1> QED
  BY <1>5, <1>6, <1>7, <1>8, <1>9, <1>10, <1>11 DEF Answers

LEMMA FetchTurns ==
    ASSUME Inv, AllHold, NEW r \in Runs, Fetch(r)
    PROVE  \E y : Turn(r, y)
<1>1. At(r, "fetch") /\ UNCHANGED <<official, store, clash, progress>>
  BY DEF Fetch
<1>2. /\ run[r] \in Locals /\ run[r].at \in Courses /\ Here(r) = run[r].at
      /\ run[r].pc = "fetch" /\ Active(r) /\ "dates" \notin run[r].wrote
  BY <1>1, HandHolds DEF Visiting, PerCourse, Holds
<1>3. CASE official[Here(r)] = 0
  <2> DEFINE y == Leave(run[r], "unpublished")
  <2>1. Become(r, y)
    BY <1>3 DEF Fetch
  <2>2. /\ y \in Locals /\ y.alone = run[r].alone /\ Holds(y, dates', plan')
        /\ Agrees(run[r], y, dates', plan', sessions')
    BY <1>2, LeaveHolds, OutcomesAre
  <2> QED
    BY <1>2, <2>1, <2>2 DEF Turn
<1>4. CASE official[Here(r)] # 0
  <2> DEFINE v == official[Here(r)]
             y == [run[r] EXCEPT !.pc = "dates", !.ver = v]
  <2>1. Become(r, y)
    BY <1>4 DEF Fetch
  <2>2. v \in Versions
    BY <1>2 DEF Inv, TypeOK
  <2> HIDE DEF v
  <2>3. /\ y \in Locals /\ y.pc = "dates" /\ y.at = run[r].at /\ y.out = run[r].out
        /\ y.alone = run[r].alone /\ y.wrote = run[r].wrote
    BY <1>2, <2>2 DEF Locals, PCs, PerCourse
  <2> HIDE DEF y
  <2>4. Holds(y, dates', plan')
    BY <1>2, <2>3 DEF Holds
  <2>5. "fetch" \in Visiting
    BY DEF Visiting, PerCourse
  <2> QED
    BY <1>1, <2>1, <2>3, <2>4, <2>5, MoveTurn
<1> QED
  BY <1>3, <1>4

(* A run that wrote, and raises. *)
LEMMA WroteRaiseTurns ==
    ASSUME Inv, AllHold, NEW r \in Runs, NEW from \in Visiting, At(r, from),
           NEW collection \in {"dates", "plan", "sessions"},
           Become(r, Raise(Wrote(run[r], collection)))
    PROVE  \E y : Turn(r, y)
<1> DEFINE x == Wrote(run[r], collection)
           y == Raise(x)
<1>1. run[r] \in Locals /\ Active(r)
  BY HandHolds
<1>2. x \in Locals /\ x.out = run[r].out /\ x.alone = run[r].alone
  BY <1>1, WroteFields DEF Like
<1> HIDE DEF x
<1>3. y \in Locals /\ y.alone = x.alone /\ Holds(y, dates', plan') /\ y.out = x.out
  BY <1>2, RaiseHolds, RaiseFields
<1> HIDE DEF y
<1>4. Agrees(run[r], y, dates', plan', sessions')
  BY <1>2, <1>3, SameOutAgrees
<1> QED
  BY <1>1, <1>2, <1>3, <1>4 DEF Turn, x, y

LEMMA ImportDatesTurns ==
    ASSUME Inv, AllHold, NEW r \in Runs, NEW heard \in BOOLEAN, ImportDates(r, heard)
    PROVE  \E y : Turn(r, y)
<1> DEFINE x == Wrote(run[r], "dates")
<1>1. /\ At(r, "dates") /\ "dates" \in Visiting
      /\ dates' = [dates EXCEPT ![Here(r)] = x.ver]
      /\ Become(r, IF heard THEN [x EXCEPT !.pc = "plan"] ELSE Raise(x))
  BY DEF ImportDates, Visiting, PerCourse
<1>2. run[r] \in Locals /\ run[r].at \in Courses /\ Here(r) = run[r].at /\ Active(r)
  BY <1>1, HandHolds
<1>3. CASE ~heard
  BY <1>1, <1>3, WroteRaiseTurns
<1>4. CASE heard
  <2> DEFINE y == [x EXCEPT !.pc = "plan"]
  <2>1. x \in Locals /\ Like(run[r], x) /\ x.alone = run[r].alone
    BY <1>2, WroteFields
  <2>2. Become(r, y)
    BY <1>1, <1>4
  <2> HIDE DEF x
  <2>3. /\ y \in Locals /\ y.pc = "plan" /\ y.at = run[r].at /\ y.out = run[r].out
        /\ y.alone = run[r].alone /\ y.ver = x.ver
    BY <2>1 DEF Locals, PCs, PerCourse, Like
  <2> HIDE DEF y
  <2>4. dates'[y.at] = y.ver
    BY <1>1, <1>2, <2>3 DEF Inv, TypeOK
  <2>5. Holds(y, dates', plan')
    BY <2>3, <2>4 DEF Holds
  <2>6. Agrees(run[r], y, dates', plan', sessions')
    BY <2>3, SameOutAgrees
  <2> QED
    BY <1>2, <2>2, <2>3, <2>5, <2>6 DEF Turn
<1> QED
  BY <1>3, <1>4

LEMMA SavePlanTurns ==
    ASSUME Inv, AllHold, NEW r \in Runs, NEW heard \in BOOLEAN, SavePlan(r, heard)
    PROVE  \E y : Turn(r, y)
<1> DEFINE x == Wrote(run[r], "plan")
<1>1. /\ At(r, "plan") /\ "plan" \in Visiting /\ dates' = dates
      /\ plan' = [plan EXCEPT ![Here(r)] = x.ver]
      /\ Become(r, IF heard THEN [x EXCEPT !.pc = "preview"] ELSE Raise(x))
  BY DEF SavePlan, Visiting, PerCourse
<1>2. /\ run[r] \in Locals /\ run[r].at \in Courses /\ Here(r) = run[r].at /\ Active(r)
      /\ run[r].pc = "plan" /\ Holds(run[r], dates, plan)
  BY <1>1, HandHolds
<1>3. CASE ~heard
  BY <1>1, <1>3, WroteRaiseTurns
<1>4. CASE heard
  <2> DEFINE y == [x EXCEPT !.pc = "preview"]
  <2>1. /\ x \in Locals /\ Like(run[r], x) /\ x.alone = run[r].alone /\ x.ver = run[r].ver
        /\ x.wrote = run[r].wrote \union {"plan"}
    BY <1>2, WroteFields
  <2>2. Become(r, y)
    BY <1>1, <1>4
  <2> HIDE DEF x
  <2>3. /\ y \in Locals /\ y.pc = "preview" /\ y.at = run[r].at /\ y.out = run[r].out
        /\ y.alone = run[r].alone /\ y.wrote = run[r].wrote \union {"plan"}
    BY <2>1 DEF Locals, PCs, PerCourse, Like
  <2> HIDE DEF y
  <2>4. plan'[y.at] = run[r].ver
    BY <1>1, <1>2, <2>1, <2>3 DEF Inv, TypeOK
  <2>5. run[r].alone /\ "dates" \in run[r].wrote => dates'[y.at] = run[r].ver
    BY <1>1, <1>2, <2>3 DEF Holds
  <2>6. Holds(y, dates', plan')
    BY <2>3, <2>4, <2>5 DEF Holds
  <2>7. Agrees(run[r], y, dates', plan', sessions')
    BY <2>3, SameOutAgrees
  <2> QED
    BY <1>2, <2>2, <2>3, <2>6, <2>7 DEF Turn
<1> QED
  BY <1>3, <1>4

LEMMA PreviewTurns ==
    ASSUME Inv, AllHold, NEW r \in Runs, Preview(r)
    PROVE  \E y : Turn(r, y)
<1>1. At(r, "preview") /\ "preview" \in Visiting /\ UNCHANGED <<dates, plan, sessions>>
  BY DEF Preview, Visiting, PerCourse, store
<1>2. /\ run[r] \in Locals /\ run[r].at \in Courses /\ Here(r) = run[r].at /\ Active(r)
      /\ run[r].pc = "preview" /\ Holds(run[r], dates, plan)
  BY <1>1, HandHolds
<1>3. ASSUME NEW outcome \in Outcomes, Become(r, Leave(run[r], outcome)),
             outcome = "conflict" \/ sessions[run[r].at] = plan[run[r].at]
      PROVE  \E y : Turn(r, y)
  <2> DEFINE y == Leave(run[r], outcome)
  <2>1. outcome \in {"unchanged", "applied"} /\ "dates" \in run[r].wrote /\ run[r].alone =>
           dates'[run[r].at] = plan'[run[r].at] /\ sessions'[run[r].at] = plan'[run[r].at]
    BY <1>1, <1>2, <1>3 DEF Holds
  <2>2. /\ y \in Locals /\ y.alone = run[r].alone /\ Holds(y, dates', plan')
        /\ Agrees(run[r], y, dates', plan', sessions')
    BY <1>2, <2>1, LeaveHolds
  <2> QED
    BY <1>2, <1>3, <2>2 DEF Turn
<1>4. CASE Here(r) \in clash
  <2>1. Become(r, Leave(run[r], "conflict"))
    BY <1>4 DEF Preview
  <2> QED
    BY <1>3, <2>1, OutcomesAre
<1>5. CASE Here(r) \notin clash /\ sessions[Here(r)] = plan[Here(r)]
  <2>1. Become(r, Leave(run[r], "unchanged"))
    BY <1>5 DEF Preview
  <2> QED
    BY <1>2, <1>3, <1>5, <2>1, OutcomesAre
<1>6. CASE Here(r) \notin clash /\ sessions[Here(r)] # plan[Here(r)]
  <2> DEFINE y == [run[r] EXCEPT !.pc = "apply"]
  <2>1. Become(r, y)
    BY <1>6 DEF Preview
  <2>2. /\ y \in Locals /\ y.pc = "apply" /\ y.at = run[r].at /\ y.out = run[r].out
        /\ y.alone = run[r].alone /\ y.wrote = run[r].wrote
    BY <1>2 DEF Locals, PCs, PerCourse
  <2> HIDE DEF y
  <2>3. Holds(y, dates', plan')
    BY <1>1, <1>2, <2>2 DEF Holds
  <2> QED
    BY <1>1, <2>1, <2>2, <2>3, MoveTurn
<1> QED
  BY <1>4, <1>5, <1>6

LEMMA ApplyTurns ==
    ASSUME Inv, AllHold, NEW r \in Runs, Apply(r)
    PROVE  \E y : Turn(r, y)
<1>1. At(r, "apply") /\ "apply" \in Visiting /\ UNCHANGED <<dates, plan, sessions>>
  BY DEF Apply, Visiting, PerCourse, store
<1>2. /\ run[r] \in Locals /\ run[r].at \in Courses /\ Here(r) = run[r].at /\ Active(r)
      /\ run[r].pc = "apply" /\ Holds(run[r], dates, plan)
  BY <1>1, HandHolds
<1>3. CASE sessions[Here(r)] = plan[Here(r)]
  <2> DEFINE y == Leave(run[r], "applied")
  <2>1. Become(r, y)
    BY <1>3 DEF Apply
  <2>2. "dates" \in run[r].wrote /\ run[r].alone =>
           dates'[run[r].at] = plan'[run[r].at] /\ sessions'[run[r].at] = plan'[run[r].at]
    BY <1>1, <1>2, <1>3 DEF Holds
  <2>3. /\ y \in Locals /\ y.alone = run[r].alone /\ Holds(y, dates', plan')
        /\ Agrees(run[r], y, dates', plan', sessions')
    BY <1>2, <2>2, LeaveHolds, OutcomesAre
  <2> QED
    BY <1>2, <2>1, <2>3 DEF Turn
<1>4. CASE sessions[Here(r)] # plan[Here(r)]
  <2> DEFINE v == plan[Here(r)]
             y == [run[r] EXCEPT !.pc = "commit", !.ver = v]
  <2>1. Become(r, y)
    BY <1>4 DEF Apply
  <2>2. v \in Versions /\ v = plan[run[r].at]
    BY <1>2 DEF Inv, TypeOK
  <2> HIDE DEF v
  <2>3. /\ y \in Locals /\ y.pc = "commit" /\ y.at = run[r].at /\ y.out = run[r].out
        /\ y.alone = run[r].alone /\ y.wrote = run[r].wrote /\ y.ver = v
    BY <1>2, <2>2 DEF Locals, PCs, PerCourse
  <2> HIDE DEF y
  <2>4. Holds(y, dates', plan')
    BY <1>1, <1>2, <2>2, <2>3 DEF Holds
  <2> QED
    BY <1>1, <2>1, <2>3, <2>4, MoveTurn
<1> QED
  BY <1>3, <1>4

LEMMA CommitTurns ==
    ASSUME Inv, AllHold, NEW r \in Runs, NEW heard \in BOOLEAN, Commit(r, heard)
    PROVE  \E y : Turn(r, y)
<1> DEFINE x == Wrote(run[r], "sessions")
<1>1. /\ At(r, "commit") /\ "commit" \in Visiting /\ dates' = dates /\ plan' = plan
      /\ sessions' = [sessions EXCEPT ![Here(r)] = x.ver]
      /\ Become(r, IF heard THEN Leave(x, "applied") ELSE Raise(x))
  BY DEF Commit, Visiting, PerCourse
<1>2. /\ run[r] \in Locals /\ run[r].at \in Courses /\ Here(r) = run[r].at /\ Active(r)
      /\ run[r].pc = "commit" /\ Holds(run[r], dates, plan)
  BY <1>1, HandHolds
<1>3. CASE ~heard
  BY <1>1, <1>3, WroteRaiseTurns
<1>4. CASE heard
  <2> DEFINE y == Leave(x, "applied")
  <2>1. /\ x \in Locals /\ x.at = run[r].at /\ x.out = run[r].out /\ x.alone = run[r].alone
        /\ x.ver = run[r].ver /\ x.wrote = run[r].wrote \union {"sessions"}
    BY <1>2, WroteFields DEF Like
  <2>2. Become(r, y)
    BY <1>1, <1>4
  <2> HIDE DEF x
  <2>3. sessions'[x.at] = run[r].ver
    BY <1>1, <1>2, <2>1 DEF Inv, TypeOK
  <2>4. "dates" \in x.wrote /\ x.alone =>
           dates'[x.at] = plan'[x.at] /\ sessions'[x.at] = plan'[x.at]
    BY <1>1, <1>2, <2>1, <2>3 DEF Holds
  <2>5. /\ y \in Locals /\ y.alone = x.alone /\ Holds(y, dates', plan')
        /\ Agrees(x, y, dates', plan', sessions')
    BY <1>2, <2>1, <2>4, LeaveHolds, OutcomesAre
  <2> HIDE DEF y
  <2>6. Agrees(run[r], y, dates', plan', sessions')
    BY <2>1, <2>5 DEF Agrees
  <2> QED
    BY <1>2, <2>1, <2>2, <2>5, <2>6 DEF Turn
<1> QED
  BY <1>3, <1>4

LEMMA FailuresTurn ==
    ASSUME Inv, AllHold, NEW r \in Runs, FatalFailure(r) \/ CourseFailure(r)
    PROVE  \E y : Turn(r, y)
<1>1. run[r] \in Locals
  BY LocalsOf
<1>2. CASE FatalFailure(r)
  <2>1. /\ run[r].pc \in PerCourse \union {"siga", "moodle", "visit"}
        /\ Become(r, Raise(run[r]))
    BY <1>2 DEF FatalFailure, At
  <2>2. Active(r)
    BY <2>1 DEF Active, PerCourse
  <2>3. /\ Raise(run[r]) \in Locals /\ Raise(run[r]).alone = run[r].alone
        /\ Holds(Raise(run[r]), dates', plan')
        /\ Agrees(run[r], Raise(run[r]), dates', plan', sessions')
    BY <1>1, RaiseHolds
  <2> QED
    BY <2>1, <2>2, <2>3 DEF Turn
<1>3. CASE CourseFailure(r)
  <2> DEFINE y == Leave(run[r], "unavailable")
  <2>1. PICK pc \in PerCourse : At(r, pc)
    BY <1>3 DEF CourseFailure
  <2>2. run[r].at \in Courses /\ Active(r)
    BY <2>1, HandHolds DEF Visiting
  <2>3. Become(r, y)
    BY <1>3 DEF CourseFailure
  <2>4. /\ y \in Locals /\ y.alone = run[r].alone /\ Holds(y, dates', plan')
        /\ Agrees(run[r], y, dates', plan', sessions')
    BY <1>1, <2>2, LeaveHolds, OutcomesAre
  <2> QED
    BY <2>2, <2>3, <2>4 DEF Turn
<1> QED
  BY <1>2, <1>3

LEMMA LastTurns ==
    ASSUME Inv, AllHold, NEW r \in Runs, Last(r)
    PROVE  \E y : Turn(r, y)
<1>1. run[r] \in Locals /\ run[r].pc = "last"
  BY LocalsOf DEF Last, At
<1>2. Active(r)
  BY <1>1 DEF Active
<1>3. CASE Reviews(run[r]) > MaxReviews
  <2>1. Become(r, Raise(run[r]))
    BY <1>3 DEF Last
  <2>2. /\ Raise(run[r]) \in Locals /\ Raise(run[r]).alone = run[r].alone
        /\ Holds(Raise(run[r]), dates', plan')
        /\ Agrees(run[r], Raise(run[r]), dates', plan', sessions')
    BY <1>1, RaiseHolds
  <2> QED
    BY <1>2, <2>1, <2>2 DEF Turn
<1>4. CASE ~(Reviews(run[r]) > MaxReviews)
  <2> DEFINE status == IF Reviews(run[r]) > 0 THEN "partial" ELSE "succeeded"
             z == [run[r] EXCEPT !.pc = "ended", !.completed = 3]
             y == Writes(z, status)
  <2>1. Become(r, y)
    BY <1>4 DEF Last
  <2>2. status \in Statuses
    BY DEF Statuses
  <2> HIDE DEF status
  <2> DEFINE w == [run[r] EXCEPT !.pc = "ended"]
  <2>3. /\ w \in Locals /\ w.pc = "ended" /\ w.out = run[r].out /\ w.alone = run[r].alone
    BY <1>1 DEF Locals, PCs
  <2>4. z = [w EXCEPT !.completed = 3]
    OBVIOUS
  <2> HIDE DEF w, z
  <2>5. z \in Locals /\ z.pc = "ended" /\ z.out = run[r].out /\ z.alone = run[r].alone
    BY <2>3, <2>4 DEF Locals
  <2>6. y \in Locals /\ y.pc = "ended" /\ y.out = run[r].out /\ y.alone = run[r].alone
    BY <2>2, <2>5 DEF Writes, Locals
  <2> HIDE DEF y
  <2>7. Holds(y, dates', plan')
    BY <2>6 DEF Holds
  <2>8. Agrees(run[r], y, dates', plan', sessions')
    BY <2>6, SameOutAgrees
  <2> QED
    BY <1>2, <2>1, <2>6, <2>7, <2>8 DEF Turn
<1> QED
  BY <1>3, <1>4

LEMMA WriteTurns ==
    ASSUME Inv, AllHold, NEW r \in Runs, NEW heard \in BOOLEAN,
           NEW fate \in {"now", "later", "never"}, Write(r, heard, fate)
    PROVE  \E y : Turn(r, y)
<1> DEFINE y == IF heard THEN [run[r] EXCEPT !.wr = None] ELSE GivesUp(run[r])
<1>1. run[r] \in Locals /\ Holds(run[r], dates, plan)
  BY LocalsOf DEF AllHold
<1>2. Become(r, y) /\ Active(r) /\ UNCHANGED <<dates, plan, sessions>>
  BY DEF Write, Active, store
<1>3. /\ y \in Locals /\ y.pc = run[r].pc /\ y.at = run[r].at /\ y.out = run[r].out
      /\ y.alone = run[r].alone /\ y.wrote = run[r].wrote /\ y.ver = run[r].ver
  BY <1>1 DEF GivesUp, Locals
<1> HIDE DEF y
<1>4. Holds(y, dates', plan')
  BY <1>1, <1>2, <1>3 DEF Holds
<1>5. Agrees(run[r], y, dates', plan', sessions')
  BY <1>3, SameOutAgrees
<1> QED
  BY <1>2, <1>3, <1>4, <1>5 DEF Turn

LEMMA KillTurns ==
    ASSUME Inv, AllHold, NEW r \in Runs, Kill(r)
    PROVE  \E y : Turn(r, y)
<1> DEFINE y == [run[r] EXCEPT !.pc = "raised", !.mute = TRUE, !.wr = None]
<1>1. run[r] \in Locals
  BY LocalsOf
<1>2. Become(r, y) /\ Active(r)
  BY DEF Kill
<1>3. y \in Locals /\ y.pc = "raised" /\ y.out = run[r].out /\ y.alone = run[r].alone
  BY <1>1 DEF Locals, PCs
<1> HIDE DEF y
<1>4. Holds(y, dates', plan')
  BY <1>3 DEF Holds
<1>5. Agrees(run[r], y, dates', plan', sessions')
  BY <1>3, SameOutAgrees
<1> QED
  BY <1>2, <1>3, <1>4, <1>5 DEF Turn

(* A step of no run's own: some may no longer be alone.                    *)
LEMMA CrossingKeeps ==
    ASSUME Inv, AllHold, OneAlone, UNCHANGED <<dates, plan>>,
           \A q \in Runs : run'[q] \in {run[q], [run[q] EXCEPT !.alone = FALSE]}
    PROVE  /\ AllHold' /\ OneAlone'
           /\ \A q \in Runs, c \in Courses : Agreed(q, c)
<1>1. \A q \in Runs : run[q] \in Locals
  BY LocalsOf
<1>2. ASSUME NEW q \in Runs
      PROVE  /\ run'[q].pc = run[q].pc /\ run'[q].wr = run[q].wr /\ run'[q].at = run[q].at
             /\ run'[q].wrote = run[q].wrote /\ run'[q].ver = run[q].ver
             /\ run'[q].out = run[q].out /\ (run'[q].alone => run[q].alone)
  <2>1. run[q] \in Locals
    BY <1>1
  <2>2. CASE run'[q] = run[q]
    BY <2>2
  <2>3. CASE run'[q] = [run[q] EXCEPT !.alone = FALSE]
    BY <2>1, <2>3 DEF Locals
  <2> QED
    BY <2>2, <2>3
<1>3. AllHold'
  <2> SUFFICES ASSUME NEW q \in Runs PROVE Holds(run'[q], dates, plan)
    BY DEF AllHold
  <2>1. Holds(run[q], dates, plan)
    BY DEF AllHold
  <2> QED
    BY <1>2, <2>1 DEF Holds
<1>4. OneAlone'
  <2> SUFFICES ASSUME NEW p \in Runs, NEW q \in Runs, Active(p)', run'[p].alone, q # p, Active(q)'
               PROVE  FALSE
    BY DEF OneAlone
  <2>1. Active(p) /\ Active(q) /\ run[p].alone
    BY <1>2 DEF Active
  <2> QED
    BY <2>1 DEF OneAlone
<1>5. \A q \in Runs, c \in Courses : Agreed(q, c)
  BY <1>2 DEF Agreed, Became
<1> QED
  BY <1>3, <1>4, <1>5

(* A run that begins is alone if no other is under way, and crosses those  *)
(* that are.                                                               *)
LEMMA BeginHolds ==
    ASSUME Inv, AllHold, OneAlone, NEW r \in Runs, Begin(r)
    PROVE  /\ AllHold' /\ OneAlone'
           /\ \A q \in Runs, c \in Courses : Agreed(q, c)
<1> DEFINE alone == \A p \in Runs : ~Active(p)
           mute == r \notin Followed
           z == [Waiting EXCEPT !.pc = "siga", !.mute = mute, !.alone = alone]
           y == Writes(z, "running")
<1>1. /\ run[r] = Waiting /\ dates' = dates /\ plan' = plan
      /\ run' = [q \in Runs |-> IF q = r THEN y
                                ELSE IF Active(q) THEN [run[q] EXCEPT !.alone = FALSE]
                                ELSE run[q]]
  BY DEF Begin, store
<1>2. alone \in BOOLEAN /\ mute \in BOOLEAN
  OBVIOUS
<1>3. alone => \A p \in Runs : ~Active(p)
  OBVIOUS
<1> HIDE DEF alone, mute
<1>4. z.pc = "siga" /\ z.alone = alone /\ z.wrote = {} /\ z.out = [c \in Courses |-> "open"]
  BY DEF Waiting
<1> HIDE DEF z
<1>5. Waiting \in Locals /\ y \in Locals
  BY <1>2, BeginGoes DEF z, Goes
<1>6. y.pc = "siga" /\ y.alone = alone /\ y.wrote = {} /\ y.out = [c \in Courses |-> "open"]
  <2>1. z \in Locals
    BY <1>2, <1>5 DEF z, Locals, PCs
  <2> QED
    BY <1>4, <2>1 DEF Writes, Locals
<1> HIDE DEF y
<1>7. run'[r] = y
  BY <1>1
<1>8. ASSUME NEW q \in Runs, q # r
      PROVE  /\ run'[q].pc = run[q].pc /\ run'[q].wr = run[q].wr /\ run'[q].at = run[q].at
             /\ run'[q].wrote = run[q].wrote /\ run'[q].ver = run[q].ver
             /\ run'[q].out = run[q].out /\ (run'[q].alone => run[q].alone)
             /\ (Active(q) => ~run'[q].alone)
  <2>1. run[q] \in Locals
    BY LocalsOf
  <2>2. CASE Active(q)
    <3>1. run'[q] = [run[q] EXCEPT !.alone = FALSE]
      BY <1>1, <1>8, <2>2
    <3> QED
      BY <2>1, <3>1 DEF Locals
  <2>3. CASE ~Active(q)
    <3>1. run'[q] = run[q]
      BY <1>1, <1>8, <2>3
    <3> QED
      BY <2>3, <3>1
  <2> QED
    BY <2>2, <2>3
<1>9. AllHold'
  <2> SUFFICES ASSUME NEW q \in Runs PROVE Holds(run'[q], dates, plan)
    BY <1>1 DEF AllHold
  <2>1. CASE q = r
    BY <1>6, <1>7, <2>1 DEF Holds
  <2>2. CASE q # r
    <3>1. Holds(run[q], dates, plan)
      BY DEF AllHold
    <3> QED
      BY <1>8, <2>2, <3>1 DEF Holds
  <2> QED
    BY <2>1, <2>2
<1>10. OneAlone'
  <2> SUFFICES ASSUME NEW p \in Runs, NEW q \in Runs, Active(p)', run'[p].alone, q # p, Active(q)'
               PROVE  FALSE
    BY DEF OneAlone
  <2>1. CASE p = r
    <3>1. ~Active(q)
      BY <1>3, <1>6, <1>7, <2>1
    <3> QED
      BY <1>8, <2>1, <3>1 DEF Active
  <2>2. CASE p # r
    <3>1. Active(p)
      BY <1>8, <2>2 DEF Active
    <3> QED
      BY <1>8, <2>2, <3>1
  <2> QED
    BY <2>1, <2>2
<1>11. ASSUME NEW q \in Runs, NEW c \in Courses PROVE Agreed(q, c)
  <2>1. CASE q = r
    BY <1>6, <1>7, <2>1 DEF Agreed, Became
  <2>2. CASE q # r
    BY <1>8, <2>2 DEF Agreed, Became
  <2> QED
    BY <2>1, <2>2
<1> QED
  BY <1>9, <1>10, <1>11

AllAgreed == \A r \in Runs, c \in Courses : Agreed(r, c)

LEMMA InitHolds == Init => AllHold /\ OneAlone
<1>1. Waiting.pc = "waiting" /\ Waiting.wr = None /\ Waiting.wrote = {}
  BY DEF Waiting
<1>2. Init => \A r \in Runs : run[r] = Waiting
  BY DEF Init
<1> HIDE DEF Waiting
<1>3. Init => AllHold
  BY <1>1, <1>2 DEF AllHold, Holds
<1>4. Init => OneAlone
  BY <1>1, <1>2 DEF OneAlone, Active
<1> QED
  BY <1>3, <1>4

LEMMA StepHolds ==
    Inv /\ AllHold /\ OneAlone /\ [Next]_vars => AllHold' /\ OneAlone' /\ AllAgreed
<1> SUFFICES ASSUME Inv, AllHold, OneAlone, [Next]_vars
             PROVE  AllHold' /\ OneAlone' /\ AllAgreed
  OBVIOUS
<1>1. ASSUME NEW r \in Runs, \E y : Turn(r, y)
      PROVE  AllHold' /\ OneAlone' /\ AllAgreed
  <2>1. PICK y : Turn(r, y)
    BY <1>1
  <2> QED
    BY <2>1, TurnKeeps DEF AllAgreed
<1>2. ASSUME UNCHANGED <<dates, plan>>,
             \A q \in Runs : run'[q] \in {run[q], [run[q] EXCEPT !.alone = FALSE]}
      PROVE  AllHold' /\ OneAlone' /\ AllAgreed
  BY <1>2, CrossingKeeps DEF AllAgreed
<1>3. ASSUME UNCHANGED <<dates, plan, run>>
      PROVE  AllHold' /\ OneAlone' /\ AllAgreed
  BY <1>2, <1>3
<1>4. CASE UNCHANGED vars
  BY <1>3, <1>4 DEF vars, store
<1>5. ASSUME NEW r \in Runs, Begin(r)
      PROVE  AllHold' /\ OneAlone' /\ AllAgreed
  BY <1>5, BeginHolds DEF AllAgreed
<1>6. ASSUME NEW r \in Runs, Kill(r)
      PROVE  AllHold' /\ OneAlone' /\ AllAgreed
  BY <1>1, <1>6, KillTurns
<1>7. ASSUME NEW r \in Runs, Step(r)
      PROVE  AllHold' /\ OneAlone' /\ AllAgreed
  <2>1. CASE Siga(r) \/ Moodle(r)
    BY <1>1, <2>1, StagesTurn
  <2>2. CASE Fetch(r)
    BY <1>1, <2>2, FetchTurns
  <2>3. CASE Preview(r)
    BY <1>1, <2>3, PreviewTurns
  <2>4. CASE Apply(r)
    BY <1>1, <2>4, ApplyTurns
  <2>5. CASE Last(r)
    BY <1>1, <2>5, LastTurns
  <2>6. CASE FatalFailure(r) \/ CourseFailure(r)
    BY <1>1, <2>6, FailuresTurn
  <2>7. ASSUME NEW n \in 0..2, NEW a \in Answers, Admit(r, n, a)
        PROVE  AllHold' /\ OneAlone' /\ AllAgreed
    BY <1>1, <2>7, VisitTurns
  <2>8. ASSUME NEW h \in BOOLEAN, ImportDates(r, h)
        PROVE  AllHold' /\ OneAlone' /\ AllAgreed
    BY <1>1, <2>8, ImportDatesTurns
  <2>9. ASSUME NEW h \in BOOLEAN, SavePlan(r, h)
        PROVE  AllHold' /\ OneAlone' /\ AllAgreed
    BY <1>1, <2>9, SavePlanTurns
  <2>10. ASSUME NEW h \in BOOLEAN, Commit(r, h)
         PROVE  AllHold' /\ OneAlone' /\ AllAgreed
    BY <1>1, <2>10, CommitTurns
  <2>11. ASSUME NEW h \in BOOLEAN, NEW f \in {"now", "later", "never"}, Write(r, h, f)
         PROVE  AllHold' /\ OneAlone' /\ AllAgreed
    BY <1>1, <2>11, WriteTurns
  <2> QED
    BY <1>7, <2>1, <2>2, <2>3, <2>4, <2>5, <2>6, <2>7, <2>8, <2>9, <2>10, <2>11 DEF Step
<1>8. ASSUME NEW d \in late, Arrive(d)
      PROVE  AllHold' /\ OneAlone' /\ AllAgreed
  <2>1. UNCHANGED <<dates, plan, run>>
    BY <1>8 DEF Arrive, store
  <2> QED
    BY <1>3, <2>1
<1>9. ASSUME NEW c \in Changing, NEW v \in Versions, Publish(c, v)
      PROVE  AllHold' /\ OneAlone' /\ AllAgreed
  <2>1. UNCHANGED <<dates, plan, run>>
    BY <1>9 DEF Publish, store
  <2> QED
    BY <1>3, <2>1
<1>10. ASSUME NEW c \in Changing, NEW b \in BOOLEAN, NEW v \in Versions, Edit(c, b, v)
       PROVE  AllHold' /\ OneAlone' /\ AllAgreed
  <2>1. /\ UNCHANGED <<dates, plan>>
        /\ \A q \in Runs : run'[q] = IF Active(q) THEN [run[q] EXCEPT !.alone = FALSE] ELSE run[q]
    BY <1>10 DEF Edit
  <2> QED
    BY <1>2, <2>1
<1> QED
  BY <1>4, <1>5, <1>6, <1>7, <1>8, <1>9, <1>10 DEF Next

(* moodle_teaching_plan_import.py: whatever earlier runs left half done, a *)
(* run that nothing crossed and that settles a course it imported leaves   *)
(* its dates, its plan and its sessions agreed, for any number of runs,    *)
(* courses and versions of a plan.                                         *)
THEOREM VisitLeavesAgreed == Spec => VisitAgrees
<1>1. Spec => [][AllAgreed]_vars
  BY SpecInv, InitHolds, StepHolds, PTL DEF Spec
<1> QED
  BY <1>1, PTL DEF VisitAgrees, AllAgreed

=============================================================================

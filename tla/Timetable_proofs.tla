-------------------------- MODULE Timetable_proofs --------------------------
(* Theorems about Timetable, for any number of courses, calls and worlds.  *)
EXTENDS Timetable, TLAPS, WellFoundedInduction, FiniteSetTheorems

(* Finite sets have a smallest one among them, and with it numbers a least *)
(* one and the courses a last one: what CHOOSE takes is there.             *)
LEMMA Smallest ==
    ASSUME NEW T, T # {}, \A U \in T : IsFiniteSet(U)
    PROVE  \E U \in T : \A V \in T : V \subseteq U => V = U
<1> DEFINE S == UNION T
           R == StrictSubsetOrdering(S)
           F == FiniteSubsetsOf(S)
<1>1. IsWellFoundedOn(R, F)
  BY FS_StrictSubsetOrderingWellFounded
<1>2. T \subseteq F
  BY DEF FiniteSubsetsOf
<1>3. \A U, V \in T : V \subseteq U /\ V # U => <<V, U>> \in R
  BY DEF StrictSubsetOrdering
<1> HIDE DEF R, F
<1>4. \E U \in T : \A V \in T : ~(<<V, U>> \in R)
  BY <1>1, <1>2, WFMin
<1> QED
  BY <1>3, <1>4

Upto(S, c) == {x \in S : x <= c}

LEMMA LeastThere ==
    ASSUME NEW S \in SUBSET Nat, S # {}
    PROVE  \E c \in S : \A d \in S : c <= d
<1> DEFINE T == {Upto(S, c) : c \in S}
<1>1. \A c \in S : IsFiniteSet(Upto(S, c))
  <2> SUFFICES ASSUME NEW c \in S PROVE IsFiniteSet(Upto(S, c))
    OBVIOUS
  <2>1. Upto(S, c) \in SUBSET Nat /\ c \in Nat /\ \A s \in Upto(S, c) : s <= c
    BY DEF Upto
  <2> QED
    BY <2>1, FS_BoundedSetOfNaturals
<1>2. \E U \in T : \A V \in T : V \subseteq U => V = U
  <2>1. T # {} /\ \A U \in T : IsFiniteSet(U)
    BY <1>1
  <2> HIDE DEF T
  <2> QED
    BY <2>1, Smallest
<1>3. PICK c \in S : \A d \in S : Upto(S, d) \subseteq Upto(S, c) => Upto(S, d) = Upto(S, c)
  <2>1. PICK U \in T : \A V \in T : V \subseteq U => V = U
    BY <1>2
  <2>2. PICK c \in S : U = Upto(S, c)
    BY <2>1
  <2>3. \A d \in S : Upto(S, d) \in T
    OBVIOUS
  <2> QED
    BY <2>1, <2>2, <2>3
<1>4. ASSUME NEW d \in S, ~(c <= d) PROVE FALSE
  <2>1. c \in Nat /\ d \in Nat
    OBVIOUS
  <2>2. Upto(S, d) \subseteq Upto(S, c) /\ c \in Upto(S, c) /\ c \notin Upto(S, d)
    <3>1. d < c
      BY <1>4, <2>1
    <3>2. \A x \in S : x <= d => x <= c
      BY <2>1, <3>1
    <3>3. Upto(S, d) \subseteq Upto(S, c)
      BY <3>2 DEF Upto
    <3>4. c \in Upto(S, c) /\ c \notin Upto(S, d)
      <4>1. c <= c /\ ~(c <= d)
        BY <1>4, <2>1
      <4> QED
        BY <4>1 DEF Upto
    <3> QED
      BY <3>3, <3>4
  <2> QED
    BY <1>3, <2>2
<1> QED
  BY <1>4

LEMMA GreatestThere ==
    ASSUME NEW n \in Nat, NEW S \in SUBSET (1..n), S # {}
    PROVE  \E c \in S : \A d \in S : c >= d
<1> DEFINE M == {n - s : s \in S}
<1>1. M \in SUBSET Nat /\ M # {}
  <2>1. \A s \in S : s \in 1..n
    OBVIOUS
  <2>2. \A s \in S : n - s \in Nat
    BY <2>1
  <2> QED
    BY <2>2
<1>2. \E m \in M : \A k \in M : m <= k
  <2> HIDE DEF M
  <2> QED
    BY <1>1, LeastThere
<1>3. PICK m \in M : \A k \in M : m <= k
  BY <1>2
<1>4. PICK c \in S : m = n - c
  OBVIOUS
<1>5. ASSUME NEW d \in S PROVE c >= d
  <2>1. n - d \in M /\ n - c <= n - d
    BY <1>3, <1>4
  <2>2. c \in 1..n /\ d \in 1..n
    OBVIOUS
  <2> QED
    BY <2>1, <2>2
<1> QED
  BY <1>5
LEMMA LeastIn ==
    ASSUME NEW S \in SUBSET Nat, S # {}
    PROVE  Least(S) \in S /\ Least(S) \in Nat
BY LeastThere DEF Least

LEMMA LastIn ==
    ASSUME NEW S \in SUBSET Ids, S # {}
    PROVE  LastOf(S) \in S /\ LastOf(S) \in Ids
BY GreatestThere, IdsAssumption DEF LastOf, Ids

LEMMA LastOfOne ==
    ASSUME NEW c \in Ids
    PROVE  LastOf({c}) = c
BY LastIn

(* What is stored. *)
Maps == [Ids -> Docs \union {None}]
Boards == [Ids -> Weeks]

LEMMA ThereIs ==
    ASSUME NEW s \in Maps
    PROVE  /\ There(s) \in SUBSET Ids
           /\ \A c \in There(s) : s[c] \in Docs
           /\ \A c \in Ids : c \notin There(s) => s[c] = None
BY DEF There, Maps

LEMMA EnrollmentIs ==
    ASSUME NEW portal \in Portals, NEW e \in portal
    PROVE  Enrollment(portal, e.code) = e /\ e \in Enrollments /\ e.code \in Nat
<1>1. e \in Enrollments /\ \A f \in portal : f.code = e.code => f = e
  BY PortalsAssumption
<1>2. e.code \in Nat
  BY <1>1, OrderAssumption DEF Enrollments
<1> QED
  BY <1>1, <1>2 DEF Enrollment

Listed(portal) == {e.code : e \in portal}

LEMMA EnrollmentOf ==
    ASSUME NEW portal \in Portals, NEW code \in Listed(portal)
    PROVE  /\ Enrollment(portal, code) \in portal /\ Enrollment(portal, code).code = code
           /\ Enrollment(portal, code) \in Enrollments /\ code \in Nat
<1>1. PICK e \in portal : e.code = code
  BY DEF Listed
<1> QED
  BY <1>1, EnrollmentIs

LEMMA TargetIs ==
    ASSUME NEW s \in Maps, NEW e \in Enrollments
    PROVE  /\ Target(s, e) \in Ids /\ Enrolled(s, e) \in Docs
           /\ Enrolled(s, e).code = e.code /\ Enrolled(s, e).workload = e.workload
           /\ Coded(s, e.code) # {} =>
                 /\ Target(s, e) \in There(s) /\ s[Target(s, e)].code = e.code
                 /\ Days(Enrolled(s, e)) = Days(s[Target(s, e)])
<1>1. CASE Coded(s, e.code) = {}
  <2>1. Target(s, e) \in Ids
    BY <1>1, IdsAssumption DEF Target, Enrollments
  <2>2. Enrolled(s, e) = [code |-> e.code, term |-> e.term, workload |-> e.workload,
                          online |-> FALSE, period |-> None]
    BY <1>1 DEF Enrolled
  <2> QED
    BY <1>1, <2>1, <2>2 DEF Enrollments, Docs
<1>2. CASE Coded(s, e.code) # {}
  <2>1. Coded(s, e.code) \in SUBSET Ids
    BY DEF Coded, There
  <2>2. LastOf(Coded(s, e.code)) \in Coded(s, e.code)
    BY <1>2, <2>1, LastIn
  <2>3. Target(s, e) \in There(s) /\ s[Target(s, e)].code = e.code
    BY <1>2, <2>2 DEF Target, Coded
  <2>4. s[Target(s, e)] \in Docs /\ Target(s, e) \in Ids
    BY <2>3, ThereIs
  <2>5. Enrolled(s, e) = [s[Target(s, e)] EXCEPT !.workload = e.workload]
    BY <1>2 DEF Enrolled
  <2>6. e.workload \in Nat
    BY DEF Enrollments
  <2> QED
    BY <2>3, <2>4, <2>5, <2>6 DEF Docs, Days
<1> QED
  BY <1>1, <1>2

LEMMA ToSaveListed ==
    ASSUME NEW s, NEW portal
    PROVE  ToSave(s, portal) \subseteq Listed(portal)
BY DEF ToSave, Listed

LEMMA MatchingIs ==
    ASSUME NEW s \in Maps, NEW e, Matching(s, e) # {}
    PROVE  /\ LastOf(Matching(s, e)) \in There(s) /\ LastOf(Matching(s, e)) \in Ids
           /\ s[LastOf(Matching(s, e))] \in Docs
           /\ s[LastOf(Matching(s, e))].code = e.code /\ s[LastOf(Matching(s, e))].term = e.term
<1>1. Matching(s, e) \in SUBSET Ids
  BY DEF Matching, There
<1>2. LastOf(Matching(s, e)) \in Matching(s, e)
  BY <1>1, LastIn
<1> QED
  BY <1>2, ThereIs DEF Matching

LEMMA DatesPeriods ==
    ASSUME NEW doc \in Docs, NEW e \in Enrollments
    PROVE  Dates(doc, e) \in Periods
BY DEF Dates, Docs, Enrollments

-----------------------------------------------------------------------------
(* What a call knows.                                                      *)
Asked == {p.asked : p \in Asks}
Args == Portals \union {p.doc : p \in Entered} \union Asked \union {None}
Hand == {"get", "mine", "commit"}
Works == [kind : {"none", "course", "siga", "schedule"},
          pc : {"idle", "save", "list", "meetings", "courses", "done"} \union Hand,
          c : 0..NCourses, arg : Args, todo : SUBSET Nat, snap : Maps \union {None},
          first : Maps \union {None}, others : Boards \union {None}, own : Docs \union {None},
          mine : Weeks \union {None}, refused : SUBSET Nat, alone : BOOLEAN,
          recoded : SUBSET Ids]

TypeOK ==
    /\ courses \in Maps
    /\ meetings \in Boards
    /\ call \in [Calls -> Works]
    /\ apart \in BOOLEAN
    /\ moved \in SUBSET Ids

FitCourse(x) == x.kind = "course" => /\ x.pc = "save" /\ x.c \in Ids /\ x.arg \in Docs
                                     /\ x.snap \in Maps

(* The course in hand is the one of the first enrollment left, and of none *)
(* that is left has the user meetings of their own.                        *)
Chosen(x, code) == Matching(x.snap, Enrollment(x.arg, code))
Handles(x) ==
    /\ x.todo # {} /\ x.todo \subseteq Listed(x.arg)
    /\ x.c = LastOf(Chosen(x, Least(x.todo)))
    /\ \A code \in x.todo :
          Chosen(x, code) # {} /\ Manual(x.others[LastOf(Chosen(x, code))]) = {}

FitSiga(x) ==
    x.kind = "siga" =>
        /\ x.arg \in Portals
        /\ x.pc \in {"save", "list", "meetings", "done"} \union Hand
        /\ x.pc # "done" => x.snap \in Maps /\ x.others \in Boards
        /\ x.pc \in {"save", "list"} => x.first \in Maps /\ x.todo \subseteq ToSave(x.first, x.arg)
        /\ x.pc = "save" => x.todo # {}
        /\ x.pc = "meetings" => x.todo # {} /\ x.todo \subseteq There(x.snap)
        /\ x.pc \in Hand => Handles(x)
        /\ x.pc \in {"mine", "commit"} => x.own \in Docs
        /\ x.pc = "commit" => x.mine \in Weeks

FitSchedule(x) ==
    x.kind = "schedule" =>
        /\ x.pc \in {"mine", "courses", "meetings", "commit"}
        /\ x.c \in Ids /\ x.own \in Docs /\ x.arg \in Asked /\ x.others \in Boards
        /\ x.pc # "mine" => x.mine \in Weeks
        /\ x.pc \in {"meetings", "commit"} => x.snap \in Maps
        /\ x.pc = "meetings" => x.todo # {}

FitNone(x) == x.kind = "none" => x = Idle

Fit(x) == FitCourse(x) /\ FitSiga(x) /\ FitSchedule(x) /\ FitNone(x)

(* No course an import has listed goes. *)
Kept(x, s) == x.kind = "siga" /\ x.pc # "done" => There(x.snap) \subseteq There(s)

(* What an import nobody wrote beside has read is stored. *)
Current(x, s, w) ==
    x.kind = "siga" /\ x.alone =>
        /\ x.pc \in {"save", "list"} =>
              \A c \in There(x.first) : c \in There(s) /\ s[c].code = x.first[c].code
        /\ x.pc \in {"save", "meetings"} \union Hand => x.snap = s
        /\ x.pc = "meetings" => \A d \in There(s) \ x.todo : x.others[d] = w[d]
        /\ x.pc \in Hand => \A d \in There(s) : x.others[d] = w[d]
        /\ x.pc \in {"mine", "commit"} => x.own = s[x.c]
        /\ x.pc = "commit" => x.mine = w[x.c]

(* ... and what it has left to do is all there is to do. *)
Left(x, s, w, codes) ==
    \A e \in x.arg : e.code \in ToReconcile(s, w, x.arg) =>
        LastOf(Matching(s, e)) \in x.refused \/ e.code \in codes
Settling(x, s, w) ==
    x.kind = "siga" /\ x.alone =>
        /\ x.pc \in {"save", "list"} => ToSave(s, x.arg) \subseteq x.todo
        /\ x.pc \notin {"save", "list"} => ToSave(s, x.arg) = {}
        /\ x.pc \in Hand => Left(x, s, w, x.todo)
        /\ x.pc = "done" => Left(x, s, w, {})

(* The codes it read are stored, but for those given since.                *)
Coding(x, s) ==
    /\ x.pc = "save" => \A d \in Ids \ x.recoded : CodeOf(s, d) = CodeOf(x.snap, d)
    /\ x.pc \in {"mine", "courses", "commit"} \/ x.kind = "schedule" =>
          x.c \in x.recoded \/ CodeOf(s, x.c) = x.own.code

Knows(x, s, w) ==
    Fit(x) /\ Kept(x, s) /\ Current(x, s, w) /\ Settling(x, s, w) /\ Coding(x, s)

Inv == TypeOK /\ \A k \in Calls : Knows(call[k], courses, meetings)

(* A step of a call that becomes y. *)
Turn(k, y) ==
    /\ y \in Works /\ Knows(y, courses', meetings')
    /\ courses' \in Maps /\ meetings' \in Boards /\ There(courses) \subseteq There(courses')
    /\ apart' \in BOOLEAN /\ moved' \in SUBSET Ids
    /\ \/ Become(k, y) /\ UNCHANGED <<courses, meetings>>
       \/ \E c \in Ids : Wrote(k, c, y) /\ \A d \in Ids \ {c} : courses'[d] = courses[d]

LEMMA IdleKnows ==
    ASSUME NEW s, NEW w
    PROVE  Idle \in Works /\ Knows(Idle, s, w)
<1>1. 0 \in 0..NCourses
  BY IdsAssumption
<1>2. Idle \in Works
  BY <1>1 DEF Idle, Works, Args
<1>3. Idle.kind = "none"
  BY DEF Idle
<1>4. FitCourse(Idle) /\ FitSiga(Idle) /\ FitSchedule(Idle) /\ FitNone(Idle)
  BY <1>3 DEF FitCourse, FitSiga, FitSchedule, FitNone
<1>5. Kept(Idle, s) /\ Current(Idle, s, w) /\ Settling(Idle, s, w) /\ Coding(Idle, s)
  BY <1>3 DEF Kept, Current, Settling, Coding, Idle
<1> QED
  BY <1>2, <1>4, <1>5 DEF Knows, Fit

(* The course in hand is one of the user's. *)
LEMMA HandCourse ==
    ASSUME NEW x, x.arg \in Portals, x.snap \in Maps, Handles(x)
    PROVE  x.c \in Ids
<1>1. x.todo # {} /\ x.todo \in SUBSET Nat
  BY EnrollmentOf DEF Handles
<1>2. Least(x.todo) \in x.todo
  BY <1>1, LeastIn
<1>3. Matching(x.snap, Enrollment(x.arg, Least(x.todo))) # {}
  BY <1>2 DEF Handles, Chosen
<1> QED
  BY <1>3, MatchingIs DEF Handles, Chosen

(* Another call's write leaves it what it read, and takes that it is alone *)
(* and what it read of the codes R the write gave.                         *)
LEMMA OtherKnows ==
    ASSUME NEW x \in Works, NEW s, NEW w, Knows(x, s, w), x # Idle, NEW t, NEW v,
           There(s) \subseteq There(t), NEW R \in SUBSET Ids,
           \A d \in Ids \ R : CodeOf(t, d) = CodeOf(s, d)
    PROVE  /\ [x EXCEPT !.alone = FALSE, !.recoded = @ \union R] \in Works
           /\ Knows([x EXCEPT !.alone = FALSE, !.recoded = @ \union R], t, v)
<1> DEFINE codes == x.recoded \union R
           y == [x EXCEPT !.alone = FALSE, !.recoded = codes]
<1>0. codes \in SUBSET Ids /\ x.recoded \subseteq codes /\ R \subseteq codes
  BY DEF Works
<1>e. y = [x EXCEPT !.alone = FALSE, !.recoded = @ \union R]
  BY DEF Works
<1> HIDE DEF codes
<1>1. /\ y \in Works /\ y.kind = x.kind /\ y.pc = x.pc /\ y.c = x.c /\ y.arg = x.arg
      /\ y.todo = x.todo /\ y.snap = x.snap /\ y.first = x.first /\ y.others = x.others
      /\ y.own = x.own /\ y.mine = x.mine /\ y.alone = FALSE /\ y.recoded = codes
  BY <1>0 DEF Works
<1> HIDE DEF y
<1>2. FitCourse(y) /\ FitSchedule(y)
  BY <1>1 DEF Knows, Fit, FitCourse, FitSchedule
<1>3. FitSiga(y)
  <2>1. Handles(x) => Handles(y)
    BY <1>1 DEF Handles, Chosen
  <2> QED
    BY <1>1, <2>1 DEF Knows, Fit, FitSiga
<1>4. FitNone(y)
  BY <1>1 DEF Knows, Fit, FitNone
<1>5. Kept(y, t)
  BY <1>1 DEF Knows, Kept
<1>6. Current(y, t, v) /\ Settling(y, t, v)
  BY <1>1 DEF Current, Settling
<1>7. Coding(y, t)
  <2>1. y.pc = "save" => \A d \in Ids \ codes : CodeOf(t, d) = CodeOf(x.snap, d)
    BY <1>0, <1>1 DEF Knows, Coding
  <2>2. x.kind = "schedule" \/ x.pc \in {"mine", "courses", "commit"} => x.c \in Ids
    <3>1. x.kind \in {"siga", "schedule"} => x.c \in Ids \/ x.pc \notin Hand
      <4>1. ASSUME x.kind = "siga", x.pc \in Hand PROVE x.c \in Ids
        BY <4>1, HandCourse DEF Knows, Fit, FitSiga, Hand
      <4> QED
        BY <4>1 DEF Knows, Fit, FitSchedule
    <3> QED
      BY <3>1 DEF Knows, Fit, FitSchedule, FitCourse, FitNone, FitSiga, Hand, Idle, Works
  <2>3. y.pc \in {"mine", "courses", "commit"} \/ y.kind = "schedule" =>
           y.c \in codes \/ CodeOf(t, y.c) = y.own.code
    BY <1>0, <1>1, <2>2 DEF Knows, Coding
  <2> QED
    BY <1>1, <2>1, <2>3 DEF Coding
<1>8. Knows(y, t, v)
  BY <1>2, <1>3, <1>4, <1>5, <1>6, <1>7 DEF Knows, Fit
<1> QED
  BY <1>1, <1>8, <1>e

LEMMA TurnKeeps ==
    ASSUME Inv, NEW k \in Calls, NEW y, Turn(k, y)
    PROVE  Inv'
<1>1. call \in [Calls -> Works]
  BY DEF Inv, TypeOK
<1>2. ASSUME NEW j \in Calls
      PROVE  call'[j] \in Works /\ Knows(call'[j], courses', meetings')
  <2>1. call[j] \in Works /\ Knows(call[j], courses, meetings)
    BY <1>1 DEF Inv
  <2>2. CASE Become(k, y) /\ UNCHANGED <<courses, meetings>>
    <3>1. call'[j] = IF j = k THEN y ELSE call[j]
      BY <1>1, <2>2 DEF Become
    <3> QED
      BY <2>1, <2>2, <3>1 DEF Turn
  <2>3. ASSUME NEW c \in Ids, Wrote(k, c, y), \A d \in Ids \ {c} : courses'[d] = courses[d]
        PROVE  call'[j] \in Works /\ Knows(call'[j], courses', meetings')
    <3>1. CASE j = k
      BY <2>3, <3>1 DEF Wrote, Turn
    <3>2. CASE j # k /\ call[j] = Idle
      <4>1. call'[j] = Idle
        BY <2>3, <3>2 DEF Wrote
      <4> QED
        BY <4>1, IdleKnows
    <3>3. CASE j # k /\ call[j] # Idle
      <4>1. call'[j] = [call[j] EXCEPT !.alone = FALSE, !.recoded = @ \union Recoded(c)]
        BY <2>3, <3>3 DEF Wrote
      <4>2. There(courses) \subseteq There(courses')
        BY DEF Turn
      <4>3. Recoded(c) \in SUBSET Ids
        BY DEF Recoded
      <4>4. \A d \in Ids \ Recoded(c) : CodeOf(courses', d) = CodeOf(courses, d)
        BY <2>3 DEF Recoded, CodeOf
      <4> DEFINE R == Recoded(c)
                 x == call[j]
                 z == [x EXCEPT !.alone = FALSE, !.recoded = @ \union R]
      <4>5. x \in Works /\ Knows(x, courses, meetings) /\ x # Idle
        BY <2>1, <3>3
      <4>6. R \in SUBSET Ids /\ \A d \in Ids \ R : CodeOf(courses', d) = CodeOf(courses, d)
        BY <4>3, <4>4
      <4>7. call'[j] = z
        BY <4>1
      <4> HIDE DEF R, x
      <4>8. z \in Works /\ Knows(z, courses', meetings')
        BY <4>2, <4>5, <4>6, OtherKnows
      <4> QED
        BY <4>7, <4>8
    <3> QED
      BY <3>1, <3>2, <3>3
  <2> QED
    BY <2>2, <2>3 DEF Turn
<1>3. call' \in [Calls -> Works]
  <2>1. call' = [j \in Calls |-> call'[j]]
    BY <1>1 DEF Turn, Become, Wrote
  <2> QED
    BY <1>2, <2>1
<1> QED
  BY <1>2, <1>3 DEF Inv, TypeOK, Turn

LEMMA CallIs ==
    ASSUME Inv, NEW k \in Calls
    PROVE  /\ call[k] \in Works /\ Knows(call[k], courses, meetings)
           /\ courses \in Maps /\ meetings \in Boards
BY DEF Inv, TypeOK

(* A step that writes nothing. *)
LEMMA QuietTurn ==
    ASSUME Inv, NEW k \in Calls, NEW y \in Works, Become(k, y), Knows(y, courses, meetings),
           UNCHANGED <<courses, meetings, apart, moved>>
    PROVE  Turn(k, y)
BY DEF Inv, TypeOK, Turn

LEMMA IdleTurn ==
    ASSUME Inv, NEW k \in Calls, Become(k, Idle), UNCHANGED <<courses, meetings, apart, moved>>
    PROVE  \E y : Turn(k, y)
BY IdleKnows, QuietTurn

LEMMA FinishedFields ==
    ASSUME NEW x \in Works
    PROVE  LET y == Finished(x) IN
           /\ y \in Works /\ y.kind = "siga" /\ y.pc = "done" /\ y.arg = x.arg
           /\ y.refused = x.refused /\ y.alone = x.alone
<1>1. Idle \in Works
  BY IdleKnows
<1> DEFINE a == [Idle EXCEPT !.kind = "siga", !.pc = "done"]
           b == [a EXCEPT !.arg = x.arg, !.refused = x.refused, !.alone = x.alone]
<1>2. Finished(x) = b
  BY DEF Finished, Idle
<1>3. a \in Works /\ a.kind = "siga" /\ a.pc = "done"
  BY <1>1 DEF Works
<1> HIDE DEF a
<1>4. /\ b \in Works /\ b.kind = "siga" /\ b.pc = "done" /\ b.arg = x.arg
      /\ b.refused = x.refused /\ b.alone = x.alone
  BY <1>3 DEF Works
<1> QED
  BY <1>2, <1>4

LEMMA FinishedKnows ==
    ASSUME NEW x \in Works, NEW s, NEW w, x.arg \in Portals,
           x.alone => ToSave(s, x.arg) = {} /\ Left(x, s, w, {})
    PROVE  Finished(x) \in Works /\ Knows(Finished(x), s, w)
<1> DEFINE y == Finished(x)
<1>1. /\ y \in Works /\ y.kind = "siga" /\ y.pc = "done" /\ y.arg = x.arg
      /\ y.refused = x.refused /\ y.alone = x.alone
  BY FinishedFields
<1> HIDE DEF y
<1>2. FitCourse(y) /\ FitSiga(y) /\ FitSchedule(y) /\ FitNone(y)
  BY <1>1 DEF FitCourse, FitSiga, FitSchedule, FitNone, Hand
<1>3. Kept(y, s) /\ Current(y, s, w) /\ Coding(y, s)
  BY <1>1 DEF Kept, Current, Coding, Hand
<1>4. Left(x, s, w, {}) => Left(y, s, w, {})
  BY <1>1 DEF Left
<1>5. Settling(y, s, w)
  BY <1>1, <1>4 DEF Settling, Hand
<1> QED
  BY <1>1, <1>2, <1>3, <1>5 DEF Knows, Fit, y

LEMMA ToMeetingsKnows ==
    ASSUME NEW x \in Works, NEW s \in Maps, NEW w, x.kind = "siga", x.arg \in Portals,
           x.snap = s, x.others \in Boards,
           x.alone => ToSave(s, x.arg) = {}
    PROVE  ToMeetings(x) \in Works /\ Knows(ToMeetings(x), s, w)
<1> DEFINE y == [x EXCEPT !.first = None, !.todo = There(x.snap), !.recoded = {}]
           z == [y EXCEPT !.pc = "meetings"]
<1>1. There(s) \in SUBSET Ids /\ There(s) \in SUBSET Nat
  BY DEF There, Ids
<1>2. /\ y \in Works /\ y.kind = "siga" /\ y.arg = x.arg /\ y.snap = s /\ y.others = x.others
      /\ y.todo = There(s) /\ y.alone = x.alone /\ y.refused = x.refused
  BY <1>1 DEF Works
<1> HIDE DEF y
<1>3. CASE There(s) = {}
  <2>1. ToMeetings(x) = Finished(y)
    BY <1>2, <1>3 DEF ToMeetings, y
  <2>2. Left(y, s, w, {})
    BY <1>3 DEF Left, ToReconcile, Matching
  <2> QED
    BY <1>2, <2>1, <2>2, FinishedKnows
<1>4. CASE There(s) # {}
  <2>1. ToMeetings(x) = z
    BY <1>2, <1>4 DEF ToMeetings, y
  <2>2. /\ z \in Works /\ z.kind = "siga" /\ z.arg = x.arg /\ z.snap = s /\ z.others = x.others
        /\ z.todo = There(s) /\ z.alone = x.alone /\ z.pc = "meetings"
    BY <1>2 DEF Works
  <2> HIDE DEF z
  <2>3. FitCourse(z) /\ FitSiga(z) /\ FitSchedule(z) /\ FitNone(z)
    BY <1>4, <2>2 DEF FitCourse, FitSiga, FitSchedule, FitNone, Hand
  <2>4. Kept(z, s) /\ Current(z, s, w) /\ Settling(z, s, w) /\ Coding(z, s)
    BY <2>2 DEF Kept, Current, Settling, Coding, Hand
  <2> QED
    BY <2>1, <2>2, <2>3, <2>4 DEF Knows, Fit
<1> QED
  BY <1>3, <1>4

LEMMA NextCourseKnows ==
    ASSUME NEW x \in Works, NEW codes, NEW s, NEW w, x.kind = "siga", x.arg \in Portals,
           x.snap \in Maps, x.others \in Boards, There(x.snap) \subseteq There(s),
           codes \subseteq Listed(x.arg),
           \A code \in codes :
              Chosen(x, code) # {} /\ Manual(x.others[LastOf(Chosen(x, code))]) = {},
           x.alone => x.snap = s /\ \A d \in There(s) : x.others[d] = w[d],
           x.alone => ToSave(s, x.arg) = {} /\ Left(x, s, w, codes)
    PROVE  NextCourse(x, codes) \in Works /\ Knows(NextCourse(x, codes), s, w)
<1>1. CASE codes = {}
  BY <1>1, FinishedKnows DEF NextCourse
<1>2. CASE codes # {}
  <2> DEFINE c == LastOf(Chosen(x, Least(codes)))
             a == [x EXCEPT !.pc = "get", !.todo = codes]
             y == [a EXCEPT !.own = None, !.mine = None, !.c = c]
  <2>1. NextCourse(x, codes) = y
    BY <1>2 DEF NextCourse, Chosen
  <2>2. codes \in SUBSET Nat
    BY EnrollmentOf
  <2>3. Least(codes) \in codes
    BY <1>2, <2>2, LeastIn
  <2>4. c \in Ids
    BY <2>3, MatchingIs DEF Chosen
  <2>5. c \in 0..NCourses
    BY <2>4, IdsAssumption DEF Ids
  <2> HIDE DEF c
  <2>6. /\ a \in Works /\ a.kind = "siga" /\ a.pc = "get" /\ a.todo = codes /\ a.arg = x.arg
        /\ a.snap = x.snap /\ a.others = x.others /\ a.alone = x.alone /\ a.refused = x.refused
    BY <2>2 DEF Works, Hand
  <2> HIDE DEF a
  <2>7. /\ y \in Works /\ y.kind = "siga" /\ y.pc = "get" /\ y.todo = codes /\ y.arg = x.arg
        /\ y.snap = x.snap /\ y.others = x.others /\ y.alone = x.alone /\ y.refused = x.refused
        /\ y.c = c
    BY <2>5, <2>6 DEF Works
  <2> HIDE DEF y
  <2>8. Handles(y)
    <3>1. \A code : Chosen(y, code) = Chosen(x, code)
      BY <2>7 DEF Chosen
    <3> QED
      BY <1>2, <2>7, <3>1 DEF Handles, c
  <2>9. FitCourse(y) /\ FitSiga(y) /\ FitSchedule(y) /\ FitNone(y)
    BY <2>7, <2>8 DEF FitCourse, FitSiga, FitSchedule, FitNone, Hand
  <2>10. Kept(y, s) /\ Current(y, s, w) /\ Coding(y, s)
    BY <2>7 DEF Kept, Current, Coding
  <2>11. Settling(y, s, w)
    <3>1. Left(x, s, w, codes) => Left(y, s, w, codes)
      BY <2>7 DEF Left
    <3> QED
      BY <2>7, <3>1 DEF Settling
  <2> QED
    BY <2>1, <2>7, <2>9, <2>10, <2>11 DEF Knows, Fit
<1> QED
  BY <1>1, <1>2

LEMMA BeginCourseTurns ==
    ASSUME Inv, NEW k \in Calls, NEW p \in Entered, BeginCourse(k, p.id, p.doc)
    PROVE  \E y : Turn(k, y)
<1> DEFINE a == [Idle EXCEPT !.kind = "course", !.pc = "save"]
           y == [a EXCEPT !.c = p.id, !.arg = p.doc, !.snap = courses]
<1>1. Become(k, y) /\ UNCHANGED <<courses, meetings, apart, moved>>
  <2>1. y = [Idle EXCEPT !.kind = "course", !.pc = "save", !.c = p.id, !.arg = p.doc,
                         !.snap = courses]
    BY DEF Idle
  <2> QED
    BY <2>1 DEF BeginCourse
<1>2. p.id \in Ids /\ p.doc \in Docs /\ p.doc \in Args
  BY EnteredAssumption DEF Args
<1>3. p.id \in 0..NCourses
  BY <1>2, IdsAssumption DEF Ids
<1>4. Idle \in Works /\ courses \in Maps
  BY IdleKnows, CallIs
<1>5. a \in Works /\ a.kind = "course" /\ a.pc = "save"
  BY <1>4 DEF Works
<1> HIDE DEF a
<1>6. /\ y \in Works /\ y.kind = "course" /\ y.pc = "save" /\ y.c = p.id /\ y.arg = p.doc
      /\ y.snap = courses
  BY <1>2, <1>3, <1>4, <1>5 DEF Works
<1> HIDE DEF y
<1>7. FitCourse(y) /\ FitSiga(y) /\ FitSchedule(y) /\ FitNone(y)
  BY <1>2, <1>4, <1>6 DEF FitCourse, FitSiga, FitSchedule, FitNone
<1>8. /\ Kept(y, courses) /\ Current(y, courses, meetings) /\ Settling(y, courses, meetings)
      /\ Coding(y, courses)
  BY <1>1, <1>6 DEF Kept, Current, Settling, Coding, CodeOf
<1>9. Knows(y, courses, meetings)
  BY <1>7, <1>8 DEF Knows, Fit
<1> QED
  BY <1>1, <1>6, <1>9, QuietTurn

LEMMA UnreadIs == Unread \in Boards
<1>1. [n \in Names |-> None] \in Weeks
  BY DEF Weeks
<1> QED
  BY <1>1 DEF Unread, Boards

LEMMA BeginScheduleTurns ==
    ASSUME Inv, NEW k \in Calls, NEW p \in Asks, BeginSchedule(k, p.id, p.asked)
    PROVE  \E y : Turn(k, y)
<1> DEFINE a == [Idle EXCEPT !.kind = "schedule", !.pc = "mine", !.c = p.id]
           y == [a EXCEPT !.arg = p.asked, !.own = courses[p.id], !.others = Unread]
<1>1. /\ Become(k, y) /\ UNCHANGED <<courses, meetings, apart, moved>>
      /\ courses[p.id] # None
  <2>1. y = [Idle EXCEPT !.kind = "schedule", !.pc = "mine", !.c = p.id, !.arg = p.asked,
                         !.own = courses[p.id], !.others = Unread]
    BY DEF Idle
  <2> QED
    BY <2>1 DEF BeginSchedule
<1>2. p.id \in Ids /\ p.asked \in Asked /\ p.asked \in Args
  BY AsksAssumption DEF Args, Asked
<1>3. p.id \in 0..NCourses
  BY <1>2, IdsAssumption DEF Ids
<1>4. Idle \in Works /\ courses[p.id] \in Docs
  BY <1>1, <1>2, IdleKnows, CallIs DEF Maps
<1>5. a \in Works /\ a.kind = "schedule" /\ a.pc = "mine" /\ a.c = p.id
  BY <1>3, <1>4 DEF Works, Hand
<1> HIDE DEF a
<1>6. /\ y \in Works /\ y.kind = "schedule" /\ y.pc = "mine" /\ y.c = p.id /\ y.arg = p.asked
      /\ y.own = courses[p.id] /\ y.others = Unread
  BY <1>2, <1>4, <1>5, UnreadIs DEF Works
<1> HIDE DEF y
<1>7. FitCourse(y) /\ FitSiga(y) /\ FitSchedule(y) /\ FitNone(y)
  BY <1>2, <1>4, <1>6, UnreadIs DEF FitCourse, FitSiga, FitSchedule, FitNone
<1>8. /\ Kept(y, courses) /\ Current(y, courses, meetings) /\ Settling(y, courses, meetings)
      /\ Coding(y, courses)
  BY <1>1, <1>6 DEF Kept, Current, Settling, Coding, CodeOf
<1>9. Knows(y, courses, meetings)
  BY <1>7, <1>8 DEF Knows, Fit
<1> QED
  BY <1>1, <1>6, <1>9, QuietTurn

LEMMA BeginSigaTurns ==
    ASSUME Inv, NEW k \in Calls, NEW portal \in Portals, BeginSiga(k, portal)
    PROVE  \E y : Turn(k, y)
<1> DEFINE a == [Idle EXCEPT !.kind = "siga", !.arg = portal, !.snap = courses]
           x == [a EXCEPT !.first = courses, !.others = Unread]
           codes == ToSave(courses, portal)
           b == [x EXCEPT !.pc = "save", !.todo = codes]
           y == IF codes = {} THEN ToMeetings(x) ELSE b
<1>1. Become(k, y) /\ UNCHANGED <<courses, meetings, apart, moved>>
  <2>1. x = [Idle EXCEPT !.kind = "siga", !.arg = portal, !.snap = courses, !.first = courses,
                         !.others = Unread]
    BY DEF Idle
  <2> HIDE DEF x
  <2> QED
    BY <2>1 DEF BeginSiga
<1>2. Idle \in Works /\ courses \in Maps /\ portal \in Args
  BY IdleKnows, CallIs DEF Args
<1>3. a \in Works /\ a.kind = "siga" /\ a.arg = portal /\ a.snap = courses
  BY <1>2 DEF Works
<1> HIDE DEF a
<1>4. /\ x \in Works /\ x.kind = "siga" /\ x.arg = portal /\ x.snap = courses
      /\ x.first = courses /\ x.others = Unread
  BY <1>2, <1>3, UnreadIs DEF Works
<1> HIDE DEF x
<1>5. y \in Works /\ Knows(y, courses, meetings)
  <2>1. CASE codes = {}
    <3>1. y = ToMeetings(x)
      BY <2>1
    <3> HIDE DEF y
    <3>2. ToSave(courses, x.arg) = {}
      BY <1>4, <2>1
    <3> QED
      BY <1>2, <1>4, <3>1, <3>2, UnreadIs, ToMeetingsKnows
  <2>2. CASE codes # {}
    <3>1. codes \in SUBSET Nat
      BY ToSaveListed, EnrollmentOf
    <3>2. ToSave(courses, portal) = codes
      OBVIOUS
    <3> HIDE DEF codes
    <3>3. /\ b \in Works /\ b.kind = "siga" /\ b.arg = portal /\ b.snap = courses
          /\ b.first = courses /\ b.others = Unread /\ b.pc = "save" /\ b.todo = codes
      BY <1>4, <3>1 DEF Works
    <3>4. y = b
      BY <2>2
    <3> HIDE DEF b, y
    <3>5. FitCourse(b) /\ FitSiga(b) /\ FitSchedule(b) /\ FitNone(b)
      BY <1>2, <2>2, <3>2, <3>3, UnreadIs DEF FitCourse, FitSiga, FitSchedule, FitNone, Hand
    <3>6. /\ Kept(b, courses) /\ Current(b, courses, meetings) /\ Settling(b, courses, meetings)
          /\ Coding(b, courses)
      BY <3>2, <3>3 DEF Kept, Current, Settling, Coding, Hand
    <3> QED
      BY <3>3, <3>4, <3>5, <3>6 DEF Knows, Fit
  <2> QED
    BY <2>1, <2>2
<1> QED
  BY <1>1, <1>5, QuietTurn

LEMMA ListAgainTurns ==
    ASSUME Inv, NEW k \in Calls, ListAgain(k)
    PROVE  \E y : Turn(k, y)
<1> DEFINE x == [call[k] EXCEPT !.snap = courses, !.recoded = {}]
           b == [x EXCEPT !.pc = "save"]
           y == IF x.todo = {} THEN ToMeetings(x) ELSE b
<1>1. /\ Become(k, y) /\ UNCHANGED <<courses, meetings, apart, moved>>
      /\ call[k].kind = "siga" /\ call[k].pc = "list"
  BY DEF ListAgain, At
<1>2. /\ call[k] \in Works /\ Knows(call[k], courses, meetings)
      /\ courses \in Maps /\ meetings \in Boards
  BY CallIs
<1>3. /\ x \in Works /\ x.kind = "siga" /\ x.pc = "list" /\ x.arg = call[k].arg /\ x.snap = courses
      /\ x.first = call[k].first /\ x.others = call[k].others /\ x.alone = call[k].alone
      /\ x.todo = call[k].todo
  BY <1>1, <1>2 DEF Works
<1> HIDE DEF x
<1>4. /\ x.arg \in Portals /\ x.others \in Boards /\ x.first \in Maps
      /\ x.todo \subseteq ToSave(x.first, x.arg)
  BY <1>1, <1>2, <1>3 DEF Knows, Fit, FitSiga
<1>5. /\ x.alone => \A c \in There(x.first) : c \in There(courses) /\ courses[c].code = x.first[c].code
      /\ x.alone => ToSave(courses, x.arg) \subseteq x.todo
  BY <1>1, <1>2, <1>3 DEF Knows, Current, Settling
<1>6. y \in Works /\ Knows(y, courses, meetings)
  <2>1. CASE x.todo = {}
    <3>1. y = ToMeetings(x)
      BY <2>1
    <3> HIDE DEF y
    <3>2. x.alone => ToSave(courses, x.arg) = {}
      BY <1>5, <2>1
    <3> QED
      BY <1>2, <1>3, <1>4, <3>1, <3>2, ToMeetingsKnows
  <2>2. CASE x.todo # {}
    <3>1. /\ b \in Works /\ b.kind = "siga" /\ b.pc = "save" /\ b.arg = x.arg /\ b.snap = courses
          /\ b.first = x.first /\ b.others = x.others /\ b.alone = x.alone /\ b.todo = x.todo
      BY <1>3 DEF Works
    <3>2. y = b
      BY <2>2
    <3> HIDE DEF b, y
    <3>3. FitCourse(b) /\ FitSiga(b) /\ FitSchedule(b) /\ FitNone(b)
      BY <1>2, <1>4, <2>2, <3>1 DEF FitCourse, FitSiga, FitSchedule, FitNone, Hand
    <3>4. /\ Kept(b, courses) /\ Current(b, courses, meetings) /\ Settling(b, courses, meetings)
          /\ Coding(b, courses)
      BY <1>5, <3>1 DEF Kept, Current, Settling, Coding, Hand
    <3> QED
      BY <3>1, <3>2, <3>3, <3>4 DEF Knows, Fit
  <2> QED
    BY <2>1, <2>2
<1> QED
  BY <1>1, <1>6, QuietTurn

LEMMA ReconcileIff ==
    ASSUME NEW s, NEW w, NEW portal \in Portals, NEW e \in portal
    PROVE  e.code \in ToReconcile(s, w, portal) <=>
              Matching(s, e) # {} /\ Differs(s, w, LastOf(Matching(s, e)), e)
<1>1. \A f \in portal : f.code = e.code => f = e
  BY PortalsAssumption
<1> QED
  BY <1>1 DEF ToReconcile

LEMMA SameDiffers ==
    ASSUME NEW s, NEW w, NEW t, NEW v, NEW c, NEW e, s[c] = t[c], w[c] = v[c]
    PROVE  Differs(s, w, c, e) <=> Differs(t, v, c, e)
BY DEF Differs

LEMMA BoardWith ==
    ASSUME NEW others \in Boards, NEW w \in Boards, NEW d
    PROVE  /\ [others EXCEPT ![d] = w[d]] \in Boards
           /\ \A c \in Ids : [others EXCEPT ![d] = w[d]][c] = IF c = d THEN w[d] ELSE others[c]
BY DEF Boards

(* What an import reconciles, once it has listed every course's meetings.  *)
LEMMA ToReconcileIs ==
    ASSUME NEW x \in Works, x.arg \in Portals,
           x.snap \in Maps
    PROVE  LET codes == ToReconcile(x.snap, x.others, x.arg) IN
           /\ codes \subseteq Listed(x.arg)
           /\ \A code \in codes :
                 Chosen(x, code) # {} /\ Manual(x.others[LastOf(Chosen(x, code))]) = {}
<1> DEFINE codes == ToReconcile(x.snap, x.others, x.arg)
<1>1. codes \subseteq Listed(x.arg)
  BY DEF ToReconcile, Listed
<1>2. ASSUME NEW code \in codes
      PROVE  Chosen(x, code) # {} /\ Manual(x.others[LastOf(Chosen(x, code))]) = {}
  <2>1. PICK e \in x.arg : /\ e.code = code /\ Matching(x.snap, e) # {}
                           /\ Differs(x.snap, x.others, LastOf(Matching(x.snap, e)), e)
    BY DEF ToReconcile
  <2>2. Enrollment(x.arg, code) = e
    BY <2>1, EnrollmentIs
  <2> QED
    BY <2>1, <2>2 DEF Chosen, Differs
<1> QED
  BY <1>1, <1>2

LEMMA ListMeetingsTurns ==
    ASSUME Inv, NEW k \in Calls, ListMeetings(k)
    PROVE  \E y : Turn(k, y)
<1> DEFINE d == Least(call[k].todo)
           m == meetings[d]
           x == [call[k] EXCEPT !.others[d] = m, !.todo = @ \ {d}]
           y == IF x.todo # {} THEN x
                ELSE IF x.kind = "schedule" THEN [x EXCEPT !.pc = "commit"]
                ELSE NextCourse(x, ToReconcile(x.snap, x.others, x.arg))
           board == [call[k].others EXCEPT ![d] = m]
<1>1. Become(k, y) /\ UNCHANGED <<courses, meetings, apart, moved>> /\ call[k].pc = "meetings"
  BY DEF ListMeetings
<1>2. /\ call[k] \in Works /\ Knows(call[k], courses, meetings)
      /\ courses \in Maps /\ meetings \in Boards
  BY CallIs
<1>3. call[k].kind \in {"siga", "schedule"}
  <2>1. call[k].kind # "none"
    BY <1>1, <1>2 DEF Knows, Fit, FitNone, Idle
  <2>2. call[k].kind # "course"
    BY <1>1, <1>2 DEF Knows, Fit, FitCourse
  <2> QED
    BY <1>2, <2>1, <2>2 DEF Works
<1>4. call[k].others \in Boards
  BY <1>1, <1>2, <1>3 DEF Knows, Fit, FitSiga, FitSchedule
<1>5. board \in Boards /\ \A c \in Ids : board[c] = IF c = d THEN meetings[d] ELSE call[k].others[c]
  BY <1>2, <1>4, BoardWith
<1>6. x = [call[k] EXCEPT !.others = board, !.todo = call[k].todo \ {d}]
  BY <1>2 DEF Works
<1> HIDE DEF x, board, d, m
<1>7. /\ x \in Works /\ x.kind = call[k].kind /\ x.pc = "meetings" /\ x.c = call[k].c
      /\ x.arg = call[k].arg /\ x.todo = call[k].todo \ {d} /\ x.snap = call[k].snap
      /\ x.others = board /\ x.own = call[k].own /\ x.mine = call[k].mine
      /\ x.refused = call[k].refused /\ x.alone = call[k].alone
      /\ x.recoded = call[k].recoded
  BY <1>1, <1>2, <1>5, <1>6 DEF Works
<1>8. CASE call[k].kind = "siga"
  <2>1. /\ x.arg \in Portals /\ x.snap \in Maps /\ There(x.snap) \subseteq There(courses)
        /\ x.todo \subseteq There(x.snap)
    BY <1>1, <1>2, <1>7, <1>8 DEF Knows, Fit, FitSiga, Kept
  <2>2. x.alone => x.snap = courses
    BY <1>1, <1>2, <1>7, <1>8 DEF Knows, Current
  <2>3. ASSUME x.alone, NEW c \in There(courses) \ x.todo PROVE x.others[c] = meetings[c]
    <3>1. c \in Ids
      BY DEF There
    <3>2. c # d => call[k].others[c] = meetings[c]
      BY <1>1, <1>2, <1>7, <1>8, <2>3 DEF Knows, Current
    <3> QED
      BY <1>5, <1>7, <3>1, <3>2
  <2>4. x.alone => ToSave(courses, x.arg) = {}
    BY <1>1, <1>2, <1>7, <1>8 DEF Knows, Settling, Hand
  <2>5. CASE x.todo # {}
    <3>1. FitCourse(x) /\ FitSiga(x) /\ FitSchedule(x) /\ FitNone(x)
      BY <1>5, <1>7, <1>8, <2>1, <2>5 DEF FitCourse, FitSiga, FitSchedule, FitNone, Hand
    <3>2. Kept(x, courses) /\ Current(x, courses, meetings) /\ Coding(x, courses)
      BY <1>7, <1>8, <2>1, <2>2, <2>3 DEF Kept, Current, Coding, Hand
    <3>3. Settling(x, courses, meetings)
      BY <1>7, <2>4 DEF Settling, Hand
    <3>4. x \in Works /\ Knows(x, courses, meetings)
      BY <1>7, <3>1, <3>2, <3>3 DEF Knows, Fit
    <3> QED
      BY <1>1, <2>5, <3>4, QuietTurn
  <2>6. CASE x.todo = {}
    <3> DEFINE codes == ToReconcile(x.snap, x.others, x.arg)
               z == NextCourse(x, codes)
    <3>1. y = z
      BY <1>7, <1>8, <2>6
    <3>2. /\ codes \subseteq Listed(x.arg)
          /\ \A code \in codes :
                Chosen(x, code) # {} /\ Manual(x.others[LastOf(Chosen(x, code))]) = {}
      BY <1>7, <2>1, ToReconcileIs
    <3> HIDE DEF y
    <3>3. x.alone => \A c \in There(courses) : x.others[c] = meetings[c]
      BY <2>3, <2>6
    <3>4. x.alone => Left(x, courses, meetings, codes)
      <4> SUFFICES ASSUME x.alone, NEW e \in x.arg,
                          e.code \in ToReconcile(courses, meetings, x.arg)
                   PROVE  e.code \in codes
        BY DEF Left
      <4> DEFINE c == LastOf(Matching(courses, e))
      <4>1. Matching(courses, e) # {} /\ Differs(courses, meetings, c, e)
        BY <2>1, ReconcileIff
      <4>2. c \in There(courses)
        BY <1>2, <4>1, MatchingIs
      <4> HIDE DEF c
      <4>3. Differs(x.snap, x.others, c, e)
        BY <2>2, <3>3, <4>1, <4>2, SameDiffers
      <4> QED
        BY <2>1, <2>2, <4>1, <4>3, ReconcileIff DEF c
    <3> HIDE DEF codes
    <3>5. z \in Works /\ Knows(z, courses, meetings)
      BY <1>5, <1>7, <1>8, <2>1, <2>2, <2>4, <3>2, <3>3, <3>4, NextCourseKnows
    <3> QED
      BY <1>1, <3>1, <3>5, QuietTurn
  <2> QED
    BY <2>5, <2>6
<1>9. CASE call[k].kind = "schedule"
  <2>1. /\ x.c \in Ids /\ x.own \in Docs /\ x.arg \in Asked /\ x.mine \in Weeks /\ x.snap \in Maps
    BY <1>1, <1>2, <1>7, <1>9 DEF Knows, Fit, FitSchedule
  <2>2. CASE x.todo # {}
    <3>1. FitCourse(x) /\ FitSiga(x) /\ FitSchedule(x) /\ FitNone(x)
      BY <1>5, <1>7, <1>9, <2>1, <2>2 DEF FitCourse, FitSiga, FitSchedule, FitNone
    <3>2. /\ Kept(x, courses) /\ Current(x, courses, meetings) /\ Settling(x, courses, meetings)
          /\ Coding(x, courses)
      BY <1>2, <1>7, <1>9 DEF Knows, Kept, Current, Settling, Coding
    <3>3. x \in Works /\ Knows(x, courses, meetings)
      BY <1>7, <3>1, <3>2 DEF Knows, Fit
    <3> QED
      BY <1>1, <2>2, <3>3, QuietTurn
  <2>3. CASE x.todo = {}
    <3> DEFINE z == [x EXCEPT !.pc = "commit"]
    <3>1. y = z
      BY <1>7, <1>9, <2>3
    <3> HIDE DEF y
    <3>2. /\ z \in Works /\ z.kind = "schedule" /\ z.pc = "commit" /\ z.c = x.c
          /\ z.arg = x.arg /\ z.snap = x.snap
          /\ z.others = x.others /\ z.own = x.own /\ z.mine = x.mine /\ z.recoded = x.recoded
      BY <1>7, <1>9 DEF Works, Hand
    <3> HIDE DEF z
    <3>3. FitCourse(z) /\ FitSiga(z) /\ FitSchedule(z) /\ FitNone(z)
      BY <1>5, <1>7, <2>1, <3>2 DEF FitCourse, FitSiga, FitSchedule, FitNone
    <3>4. /\ Kept(z, courses) /\ Current(z, courses, meetings) /\ Settling(z, courses, meetings)
          /\ Coding(z, courses)
      BY <1>2, <1>7, <1>9, <3>2 DEF Knows, Kept, Current, Settling, Coding
    <3>5. z \in Works /\ Knows(z, courses, meetings)
      BY <3>2, <3>3, <3>4 DEF Knows, Fit
    <3> QED
      BY <1>1, <3>1, <3>5, QuietTurn
  <2> QED
    BY <2>2, <2>3
<1> QED
  BY <1>3, <1>8, <1>9

(* The course in hand was listed, and is still stored. *)
LEMMA HandIs ==
    ASSUME Inv, NEW k \in Calls, call[k].kind = "siga", call[k].pc \in Hand
    PROVE  LET x == call[k] code == Least(x.todo) IN
           /\ x.arg \in Portals /\ x.snap \in Maps /\ x.others \in Boards /\ Handles(x)
           /\ x.todo \in SUBSET Nat /\ code \in x.todo
           /\ Enrollment(x.arg, code) \in x.arg /\ Enrollment(x.arg, code) \in Enrollments
           /\ Enrollment(x.arg, code).code = code
           /\ x.c \in There(x.snap) /\ x.c \in Ids /\ x.snap[x.c] \in Docs
           /\ x.snap[x.c].code = code
           /\ Manual(x.others[x.c]) = {}
           /\ x.c \in There(courses) /\ courses[x.c] \in Docs
<1> DEFINE x == call[k]
           code == Least(x.todo)
<1>1. x \in Works /\ Knows(x, courses, meetings) /\ courses \in Maps
  BY CallIs
<1>2. x.arg \in Portals /\ x.snap \in Maps /\ x.others \in Boards /\ Handles(x)
  BY <1>1 DEF Knows, Fit, FitSiga, Hand
<1>3. There(x.snap) \subseteq There(courses)
  BY <1>1 DEF Knows, Kept, Hand
<1> HIDE DEF x
<1>4. x.todo \in SUBSET Nat /\ x.todo # {} /\ x.todo \subseteq Listed(x.arg)
  BY <1>1, <1>2 DEF Works, Handles
<1>5. code \in x.todo
  BY <1>4, LeastIn
<1>6. /\ Enrollment(x.arg, code) \in x.arg /\ Enrollment(x.arg, code) \in Enrollments
      /\ Enrollment(x.arg, code).code = code
  BY <1>2, <1>4, <1>5, EnrollmentOf
<1>7. x.c = LastOf(Chosen(x, code)) /\ Chosen(x, code) # {} /\ Manual(x.others[x.c]) = {}
  BY <1>2, <1>5 DEF Handles
<1>8. x.c \in There(x.snap) /\ x.c \in Ids /\ x.snap[x.c] \in Docs /\ x.snap[x.c].code = code
  BY <1>2, <1>6, <1>7, MatchingIs DEF Chosen
<1>9. x.c \in There(courses) /\ courses[x.c] \in Docs
  BY <1>1, <1>3, <1>8, ThereIs
<1> QED
  BY <1>2, <1>4, <1>5, <1>6, <1>7, <1>8, <1>9 DEF x

LEMMA GetCourseTurns ==
    ASSUME Inv, NEW k \in Calls, GetCourse(k)
    PROVE  \E y : Turn(k, y)
<1> DEFINE x == call[k]
           y == [x EXCEPT !.pc = "mine", !.own = courses[x.c], !.recoded = {}]
<1>1. /\ Become(k, y) /\ UNCHANGED <<courses, meetings, apart, moved>>
      /\ x.kind = "siga" /\ x.pc = "get"
  BY DEF GetCourse, At
<1>2. x \in Works /\ Knows(x, courses, meetings)
  BY CallIs
<1>3. /\ x.arg \in Portals /\ x.snap \in Maps /\ x.others \in Boards /\ Handles(x)
      /\ courses[x.c] \in Docs /\ courses[x.c] # None
  BY <1>1, HandIs DEF Hand, There
<1> HIDE DEF x
<1>4. /\ y \in Works /\ y.kind = "siga" /\ y.pc = "mine" /\ y.c = x.c /\ y.arg = x.arg
      /\ y.todo = x.todo /\ y.snap = x.snap /\ y.others = x.others /\ y.own = courses[x.c]
      /\ y.refused = x.refused /\ y.alone = x.alone
  BY <1>1, <1>2, <1>3 DEF Works, Hand
<1> HIDE DEF y
<1>5. Handles(y)
  <2>1. \A code : Chosen(y, code) = Chosen(x, code)
    BY <1>4 DEF Chosen
  <2> QED
    BY <1>3, <1>4, <2>1 DEF Handles
<1>6. FitCourse(y) /\ FitSiga(y) /\ FitSchedule(y) /\ FitNone(y)
  BY <1>3, <1>4, <1>5 DEF FitCourse, FitSiga, FitSchedule, FitNone, Hand
<1>7. Kept(y, courses) /\ Current(y, courses, meetings) /\ Coding(y, courses)
  BY <1>1, <1>2, <1>3, <1>4 DEF Knows, Kept, Current, Coding, CodeOf, Hand
<1>8. Settling(y, courses, meetings)
  <2>1. Left(x, courses, meetings, x.todo) => Left(y, courses, meetings, y.todo)
    BY <1>4 DEF Left
  <2> QED
    BY <1>1, <1>2, <1>4, <2>1 DEF Knows, Settling, Hand
<1>9. Knows(y, courses, meetings)
  BY <1>6, <1>7, <1>8 DEF Knows, Fit
<1> QED
  BY <1>1, <1>4, <1>9, QuietTurn DEF x

LEMMA ListMineTurns ==
    ASSUME Inv, NEW k \in Calls, ListMine(k)
    PROVE  \E y : Turn(k, y)
<1> DEFINE x == call[k]
           pc == IF x.kind = "siga" THEN "commit" ELSE "courses"
           y == [x EXCEPT !.mine = meetings[x.c], !.pc = pc]
<1>1. /\ Become(k, y) /\ UNCHANGED <<courses, meetings, apart, moved>> /\ x.pc = "mine"
  BY DEF ListMine
<1>2. x \in Works /\ Knows(x, courses, meetings) /\ meetings \in Boards
  BY CallIs
<1>3. x.kind \in {"siga", "schedule"}
  <2>1. x.kind # "none"
    BY <1>1, <1>2 DEF Knows, Fit, FitNone, Idle
  <2>2. x.kind # "course"
    BY <1>1, <1>2 DEF Knows, Fit, FitCourse
  <2> QED
    BY <1>2, <2>1, <2>2 DEF Works
<1>4. x.kind = "siga" => /\ x.arg \in Portals /\ x.snap \in Maps /\ x.others \in Boards
                         /\ Handles(x) /\ x.c \in Ids
  BY <1>1, HandIs DEF Hand
<1>5. x.kind = "schedule" => x.c \in Ids
  BY <1>1, <1>2 DEF Knows, Fit, FitSchedule
<1> HIDE DEF x
<1>6. meetings[x.c] \in Weeks /\ pc \in {"commit", "courses"}
  BY <1>2, <1>3, <1>4, <1>5 DEF Boards
<1>7. (x.kind = "siga" => pc = "commit") /\ (x.kind = "schedule" => pc = "courses")
  OBVIOUS
<1> HIDE DEF pc
<1>8. /\ y \in Works /\ y.kind = x.kind /\ y.pc = pc /\ y.c = x.c /\ y.arg = x.arg
      /\ y.todo = x.todo /\ y.snap = x.snap /\ y.others = x.others /\ y.own = x.own
      /\ y.refused = x.refused /\ y.alone = x.alone /\ y.mine = meetings[x.c]
      /\ y.recoded = x.recoded
  BY <1>1, <1>2, <1>6 DEF Works, Hand
<1> HIDE DEF y
<1>9. Handles(x) => Handles(y)
  <2>1. \A code : Chosen(y, code) = Chosen(x, code)
    BY <1>8 DEF Chosen
  <2> QED
    BY <1>8, <2>1 DEF Handles
<1>10. CASE x.kind = "siga"
  <2>1. x.own \in Docs
    BY <1>1, <1>2, <1>10 DEF Knows, Fit, FitSiga
  <2>2. FitCourse(y) /\ FitSiga(y) /\ FitSchedule(y) /\ FitNone(y)
    BY <1>4, <1>6, <1>7, <1>8, <1>9, <1>10, <2>1 DEF FitCourse, FitSiga, FitSchedule, FitNone, Hand
  <2>3. Kept(y, courses) /\ Current(y, courses, meetings) /\ Coding(y, courses)
    BY <1>1, <1>2, <1>7, <1>8, <1>10 DEF Knows, Kept, Current, Coding, Hand
  <2>4. Settling(y, courses, meetings)
    <3>1. Left(x, courses, meetings, x.todo) => Left(y, courses, meetings, y.todo)
      BY <1>8 DEF Left
    <3> QED
      BY <1>1, <1>2, <1>7, <1>8, <1>10, <3>1 DEF Knows, Settling, Hand
  <2>5. Knows(y, courses, meetings)
    BY <2>2, <2>3, <2>4 DEF Knows, Fit
  <2> QED
    BY <1>1, <1>8, <2>5, QuietTurn DEF x
<1>11. CASE x.kind = "schedule"
  <2>1. x.own \in Docs /\ x.arg \in Asked /\ x.others \in Boards
    BY <1>2, <1>11 DEF Knows, Fit, FitSchedule
  <2>2. FitCourse(y) /\ FitSiga(y) /\ FitSchedule(y) /\ FitNone(y)
    BY <1>5, <1>6, <1>7, <1>8, <1>11, <2>1 DEF FitCourse, FitSiga, FitSchedule, FitNone
  <2>3. /\ Kept(y, courses) /\ Current(y, courses, meetings) /\ Settling(y, courses, meetings)
        /\ Coding(y, courses)
    BY <1>2, <1>7, <1>8, <1>11 DEF Knows, Kept, Current, Settling, Coding
  <2>4. Knows(y, courses, meetings)
    BY <2>2, <2>3 DEF Knows, Fit
  <2> QED
    BY <1>1, <1>8, <2>4, QuietTurn DEF x
<1> QED
  BY <1>3, <1>10, <1>11

LEMMA ListCoursesTurns ==
    ASSUME Inv, NEW k \in Calls, ListCourses(k)
    PROVE  \E y : Turn(k, y)
<1> DEFINE todo == There(courses) \ {call[k].c}
           x == [call[k] EXCEPT !.snap = courses, !.todo = todo]
           pc == IF x.todo = {} THEN "commit" ELSE "meetings"
           y == [x EXCEPT !.pc = pc]
<1>1. /\ Become(k, y) /\ UNCHANGED <<courses, meetings, apart, moved>>
      /\ call[k].kind = "schedule" /\ call[k].pc = "courses"
  BY DEF ListCourses, At
<1>2. call[k] \in Works /\ Knows(call[k], courses, meetings) /\ courses \in Maps
  BY CallIs
<1>3. todo \in SUBSET Nat
  BY DEF There, Ids
<1>4. /\ call[k].c \in Ids /\ call[k].own \in Docs /\ call[k].arg \in Asked
      /\ call[k].mine \in Weeks /\ call[k].others \in Boards
  BY <1>1, <1>2 DEF Knows, Fit, FitSchedule
<1> HIDE DEF todo
<1>5. /\ x \in Works /\ x.kind = "schedule" /\ x.c = call[k].c /\ x.arg = call[k].arg
      /\ x.todo = todo /\ x.snap = courses /\ x.others = call[k].others
      /\ x.own = call[k].own /\ x.mine = call[k].mine /\ x.recoded = call[k].recoded
  BY <1>1, <1>2, <1>3 DEF Works
<1> HIDE DEF x
<1>6. pc \in {"commit", "meetings"} /\ (pc = "meetings" => x.todo # {})
  OBVIOUS
<1> HIDE DEF pc
<1>7. /\ y \in Works /\ y.kind = "schedule" /\ y.pc = pc /\ y.c = x.c /\ y.arg = x.arg
      /\ y.todo = x.todo /\ y.snap = courses /\ y.others = x.others /\ y.own = x.own
      /\ y.mine = x.mine /\ y.recoded = x.recoded
  BY <1>5, <1>6 DEF Works, Hand
<1> HIDE DEF y
<1>8. FitCourse(y) /\ FitSiga(y) /\ FitSchedule(y) /\ FitNone(y)
  BY <1>2, <1>4, <1>5, <1>6, <1>7 DEF FitCourse, FitSiga, FitSchedule, FitNone
<1>9. /\ Kept(y, courses) /\ Current(y, courses, meetings) /\ Settling(y, courses, meetings)
      /\ Coding(y, courses)
  BY <1>1, <1>2, <1>5, <1>6, <1>7 DEF Knows, Kept, Current, Settling, Coding
<1>10. Knows(y, courses, meetings)
  BY <1>8, <1>9 DEF Knows, Fit
<1> QED
  BY <1>1, <1>7, <1>10, QuietTurn

LEMMA EndsTurn ==
    ASSUME Inv, NEW k \in Calls, EndSiga(k) \/ Kill(k)
    PROVE  \E y : Turn(k, y)
BY IdleTurn DEF EndSiga, Kill

-----------------------------------------------------------------------------
(* The calls that write. *)
Put(s, c, doc) == [s EXCEPT ![c] = doc]

LEMMA CourseWith ==
    ASSUME NEW s \in Maps, NEW c \in Ids, NEW doc \in Docs
    PROVE  /\ Put(s, c, doc) \in Maps /\ There(Put(s, c, doc)) = There(s) \union {c}
           /\ \A d \in Ids : Put(s, c, doc)[d] = IF d = c THEN doc ELSE s[d]
<1>1. doc # None
  BY NoneAssumption
<1> QED
  BY <1>1 DEF Maps, There, Put

LEMMA SaveCourseDoes ==
    ASSUME Inv, NEW k \in Calls, SaveCourse(k)
    PROVE  \/ UNCHANGED <<courses, moved, apart>> /\ Become(k, Idle)
           \/ LET x == call[k] IN
              /\ x.c \in Ids /\ x.arg \in Docs /\ x.snap \in Maps /\ Saveable(x.snap, x.c, x.arg)
              /\ courses' = [courses EXCEPT ![x.c] = x.arg] /\ Wrote(k, x.c, Idle)
              /\ moved' = Moved(x.c, x.arg) /\ apart' = (apart /\ x.snap = courses)
<1>1. call[k].kind = "course" /\ Knows(call[k], courses, meetings)
  BY CallIs DEF SaveCourse, At
<1>2. call[k].c \in Ids /\ call[k].arg \in Docs /\ call[k].snap \in Maps
  BY <1>1 DEF Knows, Fit, FitCourse
<1> QED
  BY <1>2 DEF SaveCourse

LEMMA MovedIs ==
    ASSUME Inv, NEW c \in Ids, NEW doc
    PROVE  Moved(c, doc) \in SUBSET Ids
BY DEF Moved, Inv, TypeOK

LEMMA SaveCourseTurns ==
    ASSUME Inv, NEW k \in Calls, SaveCourse(k)
    PROVE  \E y : Turn(k, y)
<1>1. UNCHANGED meetings
  BY DEF SaveCourse
<1>2. CASE UNCHANGED <<courses, moved, apart>> /\ Become(k, Idle)
  BY <1>1, <1>2, IdleTurn
<1>3. CASE ~(UNCHANGED <<courses, moved, apart>> /\ Become(k, Idle))
  <2> DEFINE x == call[k]
  <2>1. /\ x.c \in Ids /\ x.arg \in Docs
        /\ courses' = [courses EXCEPT ![x.c] = x.arg] /\ Wrote(k, x.c, Idle)
        /\ moved' = Moved(x.c, x.arg) /\ apart' = (apart /\ x.snap = courses)
    BY <1>3, SaveCourseDoes
  <2> HIDE DEF x
  <2>2. courses \in Maps /\ meetings \in Boards
    BY CallIs
  <2>3. /\ courses' \in Maps /\ There(courses) \subseteq There(courses')
        /\ \A d \in Ids \ {x.c} : courses'[d] = courses[d]
    <3>1. courses' = Put(courses, x.c, x.arg)
      BY <2>1 DEF Put
    <3>2. /\ Put(courses, x.c, x.arg) \in Maps
          /\ There(Put(courses, x.c, x.arg)) = There(courses) \union {x.c}
          /\ \A d \in Ids : Put(courses, x.c, x.arg)[d] = IF d = x.c THEN x.arg ELSE courses[d]
      BY <2>1, <2>2, CourseWith
    <3> QED
      BY <3>1, <3>2
  <2>4. apart' \in BOOLEAN
    BY <2>1
  <2>5. moved' \in SUBSET Ids
    BY <2>1, MovedIs
  <2>6. Turn(k, Idle)
    BY <1>1, <2>1, <2>2, <2>3, <2>4, <2>5, IdleKnows DEF Turn
  <2> QED
    BY <2>6
<1> QED
  BY <1>2, <1>3

(* An enrollment saved under no other course's code is one less to save.   *)
LEMMA SavedOne ==
    ASSUME NEW s \in Maps, NEW c \in Ids, NEW doc \in Docs, NEW portal \in Portals, NEW e \in portal,
           doc.code = e.code, doc.workload = e.workload, c \in There(s) => s[c].code = e.code,
           ~Duplicate(s, c, doc.code)
    PROVE  ToSave(Put(s, c, doc), portal) \subseteq ToSave(s, portal) \ {e.code}
<1> DEFINE t == Put(s, c, doc)
<1>1. /\ t \in Maps /\ There(t) = There(s) \union {c}
      /\ \A d \in Ids : t[d] = IF d = c THEN doc ELSE s[d]
  BY CourseWith
<1> HIDE DEF t
<1>3. There(s) \in SUBSET Ids /\ There(t) \in SUBSET Ids
  BY DEF There
<1>4. \A d \in There(s) : d \in There(t) /\ t[d].code = s[d].code
  BY <1>1, <1>3
<1>6. ASSUME NEW f \in portal, f.code = e.code PROVE f.code \notin ToSave(t, portal)
  <2>1. Coded(t, e.code) = {c}
    <3>1. c \in There(t) /\ t[c].code = e.code
      BY <1>1
    <3>2. \A d \in There(t) : t[d].code = e.code => d = c
      BY <1>1, <1>3 DEF Duplicate
    <3> QED
      BY <3>1, <3>2 DEF Coded
  <2>2. LastOf(Coded(t, e.code)) = c
    BY <2>1, LastOfOne
  <2>3. ASSUME NEW g \in portal, g.code = e.code
        PROVE  ~(\/ Coded(t, g.code) = {}
                 \/ t[LastOf(Coded(t, g.code))].workload = 1 /\ g.workload # 1)
    <3>1. g = e
      BY <2>3, PortalsAssumption
    <3> QED
      BY <1>1, <2>1, <2>2, <3>1
  <2> QED
    BY <1>6, <2>3 DEF ToSave
<1>7. ASSUME NEW f \in portal, f.code # e.code,
             \/ Coded(t, f.code) = {}
             \/ t[LastOf(Coded(t, f.code))].workload = 1 /\ f.workload # 1
      PROVE  f.code \in ToSave(s, portal)
  <2>1. Coded(t, f.code) = Coded(s, f.code)
    BY <1>1, <1>3, <1>4, <1>7 DEF Coded
  <2>2. CASE Coded(s, f.code) = {}
    BY <2>2 DEF ToSave
  <2>3. CASE Coded(s, f.code) # {}
    <3>1. Coded(s, f.code) \in SUBSET Ids
      BY <1>3 DEF Coded
    <3>2. LastOf(Coded(s, f.code)) \in Coded(s, f.code) /\ LastOf(Coded(s, f.code)) \in Ids
      BY <2>3, <3>1, LastIn
    <3>3. LastOf(Coded(s, f.code)) # c
      BY <1>1, <1>7, <2>1, <3>2 DEF Coded
    <3>4. t[LastOf(Coded(s, f.code))] = s[LastOf(Coded(s, f.code))]
      BY <1>1, <3>2, <3>3
    <3>5. s[LastOf(Coded(s, f.code))].workload = 1 /\ f.workload # 1
      BY <1>7, <2>1, <2>3, <3>4
    <3> QED
      BY <3>5 DEF ToSave
  <2> QED
    BY <2>2, <2>3
<1>8. ASSUME NEW code \in ToSave(t, portal) PROVE code \in ToSave(s, portal) \ {e.code}
  <2>1. PICK f \in portal : /\ f.code = code
                            /\ \/ Coded(t, f.code) = {}
                               \/ t[LastOf(Coded(t, f.code))].workload = 1 /\ f.workload # 1
    BY DEF ToSave
  <2>2. f.code # e.code
    BY <1>6, <1>8, <2>1
  <2> QED
    BY <1>7, <2>1, <2>2
<1> QED
  BY <1>8 DEF t

LEMMA SaveEnrollmentDoes ==
    ASSUME Inv, NEW k \in Calls, SaveEnrollment(k)
    PROVE  \/ UNCHANGED <<courses, moved, apart>> /\ Become(k, Idle)
           \/ LET x == call[k] IN
              \E e \in x.arg :
                 LET c == Target(x.first, e)
                     doc == Enrolled(x.first, e) IN
                 /\ x.kind = "siga" /\ x.pc = "save" /\ x.arg \in Portals /\ x.first \in Maps
                 /\ x.snap \in Maps /\ c \in Ids /\ doc \in Docs
                 /\ Saveable(x.snap, c, doc)
                 /\ Coded(x.first, e.code) = {} => courses[c] = None
                 /\ courses' = [courses EXCEPT ![c] = doc]
                 /\ Wrote(k, c, [x EXCEPT !.pc = "list", !.todo = @ \ {e.code}])
                 /\ moved' = Moved(c, doc)
                 /\ apart' = (apart /\ x.snap = courses /\ (Coded(x.first, e.code) # {} =>
                                                              x.first[c] = courses[c]))
<1> DEFINE x == call[k]
           code == Least(x.todo)
           e == Enrollment(x.arg, code)
<1>1. x.kind = "siga" /\ x.pc = "save" /\ x \in Works /\ Knows(x, courses, meetings)
  BY CallIs DEF SaveEnrollment, At
<1>2. /\ x.arg \in Portals /\ x.first \in Maps /\ x.snap \in Maps
      /\ x.todo \subseteq ToSave(x.first, x.arg) /\ x.todo # {} /\ x.todo \in SUBSET Nat
  BY <1>1 DEF Knows, Fit, FitSiga, Works
<1>3. code \in x.todo
  BY <1>2, LeastIn
<1>4. e \in x.arg /\ e.code = code /\ e \in Enrollments
  <2>1. code \in Listed(x.arg)
    BY <1>2, <1>3, ToSaveListed
  <2> QED
    BY <1>2, <2>1, EnrollmentOf
<1>5. Target(x.first, e) \in Ids /\ Enrolled(x.first, e) \in Docs
  BY <1>2, <1>4, TargetIs
<1> QED
  BY <1>1, <1>2, <1>4, <1>5 DEF SaveEnrollment

LEMMA SaveEnrollmentTurns ==
    ASSUME Inv, NEW k \in Calls, SaveEnrollment(k)
    PROVE  \E y : Turn(k, y)
<1>1. UNCHANGED meetings
  BY DEF SaveEnrollment
<1>2. CASE UNCHANGED <<courses, moved, apart>> /\ Become(k, Idle)
  BY <1>1, <1>2, IdleTurn
<1>3. CASE ~(UNCHANGED <<courses, moved, apart>> /\ Become(k, Idle))
  <2> DEFINE x == call[k]
  <2>1. PICK e \in x.arg :
           LET c == Target(x.first, e)
               doc == Enrolled(x.first, e) IN
           /\ x.kind = "siga" /\ x.pc = "save" /\ x.arg \in Portals /\ x.first \in Maps
           /\ c \in Ids /\ doc \in Docs /\ Saveable(x.snap, c, doc)
           /\ Coded(x.first, e.code) = {} => courses[c] = None
           /\ courses' = [courses EXCEPT ![c] = doc]
           /\ Wrote(k, c, [x EXCEPT !.pc = "list", !.todo = @ \ {e.code}])
           /\ moved' = Moved(c, doc)
           /\ apart' = (apart /\ x.snap = courses /\ (Coded(x.first, e.code) # {} =>
                                                        x.first[c] = courses[c]))
    BY <1>3, SaveEnrollmentDoes
  <2> DEFINE c == Target(x.first, e)
             doc == Enrolled(x.first, e)
             codes == x.todo \ {e.code}
             y == [x EXCEPT !.pc = "list", !.todo = codes]
  <2>2. /\ x.kind = "siga" /\ x.pc = "save" /\ x.arg \in Portals /\ x.first \in Maps
        /\ Coded(x.first, e.code) = {} => courses[c] = None
        /\ c \in Ids /\ doc \in Docs /\ courses' = [courses EXCEPT ![c] = doc]
        /\ Wrote(k, c, y) /\ Saveable(x.snap, c, doc)
        /\ moved' = Moved(c, doc) /\ apart' \in BOOLEAN
    BY <2>1
  <2>3. x \in Works /\ Knows(x, courses, meetings) /\ courses \in Maps /\ meetings \in Boards
    BY CallIs
  <2>4. e \in Enrollments
    BY <2>2, EnrollmentIs
  <2>5. /\ doc.code = e.code /\ doc.workload = e.workload
        /\ Coded(x.first, e.code) # {} => c \in There(x.first) /\ x.first[c].code = e.code
    BY <2>2, <2>4, TargetIs
  <2> HIDE DEF x, c, doc
  <2>6. courses' = Put(courses, c, doc)
    BY <2>2 DEF Put
  <2>7. /\ Put(courses, c, doc) \in Maps
        /\ There(Put(courses, c, doc)) = There(courses) \union {c}
        /\ \A d \in Ids : Put(courses, c, doc)[d] = IF d = c THEN doc ELSE courses[d]
    BY <2>2, <2>3, CourseWith
  <2>8. /\ courses' \in Maps /\ There(courses') = There(courses) \union {c}
        /\ \A d \in Ids : courses'[d] = IF d = c THEN doc ELSE courses[d]
    BY <2>6, <2>7
  <2>9. moved' \in SUBSET Ids
    BY <2>2, MovedIs
  <2>10. codes \in SUBSET Nat
    BY <2>3 DEF Works
  <2> HIDE DEF codes
  <2>11. /\ y \in Works /\ y.kind = "siga" /\ y.pc = "list" /\ y.arg = x.arg /\ y.todo = codes
         /\ y.snap = x.snap /\ y.first = x.first /\ y.others = x.others /\ y.alone = x.alone
    BY <2>2, <2>3, <2>10 DEF Works
  <2> HIDE DEF y
  <2>12. /\ x.snap \in Maps /\ x.others \in Boards /\ There(x.snap) \subseteq There(courses)
         /\ codes \subseteq ToSave(x.first, x.arg)
    BY <2>2, <2>3 DEF Knows, Fit, FitSiga, Kept, codes
  <2>13. FitCourse(y) /\ FitSiga(y) /\ FitSchedule(y) /\ FitNone(y)
    BY <2>2, <2>11, <2>12 DEF FitCourse, FitSiga, FitSchedule, FitNone, Hand
  <2>14. Kept(y, courses')
    BY <2>8, <2>11, <2>12 DEF Kept
  <2>15. ASSUME x.alone, NEW d \in There(x.first)
         PROVE  d \in There(courses') /\ courses'[d].code = x.first[d].code
    <3>1. d \in There(courses) /\ courses[d].code = x.first[d].code /\ d \in Ids
      BY <2>2, <2>3, <2>15 DEF Knows, Current, There
    <3>2. CASE d = c
      <4>1. Coded(x.first, e.code) # {}
        BY <2>2, <3>1, <3>2 DEF There
      <4> QED
        BY <2>5, <2>8, <3>1, <3>2, <4>1
    <3>3. CASE d # c
      BY <2>8, <3>1, <3>3
    <3> QED
      BY <3>2, <3>3
  <2>16. Current(y, courses', meetings') /\ Coding(y, courses')
    BY <2>11, <2>15 DEF Current, Coding, Hand
  <2>17. ASSUME x.alone PROVE ToSave(courses', x.arg) \subseteq codes
    <3>1. c \in There(courses) => courses[c].code = e.code
      <4>1. CASE Coded(x.first, e.code) = {}
        BY <2>2, <4>1 DEF There
      <4>2. CASE Coded(x.first, e.code) # {}
        BY <2>2, <2>3, <2>5, <2>17, <4>2 DEF Knows, Current
      <4> QED
        BY <4>1, <4>2
    <3>2. ToSave(courses', x.arg) \subseteq ToSave(courses, x.arg) \ {e.code}
      <4>1. x.snap = courses
        BY <2>2, <2>3, <2>17 DEF Knows, Current
      <4>2. ~Duplicate(courses, c, doc.code)
        BY <2>2, <4>1 DEF Saveable
      <4>3. ToSave(Put(courses, c, doc), x.arg) \subseteq ToSave(courses, x.arg) \ {e.code}
        BY <2>2, <2>3, <2>5, <3>1, <4>2, SavedOne
      <4> QED
        BY <2>6, <4>3
    <3>3. ToSave(courses, x.arg) \subseteq x.todo
      BY <2>2, <2>3, <2>17, <3>2 DEF Knows, Settling
    <3> QED
      BY <3>2, <3>3 DEF codes
  <2>18. Settling(y, courses', meetings')
    BY <2>11, <2>17 DEF Settling, Hand
  <2>19. Knows(y, courses', meetings')
    BY <2>13, <2>14, <2>16, <2>18 DEF Knows, Fit
  <2>20. Turn(k, y)
    BY <1>1, <2>2, <2>3, <2>8, <2>9, <2>11, <2>19 DEF Turn
  <2> QED
    BY <2>20
<1> QED
  BY <1>2, <1>3

(* The week a schedule asks for. *)
Week(asked) == [n \in Names |-> IF n \in DOMAIN asked.weekly THEN asked.weekly[n] ELSE None]
Askable(asked) == /\ asked.period \in Periods \union {None}
                  /\ \A n \in DOMAIN asked.weekly : n \in Names /\ asked.weekly[n] \in Hours

Dated(doc, asked) == [doc EXCEPT !.period = asked.period]

LEMMA WeekIs ==
    ASSUME NEW asked, Askable(asked)
    PROVE  /\ Week(asked) \in Weeks /\ Of(Week(asked)) = DOMAIN asked.weekly
           /\ \A n \in DOMAIN asked.weekly : Week(asked)[n] = asked.weekly[n]
<1>1. Week(asked) \in Weeks
  BY DEF Week, Weeks, Askable
<1>2. \A n \in DOMAIN asked.weekly : n \in Names /\ asked.weekly[n] # None
  BY NoneAssumption DEF Askable
<1>3. Of(Week(asked)) = DOMAIN asked.weekly
  BY <1>2 DEF Of, Week
<1> QED
  BY <1>1, <1>2, <1>3 DEF Week

LEMMA DatedIs ==
    ASSUME NEW doc \in Docs, NEW asked, Askable(asked)
    PROVE  LET y == Dated(doc, asked) IN
           /\ y \in Docs /\ y.code = doc.code /\ y.term = doc.term /\ y.workload = doc.workload
           /\ y.online = doc.online /\ y.period = asked.period
BY DEF Dated, Docs, Askable

(* What a schedule's commit does, and does if all it read is stored.       *)
LEMMA WriteDoes ==
    ASSUME Inv, NEW x, x.c \in Ids, x.own \in Docs, x.mine \in Weeks, NEW asked, Askable(asked),
           Write(x, asked)
    PROVE  /\ courses' \in Maps /\ meetings' \in Boards
           /\ There(courses) \subseteq There(courses')
           /\ There(courses') \subseteq There(courses) \union {x.c}
           /\ apart' \in BOOLEAN /\ moved' \in SUBSET Ids
           /\ \A d \in Ids : d # x.c => courses'[d] = courses[d] /\ meetings'[d] = meetings[d]
           /\ courses'[x.c] \in {courses[x.c], Dated(x.own, asked)}
           /\ x.own = courses[x.c] => courses'[x.c] = Dated(courses[x.c], asked)
           /\ x.mine = meetings[x.c] => meetings'[x.c] = Week(asked)
<1>1. courses \in Maps /\ meetings \in Boards /\ apart \in BOOLEAN /\ moved \in SUBSET Ids
  BY DEF Inv, TypeOK
<1> DEFINE new == [n \in Names |->
                     IF n \in DOMAIN asked.weekly /\ x.mine[n] # asked.weekly[n] THEN asked.weekly[n]
                     ELSE IF n \notin DOMAIN asked.weekly /\ x.mine[n] # None THEN None
                     ELSE meetings[x.c][n]]
<1>2. meetings' = [meetings EXCEPT ![x.c] = new]
  BY DEF Write, Replaced
<1>3. meetings[x.c] \in Weeks
  BY <1>1 DEF Boards
<1>4. new \in Weeks
  <2>1. ASSUME NEW n \in Names PROVE new[n] \in Hours \union {None}
    BY <1>3 DEF Askable, Weeks
  <2> QED
    BY <2>1 DEF Weeks
<1>5. x.mine = meetings[x.c] => new = Week(asked)
  <2> SUFFICES ASSUME x.mine = meetings[x.c], NEW n \in Names PROVE new[n] = Week(asked)[n]
    BY DEF Week
  <2>1. CASE n \in DOMAIN asked.weekly
    BY <2>1 DEF Week
  <2>2. CASE n \notin DOMAIN asked.weekly
    BY <2>2 DEF Week
  <2> QED
    BY <2>1, <2>2
<1> HIDE DEF new
<1>6. /\ meetings' \in Boards /\ \A d \in Ids : d # x.c => meetings'[d] = meetings[d]
      /\ meetings'[x.c] = new
  BY <1>1, <1>2, <1>4 DEF Boards
<1>7. /\ courses' \in Maps /\ There(courses) \subseteq There(courses')
      /\ There(courses') \subseteq There(courses) \union {x.c}
      /\ \A d \in Ids : d # x.c => courses'[d] = courses[d]
      /\ courses'[x.c] = IF x.own.period = asked.period THEN courses[x.c] ELSE Dated(x.own, asked)
  <2>1. CASE x.own.period = asked.period
    BY <1>1, <2>1 DEF Write
  <2>2. CASE x.own.period # asked.period
    <3> DEFINE doc == Dated(x.own, asked)
    <3>1. doc \in Docs
      BY DatedIs
    <3>2. courses' = Put(courses, x.c, doc)
      BY <2>2 DEF Write, Put, Dated
    <3> HIDE DEF doc
    <3>3. /\ Put(courses, x.c, doc) \in Maps
          /\ There(Put(courses, x.c, doc)) = There(courses) \union {x.c}
          /\ \A d \in Ids : Put(courses, x.c, doc)[d] = IF d = x.c THEN doc ELSE courses[d]
      BY <1>1, <3>1, CourseWith
    <3> QED
      BY <2>2, <3>2, <3>3 DEF doc
  <2> QED
    BY <2>1, <2>2
<1>8. x.own = courses[x.c] /\ x.own.period = asked.period =>
         courses[x.c] = Dated(courses[x.c], asked)
  BY DEF Dated, Docs
<1>9. apart' \in BOOLEAN /\ moved' \in SUBSET Ids
  BY <1>1 DEF Write
<1> QED
  BY <1>5, <1>6, <1>7, <1>8, <1>9

LEMMA CommitScheduleDoes ==
    ASSUME Inv, NEW k \in Calls, CommitSchedule(k)
    PROVE  \/ UNCHANGED <<courses, meetings, moved, apart>> /\ Become(k, Idle)
           \/ LET x == call[k] IN
              /\ x.c \in Ids /\ x.own \in Docs /\ x.mine \in Weeks
              /\ Askable(x.arg) /\ x.snap \in Maps /\ x.others \in Boards
              /\ ~Invalid(x.own, x.arg, today) /\ ~Overlaps(x.c, x.arg, x.snap, x.others)
              /\ Write(x, x.arg) /\ Wrote(k, x.c, Idle)
<1>1. /\ call[k].kind = "schedule" /\ call[k].pc = "commit"
      /\ Knows(call[k], courses, meetings)
  BY CallIs DEF CommitSchedule, At
<1>2. /\ call[k].c \in Ids /\ call[k].own \in Docs /\ call[k].mine \in Weeks
      /\ call[k].arg \in Asked /\ call[k].snap \in Maps /\ call[k].others \in Boards
  BY <1>1 DEF Knows, Fit, FitSchedule
<1>3. Askable(call[k].arg)
  BY <1>2, AsksAssumption DEF Asked, Askable
<1> QED
  BY <1>2, <1>3 DEF CommitSchedule

LEMMA CommitScheduleTurns ==
    ASSUME Inv, NEW k \in Calls, CommitSchedule(k)
    PROVE  \E y : Turn(k, y)
<1>1. CASE UNCHANGED <<courses, meetings, moved, apart>> /\ Become(k, Idle)
  BY <1>1, IdleTurn
<1>2. CASE ~(UNCHANGED <<courses, meetings, moved, apart>> /\ Become(k, Idle))
  <2> DEFINE x == call[k]
  <2>1. /\ x.c \in Ids /\ x.own \in Docs /\ x.mine \in Weeks /\ Askable(x.arg)
        /\ Write(x, x.arg) /\ Wrote(k, x.c, Idle)
    BY <1>2, CommitScheduleDoes
  <2> HIDE DEF x
  <2>2. /\ courses' \in Maps /\ meetings' \in Boards /\ There(courses) \subseteq There(courses')
        /\ apart' \in BOOLEAN /\ moved' \in SUBSET Ids
        /\ \A d \in Ids \ {x.c} : courses'[d] = courses[d]
    BY <2>1, WriteDoes
  <2>3. Turn(k, Idle)
    BY <2>1, <2>2, IdleKnows DEF Turn
  <2> QED
    BY <2>3
<1> QED
  BY <1>1, <1>2

(* What an import asks of the course in hand: its schedule is of imported  *)
(* meetings only.                                                          *)
Wants(x, e) == [weekly |-> Requested(e), period |-> Dates(x.snap[x.c], e)]

LEMMA WantsIs ==
    ASSUME NEW x, x.snap[x.c] \in Docs, NEW e \in Enrollments
    PROVE  /\ Askable(Wants(x, e)) /\ Wants(x, e).period = Dates(x.snap[x.c], e)
           /\ Wants(x, e).weekly = Requested(e) /\ Manual(Week(Wants(x, e))) = {}
<1> DEFINE asked == Wants(x, e)
<1>1. asked.weekly = Requested(e) /\ asked.period = Dates(x.snap[x.c], e)
  BY DEF Wants
<1>2. e.hours \subseteq Hours
  BY DEF Enrollments
<1>3. DOMAIN asked.weekly = e.hours /\ \A n \in e.hours : asked.weekly[n] = n
  BY <1>1 DEF Requested
<1> HIDE DEF asked
<1>4. Askable(asked)
  BY <1>1, <1>2, <1>3, DatesPeriods DEF Askable, Names
<1>5. Manual(Week(asked)) = {}
  BY <1>3, <1>4, WeekIs DEF Manual, IsImported
<1> QED
  BY <1>1, <1>4, <1>5 DEF asked

LEMMA CommitImportDoes ==
    ASSUME Inv, NEW k \in Calls, NEW destructive \in BOOLEAN, CommitImport(k, destructive)
    PROVE  LET x == call[k]
               e == Enrollment(x.arg, Least(x.todo))
               codes == x.todo \ {Least(x.todo)}
               asked == Wants(x, e) IN
           \/ UNCHANGED <<courses, meetings, moved, apart>> /\ Become(k, Idle)
           \/ /\ UNCHANGED <<courses, meetings, moved, apart>>
              /\ Become(k, NextCourse([x EXCEPT !.refused = @ \union {x.c}], codes))
           \/ /\ ~Invalid(x.own, asked, today) /\ ~Overlaps(x.c, asked, x.snap, x.others)
              /\ Write(x, asked)
              /\ Wrote(k, x.c, NextCourse([x EXCEPT !.snap[x.c] = Dated(x.own, asked),
                                                    !.others[x.c] = Week(asked)], codes))
BY DEF CommitImport, Wants, Dated, Week

LEMMA LastIs ==
    ASSUME NEW S \in SUBSET Ids, NEW c \in S, \A d \in S : c >= d
    PROVE  LastOf(S) = c
<1>1. LastOf(S) \in S /\ \A d \in S : LastOf(S) >= d
  BY GreatestThere, IdsAssumption DEF LastOf, Ids
<1>2. LastOf(S) \in Ids /\ c \in Ids
  BY <1>1
<1>3. LastOf(S) \in Int /\ c \in Int
  BY <1>2, IdsAssumption DEF Ids
<1>4. LastOf(S) >= c /\ c >= LastOf(S)
  BY <1>1
<1> HIDE DEF LastOf
<1> QED
  BY <1>3, <1>4

(* A schedule saved leaves the codes and workloads of all courses, and so  *)
(* what an import would save.                                              *)
LEMMA SameToSave ==
    ASSUME NEW s \in Maps, NEW t \in Maps, There(t) = There(s),
           \A d \in There(s) : t[d].code = s[d].code /\ t[d].workload = s[d].workload,
           NEW portal
    PROVE  ToSave(t, portal) = ToSave(s, portal)
<1>1. \A code : Coded(t, code) = Coded(s, code)
  BY DEF Coded
<1>2. ASSUME NEW code, Coded(s, code) # {}
      PROVE  t[LastOf(Coded(s, code))].workload = s[LastOf(Coded(s, code))].workload
  <2>1. Coded(s, code) \in SUBSET Ids
    BY DEF Coded, There
  <2>2. LastOf(Coded(s, code)) \in There(s)
    BY <1>2, <2>1, LastIn DEF Coded
  <2> QED
    BY <2>2
<1>3. \A f \in portal :
         (\/ Coded(t, f.code) = {}
          \/ t[LastOf(Coded(t, f.code))].workload = 1 /\ f.workload # 1)
         <=>
         (\/ Coded(s, f.code) = {}
          \/ s[LastOf(Coded(s, f.code))].workload = 1 /\ f.workload # 1)
  BY <1>1, <1>2
<1> QED
  BY <1>3 DEF ToSave

(* An import that was refused a schedule goes on to the next.              *)
LEMMA RefusedKnows ==
    ASSUME Inv, NEW k \in Calls, call[k].kind = "siga", call[k].pc = "commit"
    PROVE  LET x == call[k]
               codes == x.todo \ {Least(x.todo)}
               y == NextCourse([x EXCEPT !.refused = @ \union {x.c}], codes) IN
           y \in Works /\ Knows(y, courses, meetings)
<1> DEFINE x == call[k]
           code == Least(x.todo)
           codes == x.todo \ {code}
           refused == x.refused \union {x.c}
           z == [x EXCEPT !.refused = refused]
<1>1. x \in Works /\ Knows(x, courses, meetings) /\ courses \in Maps
  BY CallIs
<1>2. /\ x.arg \in Portals /\ x.snap \in Maps /\ x.others \in Boards /\ Handles(x)
      /\ x.c \in Ids /\ x.snap[x.c].code = code /\ x.c \in There(x.snap)
  BY HandIs DEF Hand
<1>3. refused \in SUBSET Nat
  BY <1>1, <1>2 DEF Works, Ids
<1>4. /\ x.alone => x.snap = courses /\ \A d \in There(courses) : x.others[d] = meetings[d]
      /\ x.alone => ToSave(courses, x.arg) = {} /\ Left(x, courses, meetings, x.todo)
      /\ There(x.snap) \subseteq There(courses)
  BY <1>1 DEF Knows, Current, Settling, Kept, Hand
<1>5. x.kind = "siga"
  OBVIOUS
<1> HIDE DEF x, code, refused
<1>6. /\ z \in Works /\ z.kind = "siga" /\ z.arg = x.arg /\ z.snap = x.snap
      /\ z.others = x.others /\ z.refused = refused /\ z.alone = x.alone
  BY <1>1, <1>3, <1>5 DEF Works
<1> HIDE DEF z
<1>7. /\ codes \subseteq Listed(z.arg)
      /\ \A other \in codes :
            Chosen(z, other) # {} /\ Manual(z.others[LastOf(Chosen(z, other))]) = {}
  <2>1. \A other : Chosen(z, other) = Chosen(x, other)
    BY <1>6 DEF Chosen
  <2> QED
    BY <1>2, <1>6, <2>1 DEF Handles
<1>8. ASSUME x.alone
      PROVE  Left(z, courses, meetings, codes)
  <2> SUFFICES ASSUME NEW e \in x.arg, e.code \in ToReconcile(courses, meetings, x.arg)
               PROVE  LastOf(Matching(courses, e)) \in refused \/ e.code \in codes
    BY <1>6 DEF Left
  <2>1. LastOf(Matching(courses, e)) \in x.refused \/ e.code \in x.todo
    BY <1>4, <1>8 DEF Left
  <2>2. CASE e.code = code
    <3>1. Enrollment(x.arg, code) = e
      BY <1>2, <2>2, EnrollmentIs
    <3>2. x.c = LastOf(Matching(courses, e))
      BY <1>2, <1>4, <1>8, <3>1 DEF Handles, Chosen, code
    <3> QED
      BY <3>2 DEF refused
  <2>3. CASE e.code # code
    BY <2>1, <2>3 DEF refused
  <2> QED
    BY <2>2, <2>3
<1> HIDE DEF codes
<1>9. NextCourse(z, codes) \in Works /\ Knows(NextCourse(z, codes), courses, meetings)
  BY <1>2, <1>4, <1>6, <1>7, <1>8, NextCourseKnows
<1>10. z = [x EXCEPT !.refused = @ \union {x.c}]
  BY <1>1 DEF z, refused, Works
<1> QED
  BY <1>9, <1>10 DEF codes, code, x

(* An import that saved a schedule goes on to the next.                    *)
LEMMA WrittenKnows ==
    ASSUME Inv, NEW k \in Calls, call[k].kind = "siga", call[k].pc = "commit",
           Write(call[k], Wants(call[k], Enrollment(call[k].arg, Least(call[k].todo))))
    PROVE  LET x == call[k]
               asked == Wants(x, Enrollment(x.arg, Least(x.todo)))
               codes == x.todo \ {Least(x.todo)}
               y == NextCourse([x EXCEPT !.snap[x.c] = Dated(x.own, asked),
                                         !.others[x.c] = Week(asked)], codes) IN
           /\ y \in Works /\ Knows(y, courses', meetings')
           /\ courses' \in Maps /\ meetings' \in Boards /\ There(courses) \subseteq There(courses')
           /\ apart' \in BOOLEAN /\ moved' \in SUBSET Ids
           /\ \A d \in Ids \ {x.c} : courses'[d] = courses[d]
<1> DEFINE x == call[k]
           code == Least(x.todo)
           e == Enrollment(x.arg, code)
           asked == Wants(x, e)
           codes == x.todo \ {code}
           doc == Dated(x.own, asked)
           week == Week(asked)
           snap == [x.snap EXCEPT ![x.c] = doc]
           others == [x.others EXCEPT ![x.c] = week]
           z == [x EXCEPT !.snap = snap, !.others = others]
<1>1. x \in Works /\ Knows(x, courses, meetings) /\ courses \in Maps /\ meetings \in Boards
  BY CallIs
<1>2. /\ x.arg \in Portals /\ x.snap \in Maps /\ x.others \in Boards /\ Handles(x)
      /\ e \in x.arg /\ e \in Enrollments /\ e.code = code /\ code \in x.todo
      /\ x.c \in Ids /\ x.snap[x.c].code = code /\ x.c \in There(x.snap) /\ x.snap[x.c] \in Docs
      /\ x.c \in There(courses)
  BY HandIs DEF Hand
<1>3. x.own \in Docs /\ x.mine \in Weeks
  BY <1>1 DEF Knows, Fit, FitSiga
<1>4. /\ x.alone => /\ x.snap = courses /\ \A d \in There(courses) : x.others[d] = meetings[d]
                    /\ x.own = courses[x.c] /\ x.mine = meetings[x.c]
      /\ x.alone => ToSave(courses, x.arg) = {} /\ Left(x, courses, meetings, x.todo)
      /\ There(x.snap) \subseteq There(courses)
  BY <1>1 DEF Knows, Current, Settling, Kept, Hand
<1>5. x.kind = "siga" /\ Write(x, asked)
  OBVIOUS
<1> HIDE DEF x, code, e
<1>6. /\ Askable(asked) /\ asked.period = Dates(x.snap[x.c], e)
      /\ asked.weekly = Requested(e) /\ Manual(week) = {}
  BY <1>2, WantsIs
<1> HIDE DEF asked
<1>7. /\ courses' \in Maps /\ meetings' \in Boards /\ There(courses) \subseteq There(courses')
      /\ There(courses') \subseteq There(courses) \union {x.c}
      /\ apart' \in BOOLEAN /\ moved' \in SUBSET Ids
      /\ \A d \in Ids : d # x.c => courses'[d] = courses[d] /\ meetings'[d] = meetings[d]
      /\ x.own = courses[x.c] => courses'[x.c] = Dated(courses[x.c], asked)
      /\ x.mine = meetings[x.c] => meetings'[x.c] = week
  BY <1>2, <1>3, <1>5, <1>6, WriteDoes
<1>8. /\ doc \in Docs /\ doc.code = x.own.code /\ doc.term = x.own.term
      /\ doc.workload = x.own.workload /\ doc.online = x.own.online /\ doc.period = asked.period
  BY <1>3, <1>6, DatedIs
<1>9. /\ week \in Weeks /\ Of(week) = DOMAIN asked.weekly
      /\ \A n \in DOMAIN asked.weekly : week[n] = asked.weekly[n]
  BY <1>6, WeekIs
<1>10. x.alone => courses'[x.c] = doc
  BY <1>4, <1>7
<1> HIDE DEF doc, week
<1>11. /\ snap \in Maps /\ There(snap) = There(x.snap)
       /\ \A d \in Ids : snap[d] = IF d = x.c THEN doc ELSE x.snap[d]
  <2>1. snap = Put(x.snap, x.c, doc)
    BY DEF Put
  <2>2. There(x.snap) \union {x.c} = There(x.snap)
    BY <1>2
  <2>3. /\ Put(x.snap, x.c, doc) \in Maps
        /\ There(Put(x.snap, x.c, doc)) = There(x.snap) \union {x.c}
        /\ \A d \in Ids : Put(x.snap, x.c, doc)[d] = IF d = x.c THEN doc ELSE x.snap[d]
    BY <1>2, <1>8, CourseWith
  <2> HIDE DEF snap
  <2> QED
    BY <2>1, <2>2, <2>3
<1>12. /\ others \in Boards
       /\ \A d \in Ids : others[d] = IF d = x.c THEN week ELSE x.others[d]
  BY <1>2, <1>9 DEF Boards
<1> HIDE DEF snap, others
<1>13. /\ z \in Works /\ z.kind = "siga" /\ z.arg = x.arg /\ z.snap = snap
       /\ z.others = others /\ z.refused = x.refused /\ z.alone = x.alone
  BY <1>1, <1>5, <1>11, <1>12 DEF Works
<1>14. z = [x EXCEPT !.snap[x.c] = doc, !.others[x.c] = week]
  BY <1>1 DEF snap, others, Works
<1> HIDE DEF z
<1>15. ASSUME NEW other \in codes
       PROVE  Chosen(z, other) # {} /\ Manual(others[LastOf(Chosen(z, other))]) = {}
  <2> DEFINE f == Enrollment(x.arg, other)
             M == Matching(x.snap, f)
             L == Matching(snap, f)
  <2>1. f.code = other /\ other # code
    BY <1>2, EnrollmentOf DEF Handles
  <2>2. M # {} /\ Manual(x.others[LastOf(M)]) = {}
    BY <1>2 DEF Handles, Chosen
  <2>3. M \in SUBSET Ids /\ L \in SUBSET Ids
    BY DEF Matching, There
  <2>4. x.c \notin M
    BY <1>2, <2>1 DEF Matching
  <2>5. M \subseteq L /\ L \subseteq M \union {x.c}
    BY <1>11, <2>3, <2>4 DEF Matching
  <2>6. Chosen(z, other) = L
    BY <1>13 DEF Chosen
  <2> HIDE DEF M, L, f
  <2>7. L # {} /\ LastOf(L) \in L /\ \A d \in L : LastOf(L) >= d
    <3>1. L # {}
      BY <2>2, <2>5
    <3> QED
      BY <2>3, <3>1, GreatestThere, IdsAssumption DEF LastOf, Ids
  <2>8. CASE LastOf(L) = x.c
    BY <1>2, <1>6, <1>12, <2>6, <2>7, <2>8
  <2>9. CASE LastOf(L) # x.c
    <3>1. LastOf(L) \in M
      BY <2>5, <2>7, <2>9
    <3>2. LastOf(M) = LastOf(L)
      BY <2>3, <2>5, <2>7, <3>1, LastIs
    <3>3. others[LastOf(L)] = x.others[LastOf(L)]
      BY <1>12, <2>3, <2>9, <3>1
    <3> QED
      BY <2>2, <2>6, <2>7, <3>2, <3>3
  <2> QED
    BY <2>8, <2>9
<1>16. codes \subseteq Listed(z.arg)
  BY <1>2, <1>13 DEF Handles
<1>17. x.alone => snap = courses' /\ \A d \in There(courses') : others[d] = meetings'[d]
  <2> SUFFICES ASSUME x.alone PROVE snap = courses' /\ \A d \in There(courses') : others[d] = meetings'[d]
    OBVIOUS
  <2>1. \A d \in Ids : snap[d] = courses'[d]
    BY <1>4, <1>7, <1>10, <1>11
  <2>2. snap = courses'
    BY <1>7, <1>11, <2>1 DEF Maps
  <2>3. \A d \in There(courses') : d \in Ids /\ (d # x.c => d \in There(courses))
    BY <1>7 DEF There
  <2>4. \A d \in There(courses') : others[d] = meetings'[d]
    BY <1>4, <1>7, <1>12, <2>3
  <2> QED
    BY <2>2, <2>4
<1>18. ASSUME x.alone
       PROVE  ToSave(courses', x.arg) = {} /\ Left(z, courses', meetings', codes)
  <2>1. There(courses') = There(courses)
    BY <1>2, <1>7
  <2>2. \A d \in There(courses) : /\ courses'[d].code = courses[d].code
                                  /\ courses'[d].term = courses[d].term
                                  /\ courses'[d].workload = courses[d].workload
    BY <1>4, <1>7, <1>8, <1>10, <1>18 DEF There
  <2>3. ToSave(courses', x.arg) = ToSave(courses, x.arg)
    BY <1>1, <1>7, <2>1, <2>2, SameToSave
  <2>4. ASSUME NEW f \in x.arg, f.code \in ToReconcile(courses', meetings', x.arg)
        PROVE  LastOf(Matching(courses', f)) \in x.refused \/ f.code \in codes
    <3> DEFINE c == LastOf(Matching(courses, f))
    <3>1. Matching(courses', f) = Matching(courses, f)
      BY <2>1, <2>2 DEF Matching
    <3>2. Matching(courses, f) # {} /\ Differs(courses', meetings', c, f)
      BY <1>2, <2>4, <3>1, ReconcileIff
    <3>3. c \in There(courses) /\ c \in Ids /\ courses[c].code = f.code
      BY <1>1, <3>2, MatchingIs
    <3>4. CASE f.code = code
      <4>1. f = e
        BY <1>2, <3>4, PortalsAssumption
      <4>2. c = x.c
        BY <1>2, <1>4, <1>18, <4>1 DEF Handles, Chosen, code, e
      <4> HIDE DEF c
      <4>3. meetings'[c] = week /\ courses'[c] = doc
        BY <1>4, <1>7, <1>10, <1>18, <4>2
      <4>4. [n \in Of(week) |-> week[n]] = Requested(e)
        BY <1>6, <1>9 DEF Requested
      <4>5. doc.period = Dates(doc, e)
        <5>1. doc.period = Dates(x.snap[x.c], e) /\ doc.term = x.snap[x.c].term
          BY <1>4, <1>6, <1>8, <1>18
        <5> QED
          BY <5>1 DEF Dates
      <4> QED
        BY <1>6, <3>2, <4>1, <4>3, <4>4, <4>5 DEF Differs
    <3>5. CASE f.code # code
      <4>1. c # x.c
        BY <1>2, <1>4, <1>18, <3>3, <3>5
      <4>2. courses'[c] = courses[c] /\ meetings'[c] = meetings[c]
        BY <1>7, <3>3, <4>1
      <4>3. f.code \in ToReconcile(courses, meetings, x.arg)
        <5>1. Differs(courses, meetings, c, f)
          <6> HIDE DEF c
          <6> QED
            BY <3>2, <4>2, SameDiffers
        <5> QED
          BY <1>2, <3>2, <5>1, ReconcileIff
      <4>4. c \in x.refused \/ f.code \in x.todo
        BY <1>4, <1>18, <4>3 DEF Left
      <4> QED
        BY <3>1, <3>5, <4>4
    <3> QED
      BY <3>4, <3>5
  <2>5. Left(z, courses', meetings', codes)
    BY <1>13, <2>4 DEF Left
  <2> QED
    BY <1>4, <1>18, <2>3, <2>5
<1> HIDE DEF codes
<1>19. There(z.snap) \subseteq There(courses')
  BY <1>4, <1>7, <1>11, <1>13
<1>20. NextCourse(z, codes) \in Works /\ Knows(NextCourse(z, codes), courses', meetings')
  BY <1>11, <1>12, <1>13, <1>15, <1>16, <1>17, <1>18, <1>19, <1>2, NextCourseKnows
<1> QED
  BY <1>7, <1>14, <1>20 DEF codes, code, doc, week, asked, e, x

LEMMA CommitImportTurns ==
    ASSUME Inv, NEW k \in Calls, NEW destructive \in BOOLEAN, CommitImport(k, destructive)
    PROVE  \E y : Turn(k, y)
<1> DEFINE x == call[k]
           e == Enrollment(x.arg, Least(x.todo))
           codes == x.todo \ {Least(x.todo)}
           asked == Wants(x, e)
           refused == NextCourse([x EXCEPT !.refused = @ \union {x.c}], codes)
           written == NextCourse([x EXCEPT !.snap[x.c] = Dated(x.own, asked),
                                           !.others[x.c] = Week(asked)], codes)
<1>1. x.kind = "siga" /\ x.pc = "commit"
  BY DEF CommitImport, At
<1>2. \/ UNCHANGED <<courses, meetings, moved, apart>> /\ Become(k, Idle)
      \/ UNCHANGED <<courses, meetings, moved, apart>> /\ Become(k, refused)
      \/ Write(x, asked) /\ Wrote(k, x.c, written)
  BY CommitImportDoes
<1>3. refused \in Works /\ Knows(refused, courses, meetings)
  BY <1>1, RefusedKnows
<1>4. Write(x, asked) => /\ written \in Works /\ Knows(written, courses', meetings')
                         /\ courses' \in Maps /\ meetings' \in Boards
                         /\ There(courses) \subseteq There(courses')
                         /\ apart' \in BOOLEAN /\ moved' \in SUBSET Ids
                         /\ \A d \in Ids \ {x.c} : courses'[d] = courses[d]
  BY <1>1, WrittenKnows
<1>0. x.c \in Ids
  BY <1>1, HandIs DEF Hand
<1> HIDE DEF x, asked, refused, written
<1>5. CASE UNCHANGED <<courses, meetings, moved, apart>> /\ Become(k, Idle)
  BY <1>5, IdleTurn
<1>6. CASE UNCHANGED <<courses, meetings, moved, apart>> /\ Become(k, refused)
  <2>1. Turn(k, refused)
    BY <1>3, <1>6, QuietTurn
  <2> QED
    BY <2>1
<1>7. CASE Write(x, asked) /\ Wrote(k, x.c, written)
  <2>1. Turn(k, written)
    BY <1>0, <1>4, <1>7 DEF Turn
  <2> QED
    BY <2>1
<1> QED
  BY <1>2, <1>5, <1>6, <1>7

-----------------------------------------------------------------------------
(* Every call knows what Knows says of it, from the start and ever after.  *)
LEMMA InitInv ==
    ASSUME Init
    PROVE  Inv
<1>1. PICK w \in Worlds : courses = w.courses /\ meetings = w.meetings
  BY DEF Init
<1>2. courses \in Maps /\ meetings \in Boards
  BY <1>1, WorldsAssumption DEF Maps, Boards
<1>3. call = [k \in Calls |-> Idle] /\ apart = TRUE /\ moved = {}
  BY DEF Init
<1>4. \A k \in Calls : call[k] \in Works /\ Knows(call[k], courses, meetings)
  BY <1>3, IdleKnows
<1>5. call \in [Calls -> Works]
  BY <1>3, <1>4
<1> QED
  BY <1>2, <1>3, <1>4, <1>5 DEF Inv, TypeOK

LEMMA CallTurns ==
    ASSUME Inv, NEW k \in Calls, Call(k)
    PROVE  \E y : Turn(k, y)
<1>1. CASE SaveCourse(k)
  BY <1>1, SaveCourseTurns
<1>2. CASE SaveEnrollment(k)
  BY <1>2, SaveEnrollmentTurns
<1>3. CASE ListAgain(k)
  BY <1>3, ListAgainTurns
<1>4. CASE ListMeetings(k)
  BY <1>4, ListMeetingsTurns
<1>5. CASE GetCourse(k)
  BY <1>5, GetCourseTurns
<1>6. CASE ListMine(k)
  BY <1>6, ListMineTurns
<1>7. CASE ListCourses(k)
  BY <1>7, ListCoursesTurns
<1>8. CASE CommitSchedule(k)
  BY <1>8, CommitScheduleTurns
<1>9. CASE EndSiga(k) \/ Kill(k)
  BY <1>9, EndsTurn
<1>10. CASE \E destructive \in BOOLEAN : CommitImport(k, destructive)
  BY <1>10, CommitImportTurns
<1>11. CASE \E portal \in Portals : BeginSiga(k, portal)
  BY <1>11, BeginSigaTurns
<1>12. CASE \E p \in Entered : BeginCourse(k, p.id, p.doc)
  BY <1>12, BeginCourseTurns
<1>13. CASE \E p \in Asks : BeginSchedule(k, p.id, p.asked)
  BY <1>13, BeginScheduleTurns
<1> QED
  BY <1>1, <1>2, <1>3, <1>4, <1>5, <1>6, <1>7, <1>8, <1>9, <1>10, <1>11, <1>12, <1>13 DEF Call

LEMMA StepInv ==
    ASSUME Inv, [Next]_vars
    PROVE  Inv'
<1>1. ASSUME NEW k \in Calls, Call(k) PROVE Inv'
  BY <1>1, CallTurns, TurnKeeps
<1>2. CASE NextDay \/ UNCHANGED vars
  <2>1. UNCHANGED <<courses, meetings, call, apart, moved>>
    BY <1>2 DEF NextDay, vars
  <2> QED
    BY <2>1 DEF Inv, TypeOK
<1> QED
  BY <1>1, <1>2 DEF Next

LEMMA SpecInv == Spec => []Inv
<1>1. Init => Inv
  BY InitInv
<1>2. Inv /\ [Next]_vars => Inv'
  BY StepInv
<1> QED
  BY <1>1, <1>2, PTL DEF Spec

(* Courses, meetings and what each call has read of them keep their types. *)
THEOREM TimetableTypes == Spec => []TypeOK
<1>1. Inv => TypeOK
  BY DEF Inv
<1> QED
  BY <1>1, SpecInv, PTL

-----------------------------------------------------------------------------
(* What a step may write: a course, saved, or the schedule of one; and what*)
(* is true of it if it was decided from what was stored.                   *)
Saves(c, doc) ==
    /\ c \in Ids /\ doc \in Docs
    /\ courses' = Put(courses, c, doc) /\ UNCHANGED meetings
    /\ moved' = Moved(c, doc)
    /\ apart' => apart

Schedules(c, asked) ==
    /\ Askable(asked)
    /\ moved' = moved \ {c}
    /\ apart' =>
          /\ apart /\ c \in There(courses)
          /\ courses' = Put(courses, c, Dated(courses[c], asked))
          /\ meetings' = [meetings EXCEPT ![c] = Week(asked)]
          /\ DOMAIN asked.weekly # {} => asked.period # None /\ ~Rejects(c, asked, courses, meetings)

Untouched == UNCHANGED <<courses, meetings, apart, moved>>
Written == \/ Untouched
           \/ \E c, doc : Saves(c, doc)
           \/ \E c, asked : Schedules(c, asked)

LEMMA SaveCourseWrites ==
    ASSUME Inv, NEW k \in Calls, SaveCourse(k)
    PROVE  Written
<1> DEFINE x == call[k]
<1>1. UNCHANGED meetings
  BY DEF SaveCourse
<1>2. CASE UNCHANGED <<courses, moved, apart>>
  BY <1>1, <1>2 DEF Written, Untouched
<1>3. CASE ~UNCHANGED <<courses, moved, apart>>
  <2>1. /\ x.c \in Ids /\ x.arg \in Docs /\ Saveable(x.snap, x.c, x.arg)
        /\ courses' = [courses EXCEPT ![x.c] = x.arg]
        /\ moved' = Moved(x.c, x.arg) /\ apart' = (apart /\ x.snap = courses)
    BY <1>3, SaveCourseDoes
  <2> HIDE DEF x
  <2>2. Saves(x.c, x.arg)
    BY <1>1, <2>1 DEF Saves, Put
  <2> QED
    BY <2>2 DEF Written
<1> QED
  BY <1>2, <1>3

LEMMA SaveEnrollmentWrites ==
    ASSUME Inv, NEW k \in Calls, SaveEnrollment(k)
    PROVE  Written
<1> DEFINE x == call[k]
           e == Enrollment(x.arg, Least(x.todo))
           c == Target(x.first, e)
           doc == Enrolled(x.first, e)
<1>1. UNCHANGED meetings
  BY DEF SaveEnrollment
<1>2. CASE UNCHANGED <<courses, moved, apart>>
  BY <1>1, <1>2 DEF Written, Untouched
<1>3. CASE ~UNCHANGED <<courses, moved, apart>>
  <2>1. /\ x.kind = "siga" /\ x.pc = "save" /\ Saveable(x.snap, c, doc)
        /\ courses' = [courses EXCEPT ![c] = doc]
        /\ moved' = Moved(c, doc)
        /\ apart' => apart
    BY <1>3 DEF SaveEnrollment, At
  <2>2. Knows(x, courses, meetings)
    BY CallIs
  <2>3. x.arg \in Portals /\ x.first \in Maps /\ x.todo # {} /\ x.todo \subseteq Listed(x.arg)
    BY <2>1, <2>2, ToSaveListed DEF Knows, Fit, FitSiga
  <2>4. Least(x.todo) \in Listed(x.arg)
    <3>1. x.todo \in SUBSET Nat
      BY <2>3, EnrollmentOf
    <3>2. Least(x.todo) \in x.todo
      BY <2>3, <3>1, LeastIn
    <3> QED
      BY <2>3, <3>2
  <2>5. e \in Enrollments
    BY <2>3, <2>4, EnrollmentOf
  <2>6. c \in Ids /\ doc \in Docs
    BY <2>3, <2>5, TargetIs
  <2> HIDE DEF x, c, doc
  <2>7. Saves(c, doc)
    BY <1>1, <2>1, <2>6 DEF Saves, Put
  <2> QED
    BY <2>7 DEF Written
<1> QED
  BY <1>2, <1>3

(* A schedule not refused for the courses an invocation read is not refused*)
(* for those stored, if they are the same.                                 *)
LEMMA ScheduleWrites ==
    ASSUME Inv, NEW x, x.c \in Ids, x.own \in Docs, x.mine \in Weeks, NEW asked, Askable(asked),
           ~Invalid(x.own, asked, today), ~Overlaps(x.c, asked, x.snap, x.others), Write(x, asked)
    PROVE  Schedules(x.c, asked)
<1>1. courses \in Maps /\ meetings \in Boards
  BY DEF Inv, TypeOK
<1>2. moved' = moved \ {x.c} /\ (apart' => apart /\ StillAsRead(x))
  BY DEF Write
<1>3. ASSUME StillAsRead(x)
      PROVE  /\ x.c \in There(courses)
             /\ courses' = Put(courses, x.c, Dated(courses[x.c], asked))
             /\ meetings' = [meetings EXCEPT ![x.c] = Week(asked)]
             /\ DOMAIN asked.weekly # {} =>
                   asked.period # None /\ ~Rejects(x.c, asked, courses, meetings)
  <2>1. /\ x.own = courses[x.c] /\ x.mine = meetings[x.c]
        /\ \A d \in Ids \ {x.c} : x.snap[d] = courses[d] /\ x.others[d] = meetings[d]
    BY <1>3 DEF StillAsRead
  <2>2. x.c \in There(courses)
    BY <2>1, NoneAssumption DEF There
  <2>3. /\ courses' \in Maps /\ meetings' \in Boards
        /\ \A d \in Ids : d # x.c => courses'[d] = courses[d] /\ meetings'[d] = meetings[d]
        /\ courses'[x.c] = Dated(courses[x.c], asked) /\ meetings'[x.c] = Week(asked)
    BY <2>1, WriteDoes
  <2>4. courses' = Put(courses, x.c, Dated(courses[x.c], asked))
    BY <1>1, <2>3 DEF Maps, Put
  <2>5. meetings' = [meetings EXCEPT ![x.c] = Week(asked)]
    BY <1>1, <2>3 DEF Boards
  <2>6. There(x.snap) \ {x.c} = There(courses) \ {x.c}
    BY <2>1 DEF There
  <2>7. \A d \in There(courses) \ {x.c} : x.snap[d] = courses[d] /\ x.others[d] = meetings[d]
    BY <2>1 DEF There
  <2>8. Rejects(x.c, asked, courses, meetings) => Rejects(x.c, asked, x.snap, x.others)
    BY <2>6, <2>7 DEF Rejects
  <2>9. DOMAIN asked.weekly # {} => asked.period # None /\ ~Rejects(x.c, asked, x.snap, x.others)
    BY DEF Invalid, Overlaps
  <2> QED
    BY <2>2, <2>4, <2>5, <2>8, <2>9
<1> QED
  BY <1>2, <1>3 DEF Schedules

LEMMA CommitScheduleWrites ==
    ASSUME Inv, NEW k \in Calls, CommitSchedule(k)
    PROVE  Written
<1> DEFINE x == call[k]
<1>1. CASE UNCHANGED <<courses, meetings, moved, apart>>
  BY <1>1 DEF Written, Untouched
<1>2. CASE ~UNCHANGED <<courses, meetings, moved, apart>>
  <2>1. /\ x.c \in Ids /\ x.own \in Docs /\ x.mine \in Weeks /\ Askable(x.arg)
        /\ ~Invalid(x.own, x.arg, today) /\ ~Overlaps(x.c, x.arg, x.snap, x.others)
        /\ Write(x, x.arg)
    BY <1>2, CommitScheduleDoes
  <2> HIDE DEF x
  <2>2. Schedules(x.c, x.arg)
    BY <2>1, ScheduleWrites
  <2> QED
    BY <2>2 DEF Written
<1> QED
  BY <1>1, <1>2

LEMMA CommitImportWrites ==
    ASSUME Inv, NEW k \in Calls, NEW destructive \in BOOLEAN, CommitImport(k, destructive)
    PROVE  Written
<1> DEFINE x == call[k]
           e == Enrollment(x.arg, Least(x.todo))
           asked == Wants(x, e)
<1>1. CASE UNCHANGED <<courses, meetings, moved, apart>>
  BY <1>1 DEF Written, Untouched
<1>2. CASE ~UNCHANGED <<courses, meetings, moved, apart>>
  <2>1. /\ ~Invalid(x.own, asked, today) /\ ~Overlaps(x.c, asked, x.snap, x.others)
        /\ Write(x, asked)
    BY <1>2, CommitImportDoes
  <2>2. x.kind = "siga" /\ x.pc = "commit"
    BY DEF CommitImport, At
  <2>3. x.c \in Ids /\ x.snap[x.c] \in Docs /\ e \in Enrollments
    BY <2>2, HandIs DEF Hand
  <2>4. x.own \in Docs /\ x.mine \in Weeks
    BY <2>2, CallIs DEF Knows, Fit, FitSiga
  <2> HIDE DEF x, e
  <2>5. Askable(asked)
    BY <2>3, WantsIs
  <2> HIDE DEF asked
  <2>6. Schedules(x.c, asked)
    BY <2>1, <2>3, <2>4, <2>5, ScheduleWrites
  <2> QED
    BY <2>6 DEF Written
<1> QED
  BY <1>1, <1>2

LEMMA StepWrites ==
    ASSUME Inv, [Next]_vars
    PROVE  Written
<1>1. CASE UNCHANGED vars
  BY <1>1 DEF vars, Written, Untouched
<1>2. CASE NextDay
  BY <1>2 DEF NextDay, Written, Untouched
<1>3. ASSUME NEW k \in Calls, Call(k) PROVE Written
  <2>1. CASE SaveCourse(k)
    BY <2>1, SaveCourseWrites
  <2>2. CASE SaveEnrollment(k)
    BY <2>2, SaveEnrollmentWrites
  <2>3. CASE CommitSchedule(k)
    BY <2>3, CommitScheduleWrites
  <2>4. CASE \E destructive \in BOOLEAN : CommitImport(k, destructive)
    BY <2>4, CommitImportWrites
  <2>5. CASE ListAgain(k) \/ ListMeetings(k) \/ GetCourse(k) \/ ListMine(k) \/ ListCourses(k)
    <3>1. Untouched
      BY <2>5 DEF ListAgain, ListMeetings, GetCourse, ListMine, ListCourses, Untouched
    <3> QED
      BY <3>1 DEF Written
  <2>6. CASE EndSiga(k) \/ Kill(k)
    <3>1. Untouched
      BY <2>6 DEF EndSiga, Kill, Untouched
    <3> QED
      BY <3>1 DEF Written
  <2>7. CASE \E portal \in Portals : BeginSiga(k, portal)
    <3>1. Untouched
      BY <2>7 DEF BeginSiga, Untouched
    <3> QED
      BY <3>1 DEF Written
  <2>8. CASE \/ \E p \in Entered : BeginCourse(k, p.id, p.doc)
             \/ \E p \in Asks : BeginSchedule(k, p.id, p.asked)
    <3>1. Untouched
      BY <2>8 DEF BeginCourse, BeginSchedule, Untouched
    <3> QED
      BY <3>1 DEF Written
  <2> QED
    BY <1>3, <2>1, <2>2, <2>3, <2>4, <2>5, <2>6, <2>7, <2>8 DEF Call
<1> QED
  BY <1>1, <1>2, <1>3 DEF Next

-----------------------------------------------------------------------------
LEMMA ClearSymmetric ==
    ASSUME NEW s, NEW w, NEW c, NEW d, Clear(s, w, c, d)
    PROVE  Clear(s, w, d, c)
BY DEF Clear, Apart, Overlap

(* Courses that keep their days and their classes stay clear.              *)
LEMMA ClearStays ==
    ASSUME NEW s, NEW w, NEW t, NEW v, NEW c, NEW d, Clear(s, w, c, d),
           Days(t[c]) = Days(s[c]), Days(t[d]) = Days(s[d]), v[c] = w[c], v[d] = w[d]
    PROVE  Clear(t, v, c, d)
<1>1. /\ t[c].term = s[c].term /\ t[c].period = s[c].period /\ t[c].online = s[c].online
      /\ t[d].term = s[d].term /\ t[d].period = s[d].period /\ t[d].online = s[d].online
  BY DEF Days
<1>2. EffectivePeriod(t[c]) = EffectivePeriod(s[c]) /\ EffectivePeriod(t[d]) = EffectivePeriod(s[d])
  BY <1>1 DEF EffectivePeriod
<1> QED
  BY <1>1, <1>2 DEF Clear

LEMMA SavesOrderly ==
    ASSUME Inv, NoClash, NEW c, NEW doc, Saves(c, doc)
    PROVE  NoClash'
<1> SUFFICES ASSUME apart' PROVE \A a, b \in There(courses') \ moved' : a # b => Clear(courses', meetings', a, b)
  BY DEF NoClash
<1>1. courses \in Maps /\ c \in Ids /\ doc \in Docs
  BY DEF Inv, TypeOK, Saves
<1>2. /\ apart /\ moved' = Moved(c, doc)
      /\ courses' = Put(courses, c, doc) /\ meetings' = meetings
  BY DEF Saves
<1>3. /\ There(Put(courses, c, doc)) = There(courses) \union {c}
      /\ \A d \in Ids : Put(courses, c, doc)[d] = IF d = c THEN doc ELSE courses[d]
  BY <1>1, CourseWith
<1>4. /\ There(courses') = There(courses) \union {c} /\ There(courses) \in SUBSET Ids
      /\ \A d \in Ids : courses'[d] = IF d = c THEN doc ELSE courses[d]
  BY <1>2, <1>3 DEF There
<1>5. \A a, b \in There(courses) \ moved : a # b => Clear(courses, meetings, a, b)
  BY <1>2 DEF NoClash
<1>7. ASSUME NEW a \in There(courses') \ moved', NEW b \in There(courses') \ moved', a # b
      PROVE  Clear(courses', meetings', a, b)
  <2>1. \A d \in {a, b} : d \in There(courses) \ moved /\ Days(courses'[d]) = Days(courses[d])
    <3>1. CASE courses[c] = None \/ Days(courses[c]) # Days(doc)
      <4>1. moved' = moved \union {c}
        BY <1>2, <3>1 DEF Moved
      <4> QED
        BY <1>4, <1>7, <4>1
    <3>2. CASE courses[c] # None /\ Days(courses[c]) = Days(doc)
      <4>1. moved' = moved /\ c \in There(courses)
        BY <1>1, <1>2, <3>2 DEF Moved, There
      <4> QED
        BY <1>4, <1>7, <3>2, <4>1
    <3> QED
      BY <3>1, <3>2
  <2>2. Clear(courses, meetings, a, b)
    BY <1>5, <1>7, <2>1
  <2> QED
    BY <1>2, <2>1, <2>2, ClearStays
<1> QED
  BY <1>7

(* The course of a schedule that was not refused is clear of any other.    *)
LEMMA ScheduledClear ==
    ASSUME Inv, NEW c \in Ids, NEW asked, Schedules(c, asked), apart',
           NEW d \in There(courses'), d # c
    PROVE  Clear(courses', meetings', c, d)
<1>1. courses \in Maps /\ meetings \in Boards
  BY DEF Inv, TypeOK
<1>2. /\ Askable(asked) /\ c \in There(courses)
      /\ courses' = Put(courses, c, Dated(courses[c], asked))
      /\ meetings' = [meetings EXCEPT ![c] = Week(asked)]
      /\ DOMAIN asked.weekly # {} =>
            asked.period # None /\ ~Rejects(c, asked, courses, meetings)
  BY DEF Schedules
<1>3. Dated(courses[c], asked) \in Docs /\ Dated(courses[c], asked).period = asked.period
  BY <1>1, <1>2, ThereIs, DatedIs
<1>4. /\ courses'[c] = Dated(courses[c], asked) /\ meetings'[c] = Week(asked) /\ d \in Ids
      /\ courses'[d] = courses[d] /\ meetings'[d] = meetings[d] /\ d \in There(courses)
  BY <1>1, <1>2 DEF Put, Maps, Boards, There
<1>5. /\ Of(Week(asked)) = DOMAIN asked.weekly
      /\ \A n \in DOMAIN asked.weekly : Week(asked)[n] = asked.weekly[n]
  BY <1>2, WeekIs
<1>6. CASE DOMAIN asked.weekly = {}
  BY <1>4, <1>5, <1>6 DEF Clear
<1>7. CASE DOMAIN asked.weekly # {}
  <2>1. EffectivePeriod(courses'[c]) = asked.period
    BY <1>2, <1>3, <1>4, <1>7 DEF EffectivePeriod
  <2>2. ~(/\ ~courses[d].online
          /\ ~Apart(asked.period, EffectivePeriod(courses[d]))
          /\ \E n \in DOMAIN asked.weekly, m \in Of(meetings[d]) :
                Overlap(asked.weekly[n], meetings[d][m]))
    BY <1>2, <1>4, <1>7 DEF Rejects
  <2> QED
    BY <1>4, <1>5, <2>1, <2>2 DEF Clear
<1> QED
  BY <1>6, <1>7

LEMMA SchedulesOrderly ==
    ASSUME Inv, NoClash, NEW c, NEW asked, Schedules(c, asked)
    PROVE  NoClash'
<1> SUFFICES ASSUME apart' PROVE \A a, b \in There(courses') \ moved' : a # b => Clear(courses', meetings', a, b)
  BY DEF NoClash
<1>1. courses \in Maps /\ meetings \in Boards
  BY DEF Inv, TypeOK
<1>2. /\ Askable(asked) /\ moved' = moved \ {c} /\ apart /\ c \in There(courses) /\ c \in Ids
      /\ courses' = Put(courses, c, Dated(courses[c], asked))
      /\ meetings' = [meetings EXCEPT ![c] = Week(asked)]
  BY DEF Schedules, There
<1>3. Dated(courses[c], asked) \in Docs /\ Dated(courses[c], asked).code = courses[c].code
  BY <1>1, <1>2, ThereIs, DatedIs
<1>4. /\ There(Put(courses, c, Dated(courses[c], asked))) = There(courses) \union {c}
      /\ \A d \in Ids : Put(courses, c, Dated(courses[c], asked))[d] =
                           IF d = c THEN Dated(courses[c], asked) ELSE courses[d]
  BY <1>1, <1>2, <1>3, CourseWith
<1>5. /\ There(courses') = There(courses) /\ There(courses) \in SUBSET Ids
      /\ \A d \in Ids : courses'[d] = IF d = c THEN Dated(courses[c], asked) ELSE courses[d]
      /\ \A d \in Ids : d # c => meetings'[d] = meetings[d]
  BY <1>1, <1>2, <1>4 DEF There, Boards
<1>6. \A a, b \in There(courses) \ moved : a # b => Clear(courses, meetings, a, b)
  BY <1>2 DEF NoClash
<1>8. ASSUME NEW a \in There(courses') \ moved', NEW b \in There(courses') \ moved', a # b
      PROVE  Clear(courses', meetings', a, b)
  <2>1. CASE a = c
    BY <1>2, <1>8, <2>1, ScheduledClear
  <2>2. CASE b = c
    BY <1>2, <1>8, <2>2, ScheduledClear, ClearSymmetric
  <2>3. CASE a # c /\ b # c
    <3>1. Clear(courses, meetings, a, b)
      BY <1>2, <1>5, <1>6, <1>8, <2>3
    <3>2. courses'[a] = courses[a] /\ courses'[b] = courses[b]
      BY <1>5, <1>8, <2>3
    <3> QED
      BY <1>5, <1>8, <2>3, <3>1, <3>2, ClearStays
  <2> QED
    BY <2>1, <2>2, <2>3
<1> QED
  BY <1>8

(* Classes are clear at first, and stay so step by step.                   *)
LEMMA InitOrderly ==
    ASSUME Init
    PROVE  NoClash
<1>1. PICK w \in Worlds : courses = w.courses /\ meetings = w.meetings
  BY DEF Init
<1> QED
  BY <1>1, WorldsAssumption DEF NoClash

LEMMA StepOrderly ==
    ASSUME Inv, NoClash, [Next]_vars
    PROVE  NoClash'
<1>1. CASE Untouched
  BY <1>1 DEF Untouched, NoClash
<1> QED
  BY <1>1, StepWrites, SavesOrderly, SchedulesOrderly DEF Written

(* schedule_service.py build_schedule_plan: two classes of in-person        *)
(* courses with the dates of their schedules are at one hour only if a     *)
(* write was decided from what was no longer stored.                       *)
THEOREM ClassesApart == Spec => []NoClash
<1>1. Init => NoClash
  BY InitOrderly
<1>2. Inv /\ NoClash /\ [Next]_vars => NoClash'
  BY StepOrderly
<1> QED
  BY <1>1, <1>2, SpecInv, PTL DEF Spec

-----------------------------------------------------------------------------
(* A step of one call leaves the others where they are.                    *)
LEMMA OthersStay ==
    ASSUME Inv, NEW k \in Calls, NEW j \in Calls, j # k, Call(j)
    PROVE  call'[k].pc = call[k].pc
<1>1. call \in [Calls -> Works] /\ call[k] \in Works
  BY DEF Inv, TypeOK
<1>2. PICK y : Turn(j, y)
  BY CallTurns
<1>3. CASE Become(j, y)
  BY <1>1, <1>3 DEF Become
<1>4. ASSUME NEW c \in Ids, Wrote(j, c, y) PROVE call'[k].pc = call[k].pc
  <2>1. \/ call'[k] = call[k]
        \/ call'[k] = [call[k] EXCEPT !.alone = FALSE, !.recoded = @ \union Recoded(c)]
    BY <1>1, <1>4 DEF Wrote
  <2> QED
    BY <1>1, <2>1 DEF Works
<1> QED
  BY <1>2, <1>3, <1>4 DEF Turn

(* What an import's step at its commit may be: that, or its end.           *)
LEMMA AtCommit ==
    ASSUME Inv, NEW k \in Calls, call[k].kind = "siga", call[k].pc = "commit", [Next]_vars,
           call'[k].pc # "commit"
    PROVE  Kill(k) \/ \E destructive \in BOOLEAN : CommitImport(k, destructive)
<1>1. call \in [Calls -> Works] /\ call[k] # Idle
  BY DEF Inv, TypeOK, Idle
<1>2. CASE NextDay \/ UNCHANGED vars
  BY <1>2 DEF NextDay, vars
<1>3. ASSUME NEW j \in Calls, Call(j), j # k PROVE FALSE
  BY <1>3, OthersStay
<1>4. CASE Call(k)
  <2>1. ~(SaveCourse(k) \/ SaveEnrollment(k) \/ ListAgain(k))
    BY DEF SaveCourse, SaveEnrollment, ListAgain, At
  <2>2. ~(ListMeetings(k) \/ GetCourse(k) \/ ListMine(k) \/ EndSiga(k))
    BY DEF ListMeetings, GetCourse, ListMine, EndSiga, At
  <2>3. ~(ListCourses(k) \/ CommitSchedule(k))
    BY DEF ListCourses, CommitSchedule, At
  <2>4. \A portal : ~BeginSiga(k, portal)
    BY <1>1 DEF BeginSiga, Starts
  <2>5. \A c, doc : ~BeginCourse(k, c, doc) /\ ~BeginSchedule(k, c, doc)
    BY <1>1 DEF BeginCourse, BeginSchedule, Starts
  <2> QED
    BY <1>4, <2>1, <2>2, <2>3, <2>4, <2>5 DEF Call
<1> QED
  BY <1>2, <1>3, <1>4 DEF Next

-----------------------------------------------------------------------------
(* Two courses get one code only if one of them is in R. *)
Raced(R) ==
    \A c, d \in There(courses) \union There(courses') :
        /\ c # d /\ CodeOf(courses', c) = CodeOf(courses', d)
        /\ CodeOf(courses, c) # CodeOf(courses, d)
        => {c, d} \intersect R # {}

(* A course saved under a code that no course of the list s has, but for   *)
(* those coded since it was made.                                          *)
LEMMA SavedRaced ==
    ASSUME Inv, NEW b \in Ids, NEW doc \in Docs, NEW s, NEW R, ~Duplicate(s, b, doc.code),
           \A d \in Ids \ R : CodeOf(courses, d) = CodeOf(s, d),
           courses' = [courses EXCEPT ![b] = doc]
    PROVE  Raced(R)
<1>1. courses \in Maps /\ doc.code \in Codes /\ doc # None /\ doc.code # None
  BY NoneAssumption DEF Inv, TypeOK, Docs
<1>2. \A d \in Ids : courses'[d] = IF d = b THEN doc ELSE courses[d]
  BY <1>1 DEF Maps
<1>3. There(courses) \union There(courses') \in SUBSET Ids
  BY DEF There
<1>4. ASSUME NEW d \in Ids \ R, d # b, CodeOf(courses, d) = doc.code PROVE FALSE
  <2>1. CodeOf(s, d) = doc.code
    BY <1>4
  <2>2. d \in There(s) /\ s[d].code = doc.code
    BY <1>1, <2>1 DEF CodeOf, There
  <2> QED
    BY <1>4, <2>2 DEF Duplicate
<1>5. /\ CodeOf(courses', b) = doc.code
      /\ \A d \in Ids : d # b => CodeOf(courses', d) = CodeOf(courses, d)
  BY <1>1, <1>2 DEF CodeOf
<1> QED
  BY <1>3, <1>4, <1>5 DEF Raced

(* A schedule's commit writes back the code its call read.                 *)
LEMMA CommittedRaced ==
    ASSUME Inv, NEW x, Coding(x, courses), x.pc = "commit", x.c \in Ids, x.own \in Docs,
           x.mine \in Weeks, NEW asked, Askable(asked), Write(x, asked)
    PROVE  Raced(x.recoded)
<1>1. /\ \A d \in Ids : d # x.c => courses'[d] = courses[d]
      /\ courses'[x.c] \in {courses[x.c], Dated(x.own, asked)}
  BY WriteDoes
<1>2. x.c \in x.recoded \/ CodeOf(courses, x.c) = x.own.code
  BY DEF Coding
<1>3. Dated(x.own, asked) # None /\ Dated(x.own, asked).code = x.own.code
  BY DatedIs, NoneAssumption
<1>4. There(courses) \union There(courses') \in SUBSET Ids
  BY DEF There
<1>5. \A d \in Ids \ x.recoded : CodeOf(courses', d) = CodeOf(courses, d)
  BY <1>1, <1>2, <1>3 DEF CodeOf
<1>6. \A d \in Ids : d # x.c => CodeOf(courses', d) = CodeOf(courses, d)
  BY <1>1 DEF CodeOf
<1> QED
  BY <1>4, <1>5, <1>6 DEF Raced

LEMMA QuietRaced ==
    ASSUME UNCHANGED courses, NEW R
    PROVE  Raced(R)
BY DEF Raced

LEMMA SaveCourseRaced ==
    ASSUME Inv, NEW k \in Calls, SaveCourse(k)
    PROVE  Raced(call[k].recoded)
<1> DEFINE x == call[k]
<1>1. CASE UNCHANGED courses
  BY <1>1, QuietRaced
<1>2. CASE ~UNCHANGED courses
  <2>1. /\ x.c \in Ids /\ x.arg \in Docs /\ ~Duplicate(x.snap, x.c, x.arg.code)
        /\ courses' = [courses EXCEPT ![x.c] = x.arg]
    BY <1>2, SaveCourseDoes DEF Saveable
  <2>2. \A d \in Ids \ x.recoded : CodeOf(courses, d) = CodeOf(x.snap, d)
    <3>1. x.pc = "save" /\ Coding(x, courses)
      BY CallIs DEF SaveCourse, At, Knows
    <3> QED
      BY <3>1 DEF Coding
  <2> HIDE DEF x
  <2>3. Raced(x.recoded)
    BY <2>1, <2>2, SavedRaced
  <2> QED
    BY <2>3 DEF x
<1> QED
  BY <1>1, <1>2

LEMMA SaveEnrollmentRaced ==
    ASSUME Inv, NEW k \in Calls, SaveEnrollment(k)
    PROVE  Raced(call[k].recoded)
<1> DEFINE x == call[k]
<1>1. CASE UNCHANGED courses
  BY <1>1, QuietRaced
<1>2. CASE ~UNCHANGED courses
  <2>1. PICK e \in x.arg :
           LET c == Target(x.first, e)
               doc == Enrolled(x.first, e) IN
           /\ x.pc = "save" /\ c \in Ids /\ doc \in Docs /\ Saveable(x.snap, c, doc)
           /\ courses' = [courses EXCEPT ![c] = doc]
    BY <1>2, SaveEnrollmentDoes
  <2> DEFINE c == Target(x.first, e)
             doc == Enrolled(x.first, e)
  <2>2. /\ x.pc = "save" /\ c \in Ids /\ doc \in Docs /\ Saveable(x.snap, c, doc)
        /\ courses' = [courses EXCEPT ![c] = doc]
    BY <2>1
  <2>3. Coding(x, courses)
    BY CallIs DEF Knows
  <2> HIDE DEF x, c, doc
  <2>4. \A d \in Ids \ x.recoded : CodeOf(courses, d) = CodeOf(x.snap, d)
    BY <2>2, <2>3 DEF Coding
  <2>5. ~Duplicate(x.snap, c, doc.code)
    BY <2>2 DEF Saveable
  <2>6. Raced(x.recoded)
    BY <2>2, <2>4, <2>5, SavedRaced
  <2> QED
    BY <2>6 DEF x
<1> QED
  BY <1>1, <1>2

LEMMA CommitScheduleRaced ==
    ASSUME Inv, NEW k \in Calls, CommitSchedule(k)
    PROVE  Raced(call[k].recoded)
<1> DEFINE x == call[k]
<1>1. CASE UNCHANGED courses
  BY <1>1, QuietRaced
<1>2. CASE ~UNCHANGED courses
  <2>1. /\ x.c \in Ids /\ x.own \in Docs /\ x.mine \in Weeks /\ Askable(x.arg)
        /\ Write(x, x.arg)
    BY <1>2, CommitScheduleDoes
  <2>2. x.pc = "commit" /\ Coding(x, courses)
    BY CallIs DEF CommitSchedule, At, Knows
  <2> HIDE DEF x
  <2>3. Raced(x.recoded)
    BY <2>1, <2>2, CommittedRaced
  <2> QED
    BY <2>3 DEF x
<1> QED
  BY <1>1, <1>2

LEMMA CommitImportRaced ==
    ASSUME Inv, NEW k \in Calls, NEW destructive \in BOOLEAN, CommitImport(k, destructive)
    PROVE  Raced(call[k].recoded)
<1> DEFINE x == call[k]
           e == Enrollment(x.arg, Least(x.todo))
           asked == Wants(x, e)
<1>1. CASE UNCHANGED courses
  BY <1>1, QuietRaced
<1>2. CASE ~UNCHANGED courses
  <2>1. Write(x, asked)
    BY <1>2, CommitImportDoes
  <2>2. x.kind = "siga" /\ x.pc = "commit" /\ Coding(x, courses)
    BY CallIs DEF CommitImport, At, Knows
  <2>3. x.c \in Ids /\ x.snap[x.c] \in Docs /\ e \in Enrollments
    BY <2>2, HandIs DEF Hand
  <2>4. x.own \in Docs /\ x.mine \in Weeks
    BY <2>2, CallIs DEF Knows, Fit, FitSiga
  <2> HIDE DEF x, e
  <2>5. Askable(asked)
    BY <2>3, WantsIs
  <2> HIDE DEF asked
  <2>6. Raced(x.recoded)
    BY <2>1, <2>2, <2>3, <2>4, <2>5, CommittedRaced
  <2> QED
    BY <2>6 DEF x
<1> QED
  BY <1>1, <1>2

LEMMA CallRaced ==
    ASSUME Inv, NEW k \in Calls, Call(k)
    PROVE  Raced(call[k].recoded)
<1>1. CASE SaveCourse(k) \/ SaveEnrollment(k)
  BY <1>1, SaveCourseRaced, SaveEnrollmentRaced
<1>2. CASE CommitSchedule(k)
  BY <1>2, CommitScheduleRaced
<1>3. CASE \E destructive \in BOOLEAN : CommitImport(k, destructive)
  BY <1>3, CommitImportRaced
<1>4. CASE ListAgain(k) \/ ListMeetings(k) \/ GetCourse(k) \/ ListMine(k) \/ ListCourses(k)
  <2>1. UNCHANGED courses
    BY <1>4 DEF ListAgain, ListMeetings, GetCourse, ListMine, ListCourses
  <2> QED
    BY <2>1, QuietRaced
<1>5. CASE EndSiga(k) \/ Kill(k) \/ \E portal \in Portals : BeginSiga(k, portal)
  <2>1. UNCHANGED courses
    BY <1>5 DEF EndSiga, Kill, BeginSiga
  <2> QED
    BY <2>1, QuietRaced
<1>6. CASE \/ \E p \in Entered : BeginCourse(k, p.id, p.doc)
           \/ \E p \in Asks : BeginSchedule(k, p.id, p.asked)
  <2>1. UNCHANGED courses
    BY <1>6 DEF BeginCourse, BeginSchedule
  <2> QED
    BY <2>1, QuietRaced
<1> QED
  BY <1>1, <1>2, <1>3, <1>4, <1>5, <1>6 DEF Call

RacedCodes == \A k \in Calls : call'[k].pc # call[k].pc => Raced(call[k].recoded)

LEMMA StepRaced ==
    ASSUME Inv, [Next]_vars
    PROVE  RacedCodes
<1> SUFFICES ASSUME NEW k \in Calls, call'[k].pc # call[k].pc
             PROVE  Raced(call[k].recoded)
  BY DEF RacedCodes
<1>1. CASE NextDay \/ UNCHANGED vars
  BY <1>1 DEF NextDay, vars
<1>2. ASSUME NEW j \in Calls, Call(j) PROVE Raced(call[k].recoded)
  <2>1. j = k
    BY <1>2, OthersStay
  <2> QED
    BY <1>2, <2>1, CallRaced
<1> QED
  BY <1>1, <1>2 DEF Next

(* course_repository.py save_course and schedule_repository.py save: a call *)
(* gives a course the code of another one only if one of the two got its   *)
(* code from another call after this one had read it.                      *)
THEOREM SharedCodesRaced == Spec => SharedCodeHasRace
<1>1. Inv /\ [Next]_vars => RacedCodes
  BY StepRaced
<1>2. Spec => [][RacedCodes]_vars
  BY <1>1, SpecInv, PTL DEF Spec
<1> QED
  BY <1>2 DEF SharedCodeHasRace, RacedCodes, Raced

KeepsManual ==
    \A k \in Calls : At(k, "siga", "commit") /\ call'[k].pc # "commit" =>
         LET x == call[k] old == meetings[x.c] period == courses[x.c].period IN
         /\ \A n \in Of(old) :
               old[n] # n /\ meetings'[x.c][n] # old[n] => x.others[x.c][n] # old[n]
         /\ (period \notin {None, TermDates(courses[x.c].term)} /\ courses'[x.c].period # period)
               => x.snap[x.c].period # period \/ x.snap[x.c].term # courses[x.c].term

LEMMA StepKeepsManual ==
    ASSUME Inv, [Next]_vars
    PROVE  KeepsManual
<1> SUFFICES ASSUME NEW k \in Calls, At(k, "siga", "commit"), call'[k].pc # "commit"
             PROVE  LET x == call[k] old == meetings[x.c] period == courses[x.c].period IN
                    /\ \A n \in Of(old) : old[n] # n => x.others[x.c][n] # old[n]
                    /\ (period \notin {None, TermDates(courses[x.c].term)} /\ courses'[x.c].period # period)
                          => x.snap[x.c].period # period \/ x.snap[x.c].term # courses[x.c].term
  BY DEF KeepsManual
<1> DEFINE x == call[k]
           e == Enrollment(x.arg, Least(x.todo))
           asked == Wants(x, e)
           period == courses[x.c].period
<1>1. x.kind = "siga" /\ x.pc = "commit"
  BY DEF At
<1>2. /\ x.c \in Ids /\ x.snap[x.c] \in Docs /\ e \in Enrollments
      /\ Handles(x) /\ Least(x.todo) \in x.todo
  BY <1>1, HandIs DEF Hand
<1>3. Manual(x.others[x.c]) = {}
  BY <1>2 DEF Handles
<1>4. \A n \in Of(meetings[x.c]) : meetings[x.c][n] # n => x.others[x.c][n] # meetings[x.c][n]
  BY <1>3 DEF Manual, Of, IsImported
<1>5. ASSUME period \notin {None, TermDates(courses[x.c].term)}, x.snap[x.c].period = period,
             x.snap[x.c].term = courses[x.c].term
      PROVE  courses'[x.c].period = period
  <2>1. CASE UNCHANGED courses
    BY <2>1
  <2>2. CASE ~UNCHANGED courses
    <3>1. PICK destructive \in BOOLEAN : CommitImport(k, destructive)
      BY <1>1, <2>2, AtCommit DEF Kill
    <3>2. Write(x, asked)
      BY <2>2, <3>1, CommitImportDoes
    <3>3. x.own \in Docs /\ x.mine \in Weeks
      BY <1>1, CallIs DEF Knows, Fit, FitSiga
    <3>4. Dates(x.snap[x.c], e) = period
      BY <1>5 DEF Dates
    <3> HIDE DEF x, e
    <3>5. asked.period = period /\ Askable(asked)
      BY <1>2, <3>4, WantsIs
    <3> HIDE DEF asked
    <3>6. courses'[x.c] \in {courses[x.c], Dated(x.own, asked)}
      BY <1>2, <3>2, <3>3, <3>5, WriteDoes
    <3>7. Dated(x.own, asked).period = period
      BY <3>3, <3>5, DatedIs
    <3> QED
      BY <3>6, <3>7
  <2> QED
    BY <2>1, <2>2
<1> QED
  BY <1>4, <1>5

(* ufmg_schedule_import.py _reconcile: an import changes neither a meeting *)
(* the user made nor dates the user chose, unless they were stored after   *)
(* it listed the courses' meetings.                                        *)
THEOREM ManualKept == Spec => ImportKeepsManual
<1>1. Inv /\ [Next]_vars => KeepsManual
  BY StepKeepsManual
<1>2. Spec => [][KeepsManual]_vars
  BY <1>1, SpecInv, PTL DEF Spec
<1> QED
  BY <1>2 DEF ImportKeepsManual, KeepsManual

Settled ==
    \A k \in Calls : At(k, "siga", "done") /\ call'[k] = Idle =>
         LET x == call[k] IN
         x.alone =>
            /\ ToSave(courses, x.arg) = {}
            /\ \A e \in x.arg : e.code \in ToReconcile(courses, meetings, x.arg) =>
                  LastOf(Matching(courses, e)) \in x.refused

LEMMA InvSettled ==
    ASSUME Inv
    PROVE  Settled
<1> SUFFICES ASSUME NEW k \in Calls, At(k, "siga", "done"), call[k].alone
             PROVE  /\ ToSave(courses, call[k].arg) = {}
                    /\ \A e \in call[k].arg :
                          e.code \in ToReconcile(courses, meetings, call[k].arg) =>
                             LastOf(Matching(courses, e)) \in call[k].refused
  BY DEF Settled
<1>1. call[k].kind = "siga" /\ call[k].pc = "done" /\ Settling(call[k], courses, meetings)
  BY CallIs DEF At, Knows
<1>2. ToSave(courses, call[k].arg) = {} /\ Left(call[k], courses, meetings, {})
  BY <1>1 DEF Settling, Hand
<1> QED
  BY <1>2 DEF Left

(* ufmg_sync.py sync_siga: after an import nobody else wrote beside,       *)
(* another one of the same enrollments would change only the schedules     *)
(* this one was refused.                                                   *)
THEOREM ImportsSettle == Spec => ImportSettles
<1>1. Inv => Settled
  BY InvSettled
<1>2. Spec => [][Settled]_vars
  BY <1>1, SpecInv, PTL DEF Spec
<1> QED
  BY <1>2 DEF ImportSettles, Settled

=============================================================================

----------------------- MODULE CourseDocuments_proofs -----------------------
(***************************************************************************)
(* Proofs about CourseDocuments.  A call knows a document as it was listed *)
(* unless the document was written since (Watched), a deletion has every   *)
(* document of the collections it listed (Counted), and a discovery that   *)
(* met no other leaves each course's catalog behind as announced (Solo).   *)
(***************************************************************************)
EXTENDS CourseDocuments, TLAPS, FiniteSetTheorems, WellFoundedInduction

Fields == {"kind", "pc", "c", "listed", "unseen", "arg", "got", "now"}
Dated == [Ids -> DateDoc \union {None}]
Roll == [Courses -> Terms \union {None}]
Catalogs == CatalogDoc \union {None}

-----------------------------------------------------------------------------
(* The first of some numbers is one of them.                               *)

Upto(S, c) == {x \in S : x <= c}

LEMMA SmallestSet ==
    ASSUME NEW T, T # {}, \A U \in T : IsFiniteSet(U)
    PROVE  \E U \in T : \A V \in T : V \subseteq U => V = U
<1> DEFINE S == UNION T
           R == StrictSubsetOrdering(S)
           F == FiniteSubsetsOf(S)
<1>1. IsWellFoundedOn(R, F)
  BY FS_StrictSubsetOrderingWellFounded
<1>2. T \subseteq F
  BY DEF FiniteSubsetsOf
<1>3. \A U, V \in T : V \subseteq U /\ V # U => <<V, U>> \in R
  BY DEF StrictSubsetOrdering
<1> HIDE DEF R, F
<1>4. \E U \in T : \A V \in T : ~(<<V, U>> \in R)
  BY <1>1, <1>2, WFMin
<1> QED
  BY <1>3, <1>4

LEMMA FirstExists ==
    ASSUME NEW S \in SUBSET Nat, S # {}
    PROVE  \E c \in S : \A d \in S : c <= d
<1> DEFINE T == {Upto(S, c) : c \in S}
<1>1. \A c \in S : IsFiniteSet(Upto(S, c))
  <2> SUFFICES ASSUME NEW c \in S PROVE IsFiniteSet(Upto(S, c))
    OBVIOUS
  <2>1. Upto(S, c) \in SUBSET Nat /\ c \in Nat /\ \A s \in Upto(S, c) : s <= c
    BY DEF Upto
  <2> QED
    BY <2>1, FS_BoundedSetOfNaturals
<1>2. \E U \in T : \A V \in T : V \subseteq U => V = U
  <2>1. T # {} /\ \A U \in T : IsFiniteSet(U)
    BY <1>1
  <2> HIDE DEF T
  <2> QED
    BY <2>1, SmallestSet
<1>3. PICK c \in S : \A d \in S : Upto(S, d) \subseteq Upto(S, c) => Upto(S, d) = Upto(S, c)
  <2>1. PICK U \in T : \A V \in T : V \subseteq U => V = U
    BY <1>2
  <2>2. PICK c \in S : U = Upto(S, c)
    BY <2>1
  <2>3. \A d \in S : Upto(S, d) \in T
    OBVIOUS
  <2> QED
    BY <2>1, <2>2, <2>3
<1>4. ASSUME NEW d \in S, ~(c <= d) PROVE FALSE
  <2>1. c \in Nat /\ d \in Nat
    OBVIOUS
  <2>2. d < c
    BY <1>4, <2>1
  <2>3. \A x \in S : x <= d => x <= c
    BY <2>1, <2>2
  <2>4. Upto(S, d) \subseteq Upto(S, c)
    BY <2>3 DEF Upto
  <2>5. c <= c /\ ~(c <= d)
    BY <1>4, <2>1
  <2>6. c \in Upto(S, c) /\ c \notin Upto(S, d)
    BY <2>5 DEF Upto
  <2> QED
    BY <1>3, <2>4, <2>6
<1> QED
  BY <1>4

LEMMA FirstIn ==
    ASSUME NEW S \in SUBSET Nat, S # {}
    PROVE  First(S) \in S
BY FirstExists DEF First

LEMMA FirstCourse ==
    ASSUME NEW S \in SUBSET Courses, S # {}
    PROVE  First(S) \in S
<1>1. Courses \subseteq Nat
  BY CoursesAssumption DEF Courses
<1>2. S \in SUBSET Nat
  BY <1>1
<1> QED
  BY <1>2, FirstIn

LEMMA FirstListing ==
    ASSUME NEW S \in SUBSET ToList, S # {}
    PROVE  First(S) \in S
<1>1. DOMAIN Collections = 1..7
  BY DEF Collections
<1>2. ToList \subseteq Nat
  BY <1>1 DEF ToList
<1>3. S \in SUBSET Nat
  BY <1>2
<1> QED
  BY <1>3, FirstIn

(* Every collection there is below a course is among those to be listed.   *)
LEMMA Listable ==
    ASSUME NEW n \in Other \union {"academicDates", "materialCatalog"}
    PROVE  \E m \in ToList : Collections[m] = n
<1>1. DOMAIN Collections = 1..7
  BY DEF Collections
<1>2. \E m \in 1..7 : Collections[m] = n
  <2>1. /\ Collections[1] = "meetings" /\ Collections[2] = "sessions"
        /\ Collections[3] = "academicDates" /\ Collections[4] = "materialCatalog"
        /\ Collections[5] = "teachingPlans" /\ Collections[6] = "activitySnapshots"
        /\ Collections[7] = "syncState"
    BY DEF Collections
  <2>2. n \in {"meetings", "sessions", "academicDates", "materialCatalog",
               "teachingPlans", "activitySnapshots", "syncState"}
    BY OtherAssumption
  <2>3. {1, 2, 3, 4, 5, 6, 7} \subseteq 1..7
    OBVIOUS
  <2> HIDE DEF Collections
  <2> QED
    BY <2>1, <2>2, <2>3
<1> QED
  BY <1>1, <1>2 DEF ToList

LEMMA CoursesFinite == 0 \notin Courses /\ IsFiniteSet(Courses)
<1>1. 0 \notin Courses /\ NCourses \in Nat
  BY CoursesAssumption DEF Courses
<1> QED
  BY <1>1, FS_Interval DEF Courses

-----------------------------------------------------------------------------
(* What the operations make of documents. *)

Past(list, t) == \A i \in Ids : list[i] # None => list[i].updated <= t

LEMMA Numbers == /\ Time \subseteq Nat
                 /\ 0 \in Time
                 /\ \A t \in Time : t <= MaxTime
                 /\ MaxTime \in Nat
BY BoundsAssumption DEF Time

LEMMA DateTyped ==
    ASSUME NEW due \in Dues \union Edited, NEW own \in BOOLEAN,
           NEW created \in Time, NEW now \in Time
    PROVE  /\ Date(due, own, created, now) \in DateDoc
           /\ Date(due, own, created, now) # None
<1>1. Date(due, own, created, now) \in DateDoc
  BY Zenon DEF Date, DateDoc
<1> QED
  BY <1>1, NoneAssumption

LEMMA DateDocTyped ==
    ASSUME NEW d \in DateDoc
    PROVE  /\ d # None
           /\ d.created \in Time /\ d.updated \in Time
           /\ d.due \in Dues \union Edited
<1>1. d # None
  BY NoneAssumption
<1>2. /\ d.created \in Time /\ d.updated \in Time
      /\ d.due \in Dues \union Edited
  BY Zenon DEF DateDoc
<1> QED
  BY <1>1, <1>2

LEMMA SinceTyped ==
    ASSUME NEW d \in DateDoc \union {None}, NEW now \in Time
    PROVE  /\ Since(d, now) \in Time
           /\ d # None => Since(d, now) = d.created
<1>1. CASE d = None
  BY <1>1 DEF Since
<1>2. CASE d # None
  BY <1>2, DateDocTyped DEF Since
<1> QED
  BY <1>1, <1>2

LEMMA SavedTyped ==
    ASSUME NEW list \in Dated, NEW i \in Ids, NEW due \in Edited, NEW now \in Time
    PROVE  LET d == Saved(list, i, due, now) IN
           /\ d \in DateDoc /\ d # None /\ d.own /\ d.updated = now
           /\ list[i] # None => d.created = list[i].created
<1>1. list[i] \in DateDoc \union {None}
  BY DEF Dated
<1>2. Since(list[i], now) \in Time /\ (list[i] # None => Since(list[i], now) = list[i].created)
  BY <1>1, SinceTyped
<1> DEFINE s == Since(list[i], now)
           d == Date(due, TRUE, s, now)
<1>3. Saved(list, i, due, now) = d
  BY DEF Saved
<1>4. due \in Dues \union Edited /\ TRUE \in BOOLEAN /\ s \in Time
  BY <1>2
<1> HIDE DEF s
<1>5. d \in DateDoc /\ d # None
  BY <1>4, DateTyped
<1>6. d.created = s /\ d.updated = now
  BY DEF Date
<1>7. d.own = TRUE
  BY DEF Date
<1> HIDE DEF d
<1> QED
  BY <1>2, <1>3, <1>5, <1>6, <1>7 DEF s

LEMMA ImportedTyped ==
    ASSUME NEW list \in Dated, NEW events, NEW i \in Ids, events[i] \in Dues, NEW now \in Time
    PROVE  LET d == Imported(list, events, i, now) IN
           /\ d \in DateDoc /\ d # None /\ d.updated = now
           /\ list[i] # None => d.created = list[i].created
<1>1. list[i] \in DateDoc \union {None}
  BY DEF Dated
<1>2. Since(list[i], now) \in Time /\ (list[i] # None => Since(list[i], now) = list[i].created)
  BY <1>1, SinceTyped
<1> DEFINE s == Since(list[i], now)
           d == Date(events[i], FALSE, s, now)
<1>3. Imported(list, events, i, now) = d
  BY DEF Imported
<1>4. events[i] \in Dues \union Edited /\ FALSE \in BOOLEAN /\ s \in Time
  BY <1>2
<1> HIDE DEF s
<1>5. d \in DateDoc /\ d # None
  BY <1>4, DateTyped
<1>6. d.created = s /\ d.updated = now
  BY DEF Date
<1>7. d.own = FALSE
  BY DEF Date
<1> HIDE DEF d
<1> QED
  BY <1>2, <1>3, <1>5, <1>6, <1>7 DEF s

LEMMA CatalogTyped ==
    ASSUME NEW d \in CatalogDoc
    PROVE  /\ d # None /\ d.term \in Terms /\ d.size \in 0..MaxCandidates
           /\ d.created \in Time /\ d.updated \in Time
BY NoneAssumption DEF CatalogDoc

(* The events of one course, each with an identifier of Moodle's.          *)
LEMMA BatchTyped ==
    ASSUME NEW listed, NEW events, NEW c,
           \A e \in events : e.id \in MoodleIds /\ e.due \in Dues
    PROVE  /\ DOMAIN Batch(listed, events, c) = {e.id : e \in EventsOf(listed, events, c)}
           /\ DOMAIN Batch(listed, events, c) \subseteq MoodleIds
           /\ \A i \in DOMAIN Batch(listed, events, c) : Batch(listed, events, c)[i] \in Dues
<1> DEFINE mine == EventsOf(listed, events, c)
           One(i) == CHOOSE e \in mine : e.id = i
<1>1. mine \subseteq events
  BY DEF EventsOf
<1>2. Batch(listed, events, c) = [i \in {e.id : e \in mine} |-> One(i).due]
  BY DEF Batch
<1>3. ASSUME NEW i \in {e.id : e \in mine} PROVE One(i) \in mine
  <2>1. \E e \in mine : e.id = i
    OBVIOUS
  <2> QED
    BY <2>1
<1> HIDE DEF mine, One
<1>4. ASSUME NEW i \in {e.id : e \in mine} PROVE One(i).due \in Dues
  BY <1>1, <1>3, <1>4
<1>5. {e.id : e \in mine} \subseteq MoodleIds
  BY <1>1
<1> QED
  BY <1>2, <1>4, <1>5 DEF mine

-----------------------------------------------------------------------------
(* What a call knows: what was listed, and what was written since.         *)

(* The dates an import has a say in; one that is not complete drops each   *)
(* event as it is written.                                                 *)
Tracked(x) == IF x.kind = "moodle" THEN IF x.arg.complete THEN Ids ELSE DOMAIN x.arg.events
              ELSE Ids

Saving(x) ==
    /\ x.c \in Courses
    /\ x.arg.id \in Ids /\ x.arg.due \in Edited
    /\ x.pc = "write" => /\ x.listed = {"academicDates"}
                         /\ x.got \in DateDoc /\ x.got.own /\ x.got.updated = x.now

Removing(x) == /\ x.c \in Courses
               /\ x.arg.id \in Ids
               /\ x.pc = "write" => x.arg.id \in ManualIds

Listing(x) ==
    /\ x.c \in Courses
    /\ DOMAIN x.arg.events \subseteq Ids
    /\ \A i \in DOMAIN x.arg.events : x.arg.events[i] \in Dues
    /\ x.pc = "write" => /\ x.listed = {"academicDates"}
                         /\ x.got \in Dated /\ Past(x.got, x.now)

Planned(x) == Listing(x) /\ x.arg.plan \in DOMAIN PlanIds

Turn(a) ==
    /\ DOMAIN a = {"listed", "answered", "calendar", "left", "events", "complete"}
    /\ \A e \in a.calendar : e.id \in MoodleIds /\ e.due \in Dues /\ e.term \in a.answered
    /\ a.left \subseteq ToImport(a.listed, a.answered, a.calendar)

Calendared(x) ==
    /\ Listing(x) /\ Turn(x.arg)
    /\ x.c \in ToImport(x.arg.listed, x.arg.answered, x.arg.calendar)
    /\ DOMAIN x.arg.events \subseteq MoodleIds
    /\ x.arg.complete => /\ x.c \notin Unsafe(x.arg.listed, x.arg.calendar)
                         /\ x.arg.events = Batch(x.arg.listed, x.arg.calendar, x.c)

There(a) == {c \in Courses : a.listed[c] # None}
Announced(a) ==
    /\ DOMAIN a = {"listed", "sizes", "left", "alone"}
    /\ a.listed \in Roll /\ a.sizes \in Found /\ WithinLimit(a.listed, a.sizes)
    /\ a.alone \in BOOLEAN
    /\ a.left \subseteq There(a)
Cataloguing(x) ==
    /\ Announced(x.arg)
    /\ x.pc = "stamp" => x.c = 0 /\ x.arg.left # {} /\ x.arg.left = There(x.arg)
    /\ x.pc # "stamp" => x.c \in There(x.arg) \ x.arg.left
    /\ x.pc = "write" => /\ x.listed = {"materialCatalog"}
                         /\ x.got \in CatalogDoc /\ SameCatalog(x.got, x)
                         /\ x.got.updated = x.now

Deleting(x) ==
    /\ x.c \in Courses
    /\ x.arg \subseteq ToList
    /\ x.pc = "list" => x.arg # {}
    /\ x.pc = "write" => x.arg = {}
    /\ \A n \in ToList : n \in x.arg \/ Collections[n] \in x.listed

Shape(x) ==
    /\ DOMAIN x = Fields
    /\ x.c \in Courses \union {0}
    /\ x.now \in Time
    /\ x.kind = "save" => Saving(x)
    /\ x.kind = "remove" => Removing(x)
    /\ x.kind = "diario" => Planned(x)
    /\ x.kind = "moodle" => Calendared(x)
    /\ x.kind = "discover" => Cataloguing(x)
    /\ x.kind = "delete" => Deleting(x)

(* A date is as it was listed, or no more, or was written since.           *)
Missed(x, i) == <<"academicDates", i>> \in x.unseen
Watched(x, list) ==
    /\ x.kind = "save" /\ x.pc = "write" =>
         LET d == list[x.arg.id] IN
         d = None \/ Missed(x, x.arg.id) \/ (d.created = x.got.created /\ d.updated <= x.got.updated)
    /\ x.kind \in {"diario", "moodle"} /\ x.pc = "write" =>
         \A i \in Tracked(x) : list[i] = None \/ Missed(x, i) \/ list[i] = x.got[i]

Counted(x, below) ==
    x.kind = "delete" => \A d \in below : d[1] \in x.listed => d \in x.got \union x.unseen

(* A discovery that met no other and no edit of a course: the courses are  *)
(* those it lists, or gone, and the catalogs of those it has done with are *)
(* as it announces them.                                                   *)
AsAnnounced(d, a, c) == d.term = a.listed[c] /\ d.size = a.sizes[c]
Lone(x) == x.kind = "discover" /\ x.arg.alone
Solo(x, courses, catalogs) ==
    Lone(x) =>
      /\ \A c \in Courses : courses[c] \in {x.arg.listed[c], None}
      /\ x.pc # "stamp" =>
           \A c \in Courses : catalogs[c] # None =>
             /\ catalogs[c].updated <= x.now
             /\ c \in There(x.arg) \ (x.arg.left \union {x.c}) => AsAnnounced(catalogs[c], x.arg, c)
             /\ x.pc = "write" /\ c = x.c => catalogs[c].created = x.got.created

(* What there is below a course, from its documents.                       *)
BelowOf(list, cat, others) ==
    DateKeys({i \in Ids : list[i] # None})
    \union (IF cat = None THEN {} ELSE {<<"materialCatalog", None>>})
    \union {<<x, None>> : x \in others}

LEMMA BelowIs ==
    ASSUME NEW c
    PROVE  Below(c) = BelowOf(dates[c], catalog[c], rest[c])
BY DEF Below, BelowOf

Right(x, t, list, below) ==
    /\ Shape(x) /\ x.now <= t
    /\ Watched(x, list) /\ Counted(x, below)

Typed ==
    /\ course \in Roll
    /\ dates \in [Courses -> Dated]
    /\ catalog \in [Courses -> Catalogs]
    /\ rest \in [Courses -> SUBSET Other]
    /\ clock \in Time
    /\ mix \in Mixes
    /\ settled \in BOOLEAN
    /\ DOMAIN call = Calls

CallsRight == \A k \in Calls : Right(call[k], clock, dates[call[k].c], Below(call[k].c))
CallsSolo == \A k \in Calls : Solo(call[k], course, catalog)
OneAlone == \A k, j \in Calls : Lone(call[k]) /\ call[j].kind = "discover" => j = k
DatesPast == \A c \in Courses : Past(dates[c], clock)
CatalogsPast == \A c \in Courses : catalog[c] # None => catalog[c].updated <= clock

Inv == /\ Typed
       /\ CallsRight
       /\ CallsSolo
       /\ OneAlone
       /\ DatesPast
       /\ CatalogsPast
       /\ CatalogListable

-----------------------------------------------------------------------------
(* A call keeps what it knows through what others write.                   *)

(* The same call, which others' writes may have passed by.                 *)
Similar(x, y) ==
    /\ DOMAIN y = Fields
    /\ y.kind = x.kind /\ y.pc = x.pc /\ y.c = x.c /\ y.listed = x.listed
    /\ y.arg = x.arg /\ y.got = x.got /\ y.now = x.now
    /\ x.unseen \subseteq y.unseen

LEMMA SimilarShape ==
    ASSUME NEW x, NEW y, Shape(x), Similar(x, y)
    PROVE  Shape(y)
<1>1. Saving(x) => Saving(y)
  BY DEF Saving, Similar
<1>2. Removing(x) => Removing(y)
  BY DEF Removing, Similar
<1>3. Listing(x) => Listing(y)
  BY DEF Listing, Similar
<1>4. Planned(x) => Planned(y)
  BY <1>3 DEF Planned, Similar
<1>5. Calendared(x) => Calendared(y)
  BY <1>3 DEF Calendared, Similar
<1>6. Cataloguing(x) => Cataloguing(y)
  BY DEF Cataloguing, SameCatalog, Similar
<1>7. Deleting(x) => Deleting(y)
  BY DEF Deleting, Similar
<1> QED
  BY <1>1, <1>2, <1>4, <1>5, <1>6, <1>7 DEF Shape, Similar

LEMMA TrackedIds ==
    ASSUME NEW x, Shape(x), x.kind \in {"diario", "moodle"}
    PROVE  Tracked(x) \subseteq Ids
BY DEF Shape, Planned, Calendared, Listing, Tracked

LEMMA WatchedKept ==
    ASSUME NEW x, NEW y, NEW list, NEW new,
           Shape(x), Watched(x, list), Similar(x, y),
           x.c \in Courses =>
             \A i \in Ids : \/ new[i] \in {list[i], None}
                            \/ "academicDates" \notin x.listed
                            \/ Missed(y, i)
    PROVE  Watched(y, new)
<1>1. \A i : Missed(x, i) => Missed(y, i)
  BY DEF Missed, Similar
<1>2. CASE y.kind = "save" /\ y.pc = "write"
  <2>1. x.kind = "save" /\ x.pc = "write" /\ y.arg = x.arg /\ y.got = x.got
    BY <1>2 DEF Similar
  <2>2. x.c \in Courses /\ x.arg.id \in Ids /\ x.listed = {"academicDates"}
    BY <2>1 DEF Shape, Saving
  <2>3. new[x.arg.id] \in {list[x.arg.id], None} \/ Missed(y, x.arg.id)
    BY <2>2
  <2>4. \/ list[x.arg.id] = None \/ Missed(x, x.arg.id)
        \/ /\ list[x.arg.id].created = x.got.created
           /\ list[x.arg.id].updated <= x.got.updated
    BY <2>1 DEF Watched
  <2>5. y.kind \notin {"diario", "moodle"}
    BY <1>2
  <2> QED
    BY <1>1, <2>1, <2>3, <2>4, <2>5 DEF Watched
<1>3. CASE y.kind \in {"diario", "moodle"} /\ y.pc = "write"
  <2>1. x.kind = y.kind /\ x.pc = "write" /\ y.arg = x.arg /\ y.got = x.got
    BY <1>3 DEF Similar
  <2>2. x.c \in Courses /\ x.listed = {"academicDates"} /\ Tracked(x) \subseteq Ids
    BY <1>3, <2>1, TrackedIds DEF Shape, Planned, Calendared, Listing
  <2>3. Tracked(y) = Tracked(x)
    BY <2>1 DEF Tracked
  <2>4. \A i \in Tracked(x) : list[i] = None \/ Missed(x, i) \/ list[i] = x.got[i]
    BY <1>3, <2>1 DEF Watched
  <2>5. \A i \in Tracked(x) : new[i] \in {list[i], None} \/ Missed(y, i)
    BY <2>2
  <2>6. \A i \in Tracked(y) : new[i] = None \/ Missed(y, i) \/ new[i] = y.got[i]
    BY <1>1, <2>1, <2>3, <2>4, <2>5
  <2>7. y.kind # "save"
    BY <1>3
  <2> QED
    BY <2>6, <2>7 DEF Watched
<1> QED
  BY <1>2, <1>3 DEF Watched

LEMMA CountedKept ==
    ASSUME NEW x, NEW y, NEW below, NEW after,
           Shape(x), Counted(x, below), Similar(x, y),
           x.c \in Courses =>
             \A d \in after : d \in below \/ d[1] \notin x.listed \/ d \in y.unseen
    PROVE  Counted(y, after)
BY DEF Counted, Similar, Shape, Deleting

LEMMA RightKept ==
    ASSUME NEW x, NEW y, NEW t \in Time, NEW u \in Time, t <= u,
           NEW list, NEW new, NEW below, NEW after,
           Right(x, t, list, below), Similar(x, y),
           x.c \in Courses =>
             \A i \in Ids : \/ new[i] \in {list[i], None}
                            \/ "academicDates" \notin x.listed
                            \/ Missed(y, i),
           x.c \in Courses =>
             \A d \in after : d \in below \/ d[1] \notin x.listed \/ d \in y.unseen
    PROVE  Right(y, u, new, after)
<1>1. Shape(x) /\ x.now <= t /\ Watched(x, list) /\ Counted(x, below)
  BY DEF Right
<1>2. Shape(y) /\ Watched(y, new) /\ Counted(y, after)
  BY <1>1, SimilarShape, WatchedKept, CountedKept
<1>3. x.now \in Time
  BY <1>1 DEF Shape
<1>4. y.now <= u
  BY <1>1, <1>3, Numbers DEF Similar
<1> QED
  BY <1>2, <1>4 DEF Right

LEMMA SoloKept ==
    ASSUME NEW x, NEW y, NEW courses, NEW catalogs, NEW courses2, NEW catalogs2,
           Solo(x, courses, catalogs), Similar(x, y),
           \A c \in Courses : courses2[c] \in {courses[c], None},
           \A c \in Courses : catalogs2[c] \in {catalogs[c], None}
    PROVE  Solo(y, courses2, catalogs2)
<1> SUFFICES ASSUME Lone(y) PROVE Solo(y, courses2, catalogs2)
  BY DEF Solo
<1>1. Lone(x) /\ y.arg = x.arg /\ y.pc = x.pc /\ y.c = x.c /\ y.now = x.now /\ y.got = x.got
  BY DEF Lone, Similar
<1>2. \A c \in Courses : courses2[c] \in {y.arg.listed[c], None}
  BY <1>1 DEF Solo
<1>3. ASSUME y.pc # "stamp", NEW c \in Courses, catalogs2[c] # None
      PROVE  /\ catalogs2[c].updated <= y.now
             /\ c \in There(y.arg) \ (y.arg.left \union {y.c}) => AsAnnounced(catalogs2[c], y.arg, c)
             /\ y.pc = "write" /\ c = y.c => catalogs2[c].created = y.got.created
  <2>1. catalogs2[c] = catalogs[c] /\ catalogs[c] # None
    BY <1>3
  <2> QED
    BY <1>1, <1>3, <2>1 DEF Solo
<1> QED
  BY <1>2, <1>3 DEF Solo

LEMMA SimilarItself ==
    ASSUME NEW x, DOMAIN x = Fields
    PROVE  Similar(x, x)
BY DEF Similar

LEMMA IdleIs ==
    /\ DOMAIN Idle = Fields
    /\ Idle.kind = "none" /\ Idle.c = 0 /\ Idle.now = 0
    /\ Idle.listed = {} /\ Idle.unseen = {} /\ Idle.pc = "idle" /\ Idle.got = None
BY DEF Idle, Fields

LEMMA IdleRight ==
    ASSUME NEW t \in Time, NEW list, NEW below
    PROVE  Right(Idle, t, list, below) /\ ~Lone(Idle) /\ Idle.kind # "discover"
<1>1. Shape(Idle)
  BY IdleIs, Numbers DEF Shape
<1>2. Idle.now <= t
  BY IdleIs, Numbers
<1>3. Watched(Idle, list) /\ Counted(Idle, below) /\ ~Lone(Idle)
  BY IdleIs DEF Watched, Counted, Lone
<1> QED
  BY <1>1, <1>2, <1>3, IdleIs DEF Right

LEMMA EnteredIs ==
    ASSUME NEW kind, NEW pc, NEW c, NEW arg
    PROVE  LET x == Entered(kind, pc, c, arg) IN
           /\ DOMAIN x = Fields
           /\ x.kind = kind /\ x.pc = pc /\ x.c = c /\ x.arg = arg
           /\ x.listed = {} /\ x.unseen = {} /\ x.now = 0 /\ x.got = None
BY DEF Entered, Idle, Fields

-----------------------------------------------------------------------------
(* The parts of the invariant over a step in which one call goes on.       *)

LEMMA CallOf ==
    ASSUME Inv, NEW k \in Calls
    PROVE  /\ Right(call[k], clock, dates[call[k].c], Below(call[k].c))
           /\ Shape(call[k]) /\ call[k].now <= clock
           /\ Watched(call[k], dates[call[k].c])
           /\ Counted(call[k], Below(call[k].c))
           /\ Solo(call[k], course, catalog)
           /\ DOMAIN call[k] = Fields /\ call[k].c \in Courses \union {0}
BY DEF Inv, CallsRight, CallsSolo, Right, Shape

(* What one call, or nobody's, wrote of a course's documents: the others   *)
(* that had listed them missed it.                                         *)
DatesMissed(j) ==
    call[j].c \in Courses =>
      \A i \in Ids : \/ dates'[call[j].c][i] \in {dates[call[j].c][i], None}
                     \/ "academicDates" \notin call[j].listed
                     \/ Missed(call'[j], i)
BelowMissed(j) ==
    call[j].c \in Courses =>
      \A d \in Below(call[j].c)' : \/ d \in Below(call[j].c)
                                   \/ d[1] \notin call[j].listed
                                   \/ d \in call'[j].unseen

LEMMA OtherRight ==
    ASSUME Inv, NEW j \in Calls, Similar(call[j], call'[j]),
           clock' \in Time, clock <= clock',
           DatesMissed(j), BelowMissed(j)
    PROVE  Right(call[j], clock, dates[call[j].c], Below(call[j].c))'
<1> DEFINE x == call[j]
           y == call'[j]
           list == dates[x.c]
           new == dates'[x.c]
           below == Below(x.c)
           after == Below(x.c)'
<1>1. Right(x, clock, list, below) /\ clock \in Time
  BY CallOf DEF Inv, Typed
<1>2. x.c \in Courses =>
        \A i \in Ids : \/ new[i] \in {list[i], None}
                       \/ "academicDates" \notin x.listed
                       \/ Missed(y, i)
  BY DEF DatesMissed
<1>3. x.c \in Courses => \A d \in after : d \in below \/ d[1] \notin x.listed \/ d \in y.unseen
  BY DEF BelowMissed
<1>4. call'[j].c = x.c
  BY DEF Similar
<1>5. Below(call[j].c)' = after
  BY <1>4 DEF Below
<1> HIDE DEF list, new, below, after
<1>6. Similar(x, y)
  OBVIOUS
<1> HIDE DEF x, y
<1>7. Right(y, clock', new, after)
  BY <1>1, <1>2, <1>3, <1>6, RightKept
<1> QED
  BY <1>4, <1>5, <1>7 DEF x, y, new

LEMMA RightStep ==
    ASSUME Inv, NEW k, clock' \in Time, clock <= clock',
           \A j \in Calls \ {k} : /\ Similar(call[j], call'[j])
                                  /\ DatesMissed(j) /\ BelowMissed(j),
           k \in Calls => Right(call[k], clock, dates[call[k].c], Below(call[k].c))'
    PROVE  CallsRight'
<1>1. ASSUME NEW j \in Calls PROVE Right(call[j], clock, dates[call[j].c], Below(call[j].c))'
  <2>1. CASE j = k
    BY <2>1
  <2>2. CASE j # k
    BY <2>2, OtherRight
  <2> QED
    BY <2>1, <2>2
<1> QED
  BY <1>1 DEF CallsRight

LEMMA OneAloneStep ==
    ASSUME Inv, NEW k,
           \A j \in Calls \ {k} : Similar(call[j], call'[j]),
           k \in Calls => /\ Lone(call'[k]) => Lone(call[k])
                          /\ call'[k].kind = "discover" => call[k].kind = "discover"
    PROVE  OneAlone'
<1>1. ASSUME NEW j \in Calls
      PROVE  /\ Lone(call'[j]) => Lone(call[j])
             /\ call'[j].kind = "discover" => call[j].kind = "discover"
  <2>1. CASE j = k
    BY <2>1
  <2>2. CASE j # k
    BY <2>2 DEF Lone, Similar
  <2> QED
    BY <2>1, <2>2
<1>2. \A i, j \in Calls : Lone(call[i]) /\ call[j].kind = "discover" => j = i
  BY DEF Inv, OneAlone
<1> QED
  BY <1>1, <1>2 DEF OneAlone

LEMMA SoloStep ==
    ASSUME Inv, NEW k,
           \A j \in Calls \ {k} : Similar(call[j], call'[j]),
           k \in Calls => Solo(call[k], course, catalog)',
           \A c \in Courses : course'[c] \in {course[c], None},
           \A c \in Courses : catalog'[c] \in {catalog[c], None}
    PROVE  CallsSolo'
<1>1. ASSUME NEW j \in Calls PROVE Solo(call[j], course, catalog)'
  <2>1. CASE j = k
    BY <2>1
  <2>2. CASE j # k
    BY <2>2, CallOf, SoloKept
  <2> QED
    BY <2>1, <2>2
<1> QED
  BY <1>1 DEF CallsSolo

(* A step that changes what one call is at and nothing below a course.     *)
Follows(k, x) ==
    /\ Right(x, clock, dates[x.c], Below(x.c))
    /\ Solo(x, course, catalog)
    /\ Lone(x) => Lone(call[k])
    /\ x.kind = "discover" => call[k].kind = "discover"

LEMMA LocalStep ==
    ASSUME Inv, NEW k \in Calls, NEW x, Follows(k, x), Become(k, x),
           UNCHANGED <<course, dates, catalog, rest, clock, mix>>,
           settled' \in BOOLEAN, settled' => CanList
    PROVE  Inv'
<1>1. DOMAIN call = Calls /\ clock \in Time
  BY DEF Inv, Typed
<1>2. DOMAIN call' = Calls /\ call'[k] = x /\ \A j \in Calls \ {k} : call'[j] = call[j]
  BY <1>1 DEF Become
<1>3. \A j \in Calls \ {k} : Similar(call[j], call'[j])
  BY <1>2, CallOf, SimilarItself
<1>4. \A c : Below(c)' = Below(c)
  BY DEF Below
<1>5. ASSUME NEW j \in Calls \ {k} PROVE DatesMissed(j) /\ BelowMissed(j)
  <2>1. Below(call[j].c)' = Below(call[j].c)
    BY <1>2, <1>4 DEF Below
  <2> QED
    BY <2>1 DEF DatesMissed, BelowMissed
<1>6. Right(call[k], clock, dates[call[k].c], Below(call[k].c))'
  <2>1. Right(x, clock, dates[x.c], Below(x.c))
    BY DEF Follows
  <2>2. Below(call[k].c)' = Below(x.c)
    BY <1>2, <1>4 DEF Below
  <2> QED
    BY <1>2, <2>1, <2>2
<1>7. CallsRight'
  <2>1. clock' = clock /\ clock <= clock' /\ clock' \in Time
    BY <1>1, Numbers
  <2> QED
    BY <2>1, <1>3, <1>5, <1>6, RightStep
<1>8. OneAlone'
  BY <1>2, <1>3, OneAloneStep DEF Follows
<1>9. CallsSolo'
  <2>1. Solo(call[k], course, catalog)'
    BY <1>2 DEF Follows
  <2> QED
    BY <1>3, <2>1, SoloStep
<1>10. Typed'
  BY <1>2 DEF Inv, Typed
<1>11. DatesPast' /\ CatalogsPast'
  BY DEF Inv, DatesPast, CatalogsPast
<1>12. CatalogListable'
  <2>1. CanList' = CanList
    BY DEF CanList, Exists
  <2> QED
    BY <2>1 DEF CatalogListable
<1> QED
  BY <1>7, <1>8, <1>9, <1>10, <1>11, <1>12 DEF Inv

(* The others who had listed a course's dates miss those of S.             *)
Informed(k, c, S) ==
    \A j \in Calls \ {k} :
       /\ Similar(call[j], call'[j])
       /\ call[j].c = c /\ "academicDates" \in call[j].listed =>
            \A i \in S : Missed(call'[j], i)

(* A write of one course's dates: those of S anew, the others as they were *)
(* or no more.                                                             *)
LEMMA DatesStep ==
    ASSUME Inv, NEW k \in Calls, NEW y, NEW c \in Courses, NEW S \in SUBSET Ids,
           NEW new \in Dated, Past(new, clock), dates' = [dates EXCEPT ![c] = new],
           \A i \in Ids \ S : new[i] \in {dates[c][i], None},
           DOMAIN call' = Calls, call'[k] = y, Informed(k, c, S),
           \A below : Right(y, clock, dates'[y.c], below),
           ~Lone(y), y.kind # "discover",
           UNCHANGED <<course, catalog, rest, clock, mix, settled>>
    PROVE  Inv'
<1>0. \A j \in Calls \ {k} :
         /\ Similar(call[j], call'[j])
         /\ call[j].c = c /\ "academicDates" \in call[j].listed =>
              \A i \in S : Missed(call'[j], i)
  BY DEF Informed
<1>1. dates \in [Courses -> Dated] /\ clock \in Time
  BY DEF Inv, Typed
<1>2. dates' \in [Courses -> Dated] /\ dates'[c] = new /\ \A b \in Courses \ {c} : dates'[b] = dates[b]
  BY <1>1
<1>3. ASSUME NEW j \in Calls \ {k} PROVE DatesMissed(j)
  <2> SUFFICES ASSUME call[j].c \in Courses, NEW i \in Ids
               PROVE  \/ dates'[call[j].c][i] \in {dates[call[j].c][i], None}
                      \/ "academicDates" \notin call[j].listed
                      \/ Missed(call'[j], i)
    BY DEF DatesMissed
  <2>1. CASE call[j].c = c
    BY <1>0, <1>2, <2>1
  <2>2. CASE call[j].c # c
    BY <1>2, <2>2
  <2> QED
    BY <2>1, <2>2
<1>4. ASSUME NEW j \in Calls \ {k} PROVE BelowMissed(j)
  <2> SUFFICES ASSUME call[j].c \in Courses, NEW d \in Below(call[j].c)'
               PROVE  \/ d \in Below(call[j].c)
                      \/ d[1] \notin call[j].listed
                      \/ d \in call'[j].unseen
    BY DEF BelowMissed
  <2>1. call'[j].c = call[j].c
    BY <1>0 DEF Similar
  <2>2. d \in DateKeys({i \in Ids : dates'[call[j].c][i] # None}) \/ d \in Below(call[j].c)
    BY <2>1 DEF Below
  <2>3. CASE d \in DateKeys({i \in Ids : dates'[call[j].c][i] # None})
    <3>1. PICK i \in Ids : d = <<"academicDates", i>> /\ dates'[call[j].c][i] # None
      BY <2>3 DEF DateKeys
    <3>2. CASE dates[call[j].c][i] # None
      BY <3>1, <3>2 DEF Below, DateKeys
    <3>3. CASE dates[call[j].c][i] = None
      <4>1. "academicDates" \notin call[j].listed \/ Missed(call'[j], i)
        BY <1>3, <3>1, <3>3 DEF DatesMissed
      <4>2. d[1] = "academicDates"
        BY <3>1
      <4> QED
        BY <3>1, <4>1, <4>2 DEF Missed
    <3> QED
      BY <3>2, <3>3
  <2> QED
    BY <2>2, <2>3
<1>5. Right(call[k], clock, dates[call[k].c], Below(call[k].c))'
  OBVIOUS
<1>6. CallsRight'
  <2>1. clock' \in Time /\ clock <= clock'
    BY <1>1, Numbers
  <2> QED
    BY <2>1, <1>0, <1>3, <1>4, <1>5, RightStep
<1>7. OneAlone'
  BY <1>0, OneAloneStep
<1>8. CallsSolo'
  <2>1. Solo(call[k], course, catalog)'
    BY DEF Solo
  <2> QED
    BY <1>0, <2>1, SoloStep
<1>9. Typed'
  BY <1>2 DEF Inv, Typed
<1>10. DatesPast'
  <2>1. \A b \in Courses : Past(dates[b], clock)
    BY DEF Inv, DatesPast
  <2>2. \A b \in Courses : Past(dates'[b], clock)
    BY <1>2, <2>1
  <2>3. \A b \in Courses : Past(dates[b], clock)'
    BY <2>2 DEF Past
  <2> QED
    BY <2>3 DEF DatesPast
<1>11. CatalogsPast'
  BY DEF Inv, CatalogsPast
<1>12. CatalogListable'
  BY DEF Inv, CatalogListable, CanList, Exists
<1> QED
  BY <1>6, <1>7, <1>8, <1>9, <1>10, <1>11, <1>12 DEF Inv

(* Those who had listed a collection miss what is written in it.           *)
LEMMA UnseenSimilar ==
    ASSUME Inv, NEW c \in Courses, NEW keys, NEW j \in Calls
    PROVE  /\ DOMAIN Unseen(c, keys) = Calls
           /\ Similar(call[j], Unseen(c, keys)[j])
           /\ call[j].c = c => \A d \in keys : d[1] \in call[j].listed => d \in Unseen(c, keys)[j].unseen
<1>1. DOMAIN call[j] = Fields
  BY CallOf
<1> DEFINE m == {d \in keys : d[1] \in call[j].listed}
           y == [call[j] EXCEPT !.unseen = @ \union m]
<1>2. Unseen(c, keys)[j] = IF call[j].c = c THEN y ELSE call[j]
  BY DEF Unseen
<1> HIDE DEF m
<1>3. Similar(call[j], y) /\ m \subseteq y.unseen
  BY <1>1 DEF Similar, Fields
<1>4. Similar(call[j], call[j])
  BY <1>1, SimilarItself
<1>5. Similar(call[j], Unseen(c, keys)[j])
  BY <1>2, <1>3, <1>4
<1>6. call[j].c = c => m \subseteq Unseen(c, keys)[j].unseen
  BY <1>2, <1>3
<1>7. DOMAIN Unseen(c, keys) = Calls
  BY DEF Unseen
<1> QED
  BY <1>5, <1>6, <1>7 DEF m

LEMMA WroteSimilar ==
    ASSUME Inv, NEW k \in Calls, NEW y, NEW keys, call[k].c \in Courses, Wrote(k, y, keys)
    PROVE  /\ DOMAIN call' = Calls
           /\ call'[k] = y
           /\ \A j \in Calls \ {k} :
                /\ Similar(call[j], call'[j])
                /\ call[j].c = call[k].c =>
                     \A d \in keys : d[1] \in call[j].listed => d \in call'[j].unseen
<1>1. call' = [Unseen(call[k].c, keys) EXCEPT ![k] = y]
  BY DEF Wrote
<1>2. DOMAIN Unseen(call[k].c, keys) = Calls
  BY UnseenSimilar
<1>3. /\ DOMAIN call' = Calls /\ call'[k] = y
      /\ \A j \in Calls \ {k} : call'[j] = Unseen(call[k].c, keys)[j]
  BY <1>1, <1>2
<1> QED
  BY <1>3, UnseenSimilar

-----------------------------------------------------------------------------
(* The steps that write nothing. *)

LEMMA LocalGoesOn ==
    ASSUME Inv, NEW k \in Calls, NEW x, Follows(k, x), Become(k, x),
           UNCHANGED <<course, dates, catalog, rest, clock, mix, settled>>
    PROVE  Inv'
<1>1. settled' \in BOOLEAN /\ (settled' => CanList)
  BY DEF Inv, Typed, CatalogListable
<1> QED
  BY <1>1, LocalStep

LEMMA IdleFollows ==
    ASSUME Inv, NEW k \in Calls
    PROVE  Follows(k, Idle)
<1>1. clock \in Time
  BY DEF Inv, Typed
<1> QED
  BY <1>1, IdleRight DEF Follows, Solo

LEMMA IdleGoesOn ==
    ASSUME Inv, NEW k \in Calls, Become(k, Idle),
           UNCHANGED <<course, dates, catalog, rest, clock, mix, settled>>
    PROVE  Inv'
BY IdleFollows, LocalGoesOn

(* One that has not listed anything has nothing to know.                   *)
LEMMA ListsNext ==
    ASSUME NEW x, Shape(x), x.pc = "list", x.kind \in {"save", "remove", "diario", "moodle"},
           NEW t \in Time, x.now <= t
    PROVE  /\ \A list, below : Right(x, t, list, below)
           /\ ~Lone(x) /\ x.kind # "discover"
<1>1. x.pc # "write" /\ x.kind # "delete" /\ x.kind # "discover"
  OBVIOUS
<1>2. \A list : Watched(x, list)
  BY <1>1 DEF Watched
<1>3. \A below : Counted(x, below)
  BY <1>1 DEF Counted
<1> QED
  BY <1>1, <1>2, <1>3 DEF Right, Lone

LEMMA RightFollows ==
    ASSUME NEW k, NEW x, x.kind # "discover",
           Right(x, clock, dates[x.c], Below(x.c))
    PROVE  Follows(k, x)
BY DEF Follows, Solo, Lone

LEMMA BeginDateInv ==
    ASSUME Inv, NEW k \in Calls, NEW kind \in {"save", "remove"}, NEW c \in Courses,
           NEW i \in Ids, NEW due, kind = "save" => due \in Edited,
           BeginDate(k, kind, c, i, due)
    PROVE  Inv'
<1> DEFINE arg == [id |-> i, due |-> due]
           x == Entered(kind, "list", c, arg)
<1>1. arg.id = i /\ arg.due = due
  OBVIOUS
<1>2. /\ DOMAIN x = Fields
      /\ x.kind = kind /\ x.pc = "list" /\ x.c = c /\ x.arg = arg
      /\ x.now = 0
  BY EnteredIs
<1>3. Become(k, x) /\ UNCHANGED <<course, dates, catalog, rest, clock, mix, settled>>
  BY DEF BeginDate
<1>4. clock \in Time /\ 0 <= clock
  BY Numbers DEF Inv, Typed
<1> HIDE DEF x, arg
<1>5. x.kind = "save" => Saving(x)
  BY <1>1, <1>2 DEF Saving
<1>6. x.kind = "remove" => Removing(x)
  BY <1>1, <1>2 DEF Removing
<1>7. Shape(x)
  BY <1>2, <1>5, <1>6, Numbers DEF Shape
<1>8. Right(x, clock, dates[x.c], Below(x.c)) /\ x.kind # "discover"
  BY <1>2, <1>4, <1>7, ListsNext
<1> QED
  BY <1>3, <1>8, RightFollows, LocalGoesOn

LEMMA BeginDiarioInv ==
    ASSUME Inv, NEW k \in Calls, NEW c \in Courses, NEW p \in DOMAIN PlanIds,
           NEW S \in SUBSET PlanIds[p], NEW events \in [S -> Dues],
           BeginDiario(k, c, p, events)
    PROVE  Inv'
<1> DEFINE arg == [plan |-> p, events |-> events]
           x == Entered("diario", "list", c, arg)
<1>1. arg.plan = p /\ arg.events = events
  OBVIOUS
<1>2. /\ DOMAIN x = Fields
      /\ x.kind = "diario" /\ x.pc = "list" /\ x.c = c /\ x.arg = arg
      /\ x.now = 0
  BY EnteredIs
<1>3. Become(k, x) /\ UNCHANGED <<course, dates, catalog, rest, clock, mix, settled>>
  BY DEF BeginDiario
<1>4. clock \in Time /\ 0 <= clock
  BY Numbers DEF Inv, Typed
<1>5. DOMAIN events \subseteq Ids /\ \A i \in DOMAIN events : events[i] \in Dues
  BY PlansAssumption DEF Ids
<1> HIDE DEF x, arg
<1>6. Planned(x)
  BY <1>1, <1>2, <1>5 DEF Planned, Listing
<1>7. Shape(x)
  BY <1>2, <1>6, Numbers DEF Shape
<1>8. Right(x, clock, dates[x.c], Below(x.c)) /\ x.kind # "discover"
  BY <1>2, <1>4, <1>7, ListsNext
<1> QED
  BY <1>3, <1>8, RightFollows, LocalGoesOn

(* The next course of an import of Moodle's calendar.                      *)
LEMMA OnwardsRight ==
    ASSUME NEW x, Turn(x.arg),
           NEW left, left \subseteq ToImport(x.arg.listed, x.arg.answered, x.arg.calendar),
           NEW t \in Time
    PROVE  /\ \A list, below : Right(Onwards(x, left), t, list, below)
           /\ ~Lone(Onwards(x, left)) /\ Onwards(x, left).kind # "discover"
<1> DEFINE a == x.arg
           c == First(left)
           events == Batch(a.listed, a.calendar, c)
           complete == c \notin Unsafe(a.listed, a.calendar)
           b == [a EXCEPT !.left = left \ {c}, !.events = events, !.complete = complete]
           y == Entered("moodle", "list", c, b)
<1>1. CASE left = {}
  BY <1>1, IdleRight DEF Onwards
<1>2. CASE left # {}
  <2>1. Onwards(x, left) = y
    BY <1>2 DEF Onwards
  <2>2. c \in left /\ c \in Courses
    <3>1. left \subseteq Courses
      BY DEF ToImport, Answered
    <3> QED
      BY <1>2, <3>1, FirstCourse
  <2>3. DOMAIN a = {"listed", "answered", "calendar", "left", "events", "complete"}
    BY DEF Turn
  <2> HIDE DEF events, c
  <2>4. /\ DOMAIN b = {"listed", "answered", "calendar", "left", "events", "complete"}
        /\ b.listed = a.listed /\ b.answered = a.answered /\ b.calendar = a.calendar
        /\ b.left = left \ {c} /\ b.events = events /\ b.complete = complete
    BY <2>3
  <2>5. /\ DOMAIN y = Fields
        /\ y.kind = "moodle" /\ y.pc = "list" /\ y.c = c /\ y.arg = b
        /\ y.now = 0
    BY EnteredIs
  <2>6. \A e \in a.calendar : e.id \in MoodleIds /\ e.due \in Dues /\ e.term \in a.answered
    BY DEF Turn
  <2>7. DOMAIN events \subseteq MoodleIds /\ \A i \in DOMAIN events : events[i] \in Dues
    BY <2>6, BatchTyped DEF events
  <2> HIDE DEF y, b, complete
  <2>8. Turn(y.arg)
    BY <2>4, <2>5, <2>6 DEF Turn
  <2>9. Listing(y)
    BY <2>2, <2>4, <2>5, <2>7 DEF Listing, Ids
  <2>10. Calendared(y)
    BY <2>2, <2>4, <2>5, <2>7, <2>8, <2>9 DEF Calendared, complete, events
  <2>11. Shape(y) /\ y.now <= t
    BY <2>2, <2>5, <2>10, Numbers DEF Shape
  <2> QED
    BY <2>1, <2>5, <2>11, ListsNext
<1> QED
  BY <1>1, <1>2

LEMMA OnwardsFollows ==
    ASSUME Inv, NEW k \in Calls, NEW x, Turn(x.arg),
           NEW left, left \subseteq ToImport(x.arg.listed, x.arg.answered, x.arg.calendar)
    PROVE  Follows(k, Onwards(x, left))
<1> DEFINE y == Onwards(x, left)
<1>1. clock \in Time
  BY DEF Inv, Typed
<1>2. /\ \A list, below : Right(y, clock, list, below)
      /\ y.kind # "discover"
  BY <1>1, OnwardsRight
<1> HIDE DEF y
<1>3. Follows(k, y)
  BY <1>2, RightFollows
<1> QED
  BY <1>3 DEF y

LEMMA BeginMoodleInv ==
    ASSUME Inv, NEW k \in Calls, NEW a \in Answers, BeginMoodle(k, a[1], a[2])
    PROVE  Inv'
<1> DEFINE answered == a[1]
           calendar == a[2]
           arg == [listed |-> course, answered |-> answered, calendar |-> calendar,
                   left |-> {}, events |-> <<>>, complete |-> FALSE]
           x == [Idle EXCEPT !.arg = arg]
           left == ToImport(course, answered, calendar)
<1>1. Become(k, Onwards(x, left)) /\ UNCHANGED <<course, dates, catalog, rest, clock, mix, settled>>
  BY DEF BeginMoodle
<1>2. \A e \in calendar : e.term \in answered /\ e.id \in MoodleIds /\ e.due \in Dues
  BY AnswersAssumption DEF BeginMoodle
<1> HIDE DEF answered, calendar
<1>3. /\ DOMAIN arg = {"listed", "answered", "calendar", "left", "events", "complete"}
      /\ arg.listed = course /\ arg.answered = answered /\ arg.calendar = calendar
      /\ arg.left = {}
  OBVIOUS
<1>4. x.arg = arg
  BY IdleIs DEF Fields
<1> HIDE DEF arg, x
<1>5. Turn(x.arg)
  BY <1>2, <1>3, <1>4 DEF Turn
<1>6. left \subseteq ToImport(x.arg.listed, x.arg.answered, x.arg.calendar)
  BY <1>3, <1>4
<1> HIDE DEF left
<1>7. Follows(k, Onwards(x, left))
  BY <1>5, <1>6, OnwardsFollows
<1> QED
  BY <1>1, <1>7, LocalGoesOn

LEMMA BeginDeleteInv ==
    ASSUME Inv, NEW k \in Calls, NEW c \in Courses, BeginDelete(k, c)
    PROVE  Inv'
<1> DEFINE e == Entered("delete", "list", c, ToList)
           x == [e EXCEPT !.got = {}]
<1>1. Become(k, x) /\ UNCHANGED <<course, dates, catalog, rest, clock, mix, settled>>
  BY DEF BeginDelete
<1>2. /\ DOMAIN e = Fields
      /\ e.kind = "delete" /\ e.pc = "list" /\ e.c = c /\ e.arg = ToList
      /\ e.listed = {} /\ e.now = 0
  BY EnteredIs
<1> HIDE DEF e
<1>3. /\ DOMAIN x = Fields
      /\ x.kind = "delete" /\ x.pc = "list" /\ x.c = c /\ x.arg = ToList
      /\ x.listed = {} /\ x.now = 0
  BY <1>2 DEF Fields
<1> HIDE DEF x
<1>4. clock \in Time /\ 0 <= clock
  BY Numbers DEF Inv, Typed
<1>5. ToList # {}
  BY Listable
<1>6. Deleting(x)
  BY <1>3, <1>5 DEF Deleting
<1>7. Shape(x)
  BY <1>3, <1>6, Numbers DEF Shape
<1>8. Watched(x, dates[x.c]) /\ Counted(x, Below(x.c))
  BY <1>3 DEF Watched, Counted
<1>9. Right(x, clock, dates[x.c], Below(x.c)) /\ x.kind # "discover"
  BY <1>3, <1>4, <1>7, <1>8 DEF Right
<1> QED
  BY <1>1, <1>9, RightFollows, LocalGoesOn

LEMMA ListSaveInv ==
    ASSUME Inv, NEW k \in Calls, ListSave(k)
    PROVE  Inv'
<1> DEFINE x == call[k]
           list == dates[x.c]
           saved == Saved(list, x.arg.id, x.arg.due, clock)
           y == [x EXCEPT !.pc = "write", !.listed = {"academicDates"}, !.now = clock, !.got = saved]
<1>1. /\ x.kind = "save"
      /\ Become(k, IF Saveable(list, x.arg.id) THEN y ELSE Idle)
      /\ UNCHANGED <<course, dates, catalog, rest, clock, mix, settled>>
  BY DEF ListSave, At
<1>2. Shape(x) /\ DOMAIN x = Fields
  BY CallOf
<1>3. x.c \in Courses /\ x.arg.id \in Ids /\ x.arg.due \in Edited
  BY <1>1, <1>2 DEF Shape, Saving
<1>4. clock \in Time /\ list \in Dated /\ Past(list, clock)
  BY <1>3 DEF Inv, Typed, DatesPast
<1> HIDE DEF list
<1>5. /\ saved \in DateDoc /\ saved.own /\ saved.updated = clock
      /\ list[x.arg.id] # None => saved.created = list[x.arg.id].created
  BY <1>3, <1>4, SavedTyped
<1> HIDE DEF saved, x
<1>6. /\ DOMAIN y = Fields
      /\ y.kind = x.kind /\ y.pc = "write" /\ y.c = x.c /\ y.arg = x.arg
      /\ y.listed = {"academicDates"} /\ y.got = saved /\ y.now = clock
  BY <1>2 DEF Fields
<1> HIDE DEF y
<1>7. Saving(y)
  BY <1>3, <1>5, <1>6 DEF Saving
<1>8. Shape(y)
  BY <1>1, <1>3, <1>4, <1>6, <1>7 DEF Shape
<1>9. Watched(y, list)
  <2>1. list[x.arg.id] # None => list[x.arg.id].updated <= clock
    BY <1>3, <1>4 DEF Past
  <2>2. list[x.arg.id] # None =>
          list[x.arg.id].created = y.got.created /\ list[x.arg.id].updated <= y.got.updated
    BY <1>5, <1>6, <2>1
  <2> QED
    BY <1>1, <1>6, <2>2 DEF Watched
<1>10. y.now <= clock
  BY <1>4, <1>6, Numbers
<1>11. Right(y, clock, dates[y.c], Below(y.c)) /\ y.kind # "discover"
  BY <1>1, <1>6, <1>8, <1>9, <1>10 DEF Right, Counted, list
<1>12. CASE Saveable(list, x.arg.id)
  BY <1>1, <1>11, <1>12, RightFollows, LocalGoesOn
<1>13. CASE ~Saveable(list, x.arg.id)
  BY <1>1, <1>13, IdleGoesOn
<1> QED
  BY <1>12, <1>13

LEMMA ListRemoveInv ==
    ASSUME Inv, NEW k \in Calls, ListRemove(k)
    PROVE  Inv'
<1> DEFINE x == call[k]
           y == [x EXCEPT !.pc = "write", !.listed = {"academicDates"}]
<1>1. /\ x.kind = "remove"
      /\ Become(k, IF Removable(dates[x.c], x.arg.id) THEN y ELSE Idle)
      /\ UNCHANGED <<course, dates, catalog, rest, clock, mix, settled>>
  BY DEF ListRemove, At
<1>2. Shape(x) /\ DOMAIN x = Fields /\ x.now <= clock
  BY CallOf
<1>3. x.c \in Courses /\ x.arg.id \in Ids /\ x.now \in Time
  BY <1>1, <1>2 DEF Shape, Removing
<1> HIDE DEF x
<1>4. /\ DOMAIN y = Fields
      /\ y.kind = x.kind /\ y.pc = "write" /\ y.c = x.c /\ y.arg = x.arg /\ y.now = x.now
  BY <1>2 DEF Fields
<1> HIDE DEF y
<1>5. CASE Removable(dates[x.c], x.arg.id)
  <2>1. x.arg.id \in ManualIds
    BY <1>5 DEF Removable
  <2>2. Removing(y)
    BY <1>3, <1>4, <2>1 DEF Removing
  <2>3. Shape(y)
    BY <1>1, <1>3, <1>4, <2>2 DEF Shape
  <2>4. Right(y, clock, dates[y.c], Below(y.c)) /\ y.kind # "discover"
    BY <1>1, <1>2, <1>4, <2>3 DEF Right, Watched, Counted
  <2> QED
    BY <1>1, <1>5, <2>4, RightFollows, LocalGoesOn
<1>6. CASE ~Removable(dates[x.c], x.arg.id)
  BY <1>1, <1>6, IdleGoesOn
<1> QED
  BY <1>5, <1>6

LEMMA ListDatesInv ==
    ASSUME Inv, NEW k \in Calls, ListDates(k)
    PROVE  Inv'
<1> DEFINE x == call[k]
           list == dates[x.c]
           y == [x EXCEPT !.pc = "write", !.listed = {"academicDates"}, !.now = clock, !.got = list]
<1>1. /\ x.kind \in {"diario", "moodle"}
      /\ Become(k, y)
      /\ UNCHANGED <<course, dates, catalog, rest, clock, mix, settled>>
  BY DEF ListDates, At
<1>2. Shape(x) /\ DOMAIN x = Fields
  BY CallOf
<1>3. Listing(x) /\ x.c \in Courses
  BY <1>1, <1>2 DEF Shape, Planned, Calendared, Listing
<1>4. clock \in Time /\ list \in Dated /\ Past(list, clock)
  BY <1>3 DEF Inv, Typed, DatesPast
<1> HIDE DEF list, x
<1>5. /\ DOMAIN y = Fields
      /\ y.kind = x.kind /\ y.pc = "write" /\ y.c = x.c /\ y.arg = x.arg
      /\ y.listed = {"academicDates"} /\ y.got = list /\ y.now = clock
  BY <1>2 DEF Fields
<1> HIDE DEF y
<1>6. Listing(y)
  BY <1>3, <1>4, <1>5 DEF Listing
<1>7. Shape(y)
  <2>1. y.kind = "diario" => Planned(y)
    BY <1>2, <1>5, <1>6 DEF Shape, Planned
  <2>2. y.kind = "moodle" => Calendared(y)
    BY <1>2, <1>5, <1>6 DEF Shape, Calendared
  <2> QED
    BY <1>1, <1>3, <1>4, <1>5, <2>1, <2>2 DEF Shape
<1>8. Watched(y, list)
  BY <1>1, <1>5 DEF Watched
<1>9. y.now <= clock
  BY <1>4, <1>5, Numbers
<1>10. Right(y, clock, dates[y.c], Below(y.c)) /\ y.kind # "discover"
  BY <1>1, <1>5, <1>7, <1>8, <1>9 DEF Right, Counted, list
<1> QED
  BY <1>1, <1>10, RightFollows, LocalGoesOn

LEMMA MoodleOnwards ==
    ASSUME Inv, NEW k \in Calls, call[k].kind = "moodle"
    PROVE  /\ Turn(call[k].arg)
           /\ Follows(k, Onwards(call[k], call[k].arg.left))
           /\ \A t \in Time : \A list, below : Right(Onwards(call[k], call[k].arg.left), t, list, below)
           /\ ~Lone(Onwards(call[k], call[k].arg.left))
           /\ Onwards(call[k], call[k].arg.left).kind # "discover"
<1> DEFINE x == call[k]
           left == x.arg.left
<1>1. Turn(x.arg)
  BY CallOf DEF Shape, Calendared
<1>2. left \subseteq ToImport(x.arg.listed, x.arg.answered, x.arg.calendar)
  BY <1>1 DEF Turn
<1> HIDE DEF left
<1> HIDE DEF x
<1>3. Follows(k, Onwards(x, left))
  BY <1>1, <1>2, OnwardsFollows
<1>4. /\ \A t \in Time : \A list, below : Right(Onwards(x, left), t, list, below)
      /\ 0 \in Time => ~Lone(Onwards(x, left)) /\ Onwards(x, left).kind # "discover"
  BY <1>1, <1>2, OnwardsRight
<1> QED
  BY <1>1, <1>3, <1>4, Numbers DEF x, left

LEMMA NothingToWriteInv ==
    ASSUME Inv, NEW k \in Calls, NothingToWrite(k)
    PROVE  Inv'
<1>1. /\ call[k].kind = "moodle"
      /\ Become(k, Onwards(call[k], call[k].arg.left))
      /\ UNCHANGED <<course, dates, catalog, rest, clock, mix, settled>>
  BY DEF NothingToWrite, At
<1> QED
  BY <1>1, MoodleOnwards, LocalGoesOn

LEMMA CourseFailsInv ==
    ASSUME Inv, NEW k \in Calls, CourseFails(k)
    PROVE  Inv'
BY MoodleOnwards, LocalGoesOn DEF CourseFails

LEMMA KillInv ==
    ASSUME Inv, NEW k \in Calls, Kill(k)
    PROVE  Inv'
BY IdleGoesOn DEF Kill

LEMMA ListCollectionInv ==
    ASSUME Inv, NEW k \in Calls, ListCollection(k)
    PROVE  Inv'
<1> DEFINE x == call[k]
           n == First(x.arg)
           found == In(x.c, Collections[n])
           pc == IF x.arg = {n} THEN "write" ELSE "list"
           y == [x EXCEPT !.listed = @ \union {Collections[n]},
                          !.got = @ \union found,
                          !.arg = @ \ {n},
                          !.pc = pc]
<1>1. /\ x.kind = "delete" /\ x.pc = "list"
      /\ Become(k, y)
      /\ UNCHANGED <<course, dates, catalog, rest, clock, mix, settled>>
  BY DEF ListCollection, At
<1>2. Shape(x) /\ DOMAIN x = Fields /\ x.now <= clock /\ Counted(x, Below(x.c))
  BY CallOf
<1>3. /\ x.c \in Courses /\ x.now \in Time
      /\ x.arg \subseteq ToList /\ x.arg # {}
      /\ \A m \in ToList : m \in x.arg \/ Collections[m] \in x.listed
  BY <1>1, <1>2 DEF Shape, Deleting
<1>4. n \in x.arg
  BY <1>3, FirstListing
<1>5. \A d : d \in found <=> d \in Below(x.c) /\ d[1] = Collections[n]
  BY DEF In
<1> HIDE DEF x, n, found, pc
<1>6. /\ DOMAIN y = Fields
      /\ y.kind = x.kind /\ y.pc = pc /\ y.c = x.c /\ y.arg = x.arg \ {n}
      /\ y.listed = x.listed \union {Collections[n]} /\ y.got = x.got \union found
      /\ y.now = x.now /\ y.unseen = x.unseen
  BY <1>2 DEF Fields
<1> HIDE DEF y
<1>7. Deleting(y)
  <2>1. pc = "list" => y.arg # {}
    BY <1>4, <1>6 DEF pc
  <2>2. pc = "write" => y.arg = {}
    BY <1>6 DEF pc
  <2>3. \A m \in ToList : m \in y.arg \/ Collections[m] \in y.listed
    BY <1>3, <1>6
  <2> QED
    BY <1>3, <1>6, <2>1, <2>2, <2>3 DEF Deleting
<1>8. Shape(y)
  BY <1>1, <1>3, <1>6, <1>7 DEF Shape
<1>9. Counted(y, Below(y.c))
  <2>1. \A d \in Below(x.c) : d[1] \in x.listed => d \in x.got \union x.unseen
    BY <1>1, <1>2 DEF Counted
  <2>2. ASSUME NEW d \in Below(y.c), d[1] \in y.listed PROVE d \in y.got \union y.unseen
    BY <1>5, <1>6, <2>1, <2>2
  <2> QED
    BY <2>2 DEF Counted
<1>10. Watched(y, dates[y.c])
  BY <1>1, <1>6 DEF Watched
<1>11. Right(y, clock, dates[y.c], Below(y.c)) /\ y.kind # "discover"
  BY <1>1, <1>2, <1>6, <1>8, <1>9, <1>10 DEF Right
<1> QED
  BY <1>1, <1>11, RightFollows, LocalGoesOn

-----------------------------------------------------------------------------
(* A discovery, one catalog after another. *)

Shown(courses, catalogs) == {c \in Courses : courses[c] # None /\ catalogs[c] # None}
Sizes(catalogs, S) == [c \in S |-> catalogs[c].size]
CanListOf(courses, catalogs) ==
    /\ \A c \in Shown(courses, catalogs) : catalogs[c].term = courses[c]
    /\ Together(Sizes(catalogs, Shown(courses, catalogs)), Shown(courses, catalogs)) <= MaxCandidates

LEMMA CanListIs == CanList = CanListOf(course, catalog)
BY DEF CanList, CanListOf, Shown, Sizes, Exists

(* Fewer courses, with materials as many, have no more together.           *)
LEMMA TogetherGrows ==
    ASSUME NEW T \in SUBSET Courses, NEW S \in SUBSET T, NEW few, NEW many,
           \A c \in S : few[c] = many[c], Together(many, T) <= MaxCandidates
    PROVE  Together(few, S) <= MaxCandidates
<1>1. MaterialsOf(few, S) \subseteq MaterialsOf(many, T)
  BY DEF MaterialsOf
<1>2. IsFiniteSet(MaterialsOf(many, T))
  <2>1. IsFiniteSet(T)
    BY CoursesFinite, FS_Subset
  <2>2. IsFiniteSet(1..MaxCandidates)
    BY FS_Interval, BoundsAssumption
  <2>3. IsFiniteSet(T \X (1..MaxCandidates))
    BY <2>1, <2>2, FS_Product
  <2>4. MaterialsOf(many, T) \subseteq T \X (1..MaxCandidates)
    BY DEF MaterialsOf
  <2> QED
    BY <2>3, <2>4, FS_Subset
<1>3. /\ IsFiniteSet(MaterialsOf(few, S))
      /\ Cardinality(MaterialsOf(few, S)) <= Cardinality(MaterialsOf(many, T))
  BY <1>1, <1>2, FS_Subset
<1>4. Cardinality(MaterialsOf(few, S)) \in Nat /\ Cardinality(MaterialsOf(many, T)) \in Nat
  BY <1>2, <1>3, FS_CardinalityType
<1>5. MaxCandidates \in Nat
  BY BoundsAssumption
<1> QED
  BY <1>3, <1>4, <1>5 DEF Together

LEMMA ListableShrinks ==
    ASSUME NEW courses, NEW catalogs, NEW courses2, NEW catalogs2,
           CanListOf(courses, catalogs),
           \A c \in Courses : courses2[c] \in {courses[c], None},
           \A c \in Courses : catalogs2[c] \in {catalogs[c], None}
    PROVE  CanListOf(courses2, catalogs2)
<1> DEFINE T == Shown(courses, catalogs)
           S == Shown(courses2, catalogs2)
<1>1. /\ S \subseteq T /\ T \subseteq Courses
      /\ \A c \in S : courses2[c] = courses[c] /\ catalogs2[c] = catalogs[c]
  BY DEF Shown
<1>2. /\ \A c \in T : catalogs[c].term = courses[c]
      /\ Together(Sizes(catalogs, T), T) <= MaxCandidates
  BY DEF CanListOf
<1> HIDE DEF S, T
<1>3. \A c \in S : Sizes(catalogs2, S)[c] = Sizes(catalogs, T)[c]
  BY <1>1 DEF Sizes
<1>4. Together(Sizes(catalogs2, S), S) <= MaxCandidates
  BY <1>1, <1>2, <1>3, TogetherGrows
<1>5. \A c \in S : catalogs2[c].term = courses2[c]
  BY <1>1, <1>2
<1> QED
  BY <1>4, <1>5 DEF CanListOf, S

LEMMA AnnouncedListable ==
    ASSUME NEW a, Announced(a), NEW courses, NEW catalogs,
           \A c \in Courses : courses[c] \in {a.listed[c], None},
           \A c \in There(a) : catalogs[c] # None => AsAnnounced(catalogs[c], a, c)
    PROVE  CanListOf(courses, catalogs)
<1> DEFINE T == There(a)
           S == Shown(courses, catalogs)
<1>1. S \subseteq T /\ T \subseteq Courses
  BY DEF Shown, There
<1>2. \A c \in S : /\ catalogs[c].term = a.listed[c] /\ a.listed[c] = courses[c]
                   /\ catalogs[c].size = a.sizes[c]
  BY <1>1 DEF Shown, AsAnnounced
<1>3. Together(a.sizes, T) <= MaxCandidates
  BY DEF Announced, WithinLimit, There
<1> HIDE DEF S, T
<1>4. \A c \in S : Sizes(catalogs, S)[c] = a.sizes[c]
  BY <1>2 DEF Sizes
<1>5. Together(Sizes(catalogs, S), S) <= MaxCandidates
  BY <1>1, <1>3, <1>4, TogetherGrows
<1> QED
  BY <1>2, <1>5 DEF CanListOf, S

(* Each course that is not left has its catalog as announced.              *)
Finished(x, left, courses, catalogs) ==
    /\ \A c \in Courses : courses[c] \in {x.arg.listed[c], None}
    /\ \A c \in Courses : catalogs[c] # None =>
         /\ catalogs[c].updated <= x.now
         /\ c \in There(x.arg) \ left => AsAnnounced(catalogs[c], x.arg, c)

LEMMA NextCatalogRight ==
    ASSUME NEW x, Shape(x), x.kind = "discover", x.pc # "stamp",
           NEW t \in Time, x.now <= t, NEW courses, NEW catalogs,
           Lone(x) => Finished(x, x.arg.left, courses, catalogs)
    PROVE  /\ \A list, below : Right(NextCatalog(x), t, list, below)
           /\ Solo(NextCatalog(x), courses, catalogs)
           /\ Lone(NextCatalog(x)) => Lone(x)
<1> DEFINE c == First(x.arg.left)
           y == [x EXCEPT !.pc = "list", !.c = c, !.listed = {}, !.unseen = {}, !.got = None,
                          !.arg.left = @ \ {c}]
           b == [x.arg EXCEPT !.left = @ \ {c}]
<1>1. CASE x.arg.left = {}
  <2>1. NextCatalog(x) = Idle
    BY <1>1 DEF NextCatalog
  <2> QED
    BY <2>1, IdleRight DEF Solo
<1>2. CASE x.arg.left # {}
  <2>1. NextCatalog(x) = y
    BY <1>2 DEF NextCatalog
  <2>2. Cataloguing(x) /\ Announced(x.arg) /\ DOMAIN x = Fields /\ x.now \in Time
    BY DEF Shape, Cataloguing
  <2>3. c \in x.arg.left /\ c \in There(x.arg) /\ c \in Courses
    <3>1. x.arg.left \subseteq Courses /\ x.arg.left \subseteq There(x.arg)
      BY <2>2 DEF Announced, There
    <3>2. c \in x.arg.left
      BY <1>2, <3>1, FirstCourse
    <3> QED
      BY <3>1, <3>2
  <2>4. DOMAIN x.arg = {"listed", "sizes", "left", "alone"}
    BY <2>2 DEF Announced
  <2> HIDE DEF c
  <2>5. /\ DOMAIN b = {"listed", "sizes", "left", "alone"}
        /\ b.listed = x.arg.listed /\ b.sizes = x.arg.sizes /\ b.alone = x.arg.alone
        /\ b.left = x.arg.left \ {c}
    BY <2>4
  <2>6. /\ DOMAIN y = Fields
        /\ y.kind = x.kind /\ y.pc = "list" /\ y.c = c /\ y.arg = b /\ y.now = x.now
    BY <2>2 DEF Fields
  <2> HIDE DEF y, b
  <2>7. There(y.arg) = There(x.arg)
    BY <2>5, <2>6 DEF There
  <2>8. Cataloguing(y)
    <3>1. Announced(y.arg)
      BY <2>2, <2>5, <2>6, <2>7 DEF Announced
    <3>2. y.c \in There(y.arg) \ y.arg.left
      BY <2>3, <2>5, <2>6, <2>7
    <3> QED
      BY <2>6, <3>1, <3>2 DEF Cataloguing
  <2>9. Shape(y)
    BY <2>2, <2>3, <2>6, <2>8 DEF Shape
  <2>10. \A list, below : Right(y, t, list, below)
    BY <2>6, <2>9 DEF Right, Watched, Counted
  <2>11. Lone(y) => Lone(x)
    BY <2>5, <2>6 DEF Lone
  <2>12. Solo(y, courses, catalogs)
    <3> SUFFICES ASSUME Lone(y) PROVE Solo(y, courses, catalogs)
      BY DEF Solo
    <3>1. Finished(x, x.arg.left, courses, catalogs)
      BY <2>11
    <3>2. \A d \in Courses : courses[d] \in {y.arg.listed[d], None}
      BY <2>5, <2>6, <3>1 DEF Finished
    <3>3. ASSUME NEW d \in Courses, catalogs[d] # None
          PROVE  /\ catalogs[d].updated <= y.now
                 /\ d \in There(y.arg) \ (y.arg.left \union {y.c}) => AsAnnounced(catalogs[d], y.arg, d)
      <4>1. catalogs[d].updated <= x.now
        BY <3>1, <3>3 DEF Finished
      <4>2. d \in There(x.arg) \ x.arg.left => AsAnnounced(catalogs[d], x.arg, d)
        BY <3>1, <3>3 DEF Finished
      <4>3. d \in There(y.arg) \ (y.arg.left \union {y.c}) => d \in There(x.arg) \ x.arg.left
        BY <2>5, <2>6, <2>7
      <4> QED
        BY <2>5, <2>6, <4>1, <4>2, <4>3 DEF AsAnnounced
    <3> QED
      BY <2>6, <3>2, <3>3 DEF Solo
  <2> QED
    BY <2>1, <2>10, <2>11, <2>12
<1> QED
  BY <1>1, <1>2

LEMMA StampInv ==
    ASSUME Inv, NEW k \in Calls, Stamp(k)
    PROVE  Inv'
<1> DEFINE x == call[k]
           c == First(x.arg.left)
           y == [x EXCEPT !.pc = "list", !.now = clock, !.c = c, !.arg.left = @ \ {c}]
           b == [x.arg EXCEPT !.left = @ \ {c}]
<1>1. /\ x.kind = "discover" /\ x.pc = "stamp"
      /\ Become(k, y)
      /\ UNCHANGED <<course, dates, catalog, rest, clock, mix, settled>>
  BY DEF Stamp, At
<1>2. Shape(x) /\ DOMAIN x = Fields /\ Solo(x, course, catalog)
  BY CallOf
<1>3. /\ Announced(x.arg)
      /\ x.arg.left # {} /\ x.arg.left = There(x.arg)
  BY <1>1, <1>2 DEF Shape, Cataloguing
<1>4. c \in There(x.arg) /\ c \in Courses
  <2>1. There(x.arg) \subseteq Courses
    BY DEF There
  <2> QED
    BY <1>3, <2>1, FirstCourse
<1>5. DOMAIN x.arg = {"listed", "sizes", "left", "alone"}
  BY <1>3 DEF Announced
<1>6. clock \in Time /\ clock <= clock
  BY Numbers DEF Inv, Typed
<1> HIDE DEF c, x
<1>7. /\ DOMAIN b = {"listed", "sizes", "left", "alone"}
      /\ b.listed = x.arg.listed /\ b.sizes = x.arg.sizes /\ b.alone = x.arg.alone
      /\ b.left = x.arg.left \ {c}
  BY <1>5
<1>8. /\ DOMAIN y = Fields
      /\ y.kind = x.kind /\ y.pc = "list" /\ y.c = c /\ y.arg = b /\ y.now = clock
  BY <1>2 DEF Fields
<1> HIDE DEF y, b
<1>9. There(y.arg) = There(x.arg)
  BY <1>7, <1>8 DEF There
<1>10. Cataloguing(y)
  <2>1. Announced(y.arg)
    BY <1>3, <1>7, <1>8, <1>9 DEF Announced
  <2>2. y.c \in There(y.arg) \ y.arg.left
    BY <1>4, <1>7, <1>8, <1>9
  <2> QED
    BY <1>8, <2>1, <2>2 DEF Cataloguing
<1>11. Shape(y)
  BY <1>1, <1>4, <1>6, <1>8, <1>10 DEF Shape
<1>12. Right(y, clock, dates[y.c], Below(y.c))
  BY <1>1, <1>6, <1>8, <1>11 DEF Right, Watched, Counted
<1>13. Lone(y) => Lone(x)
  BY <1>7, <1>8 DEF Lone
<1>14. Solo(y, course, catalog)
  <2> SUFFICES ASSUME Lone(y) PROVE Solo(y, course, catalog)
    BY DEF Solo
  <2>1. \A d \in Courses : course[d] \in {y.arg.listed[d], None}
    BY <1>2, <1>7, <1>8, <1>13 DEF Solo
  <2>2. \A d \in Courses : catalog[d] # None => catalog[d].updated <= y.now
    BY <1>8 DEF Inv, CatalogsPast
  <2>3. There(y.arg) \ (y.arg.left \union {y.c}) = {}
    BY <1>3, <1>7, <1>8, <1>9
  <2> QED
    BY <1>8, <2>1, <2>2, <2>3 DEF Solo
<1>15. Follows(k, y)
  BY <1>1, <1>8, <1>12, <1>13, <1>14 DEF Follows, x
<1> QED
  BY <1>1, <1>15, LocalGoesOn

LEMMA CatalogOfTyped ==
    ASSUME NEW x, Announced(x.arg), x.c \in There(x.arg), x.now \in Time, NEW created \in Time
    PROVE  LET d == CatalogOf(x, created) IN
           /\ d \in CatalogDoc /\ d # None /\ SameCatalog(d, x)
           /\ d.updated = x.now /\ d.created = created
<1> DEFINE d == CatalogOf(x, created)
           term == x.arg.listed[x.c]
           size == x.arg.sizes[x.c]
<1>1. term \in Terms
  BY DEF Announced, Roll, There
<1>2. size \in 0..MaxCandidates
  BY FoundAssumption DEF Announced, There
<1>3. d = [term |-> term, size |-> size, created |-> created, updated |-> x.now]
  BY DEF CatalogOf
<1>4. d.term = term /\ d.size = size /\ d.updated = x.now /\ d.created = created
  BY <1>3
<1> HIDE DEF term, size
<1>5. d \in CatalogDoc
  BY <1>1, <1>2, <1>3 DEF CatalogDoc
<1>6. d # None
  BY <1>5, NoneAssumption
<1>7. SameCatalog(d, x)
  BY <1>4, <1>6 DEF SameCatalog, term, size
<1> QED
  BY <1>4, <1>5, <1>6, <1>7

LEMMA DiscoverAt ==
    ASSUME Inv, NEW k \in Calls, call[k].kind = "discover", call[k].pc # "stamp"
    PROVE  LET x == call[k] IN
           /\ Shape(x) /\ DOMAIN x = Fields /\ x.now <= clock /\ x.now \in Time
           /\ Announced(x.arg)
           /\ x.c \in There(x.arg) \ x.arg.left /\ x.c \in Courses
           /\ Lone(x) => Finished(x, x.arg.left \union {x.c}, course, catalog)
<1> DEFINE x == call[k]
<1>1. Shape(x) /\ DOMAIN x = Fields /\ x.now <= clock /\ Solo(x, course, catalog)
  BY CallOf
<1>2. x.now \in Time /\ Announced(x.arg) /\ x.c \in There(x.arg) \ x.arg.left
  BY <1>1 DEF Shape, Cataloguing
<1>3. Lone(x) => Finished(x, x.arg.left \union {x.c}, course, catalog)
  BY <1>1 DEF Solo, Finished
<1>4. x.c \in Courses
  BY <1>2 DEF There
<1> HIDE DEF x
<1> QED
  BY <1>1, <1>2, <1>3, <1>4 DEF x

LEMMA ListCatalogInv ==
    ASSUME Inv, NEW k \in Calls, ListCatalog(k)
    PROVE  Inv'
<1> DEFINE x == call[k]
           d == catalog[x.c]
           got == CatalogOf(x, Since(d, x.now))
           y == [x EXCEPT !.pc = "write", !.listed = {"materialCatalog"}, !.got = got]
<1>1. /\ x.kind = "discover" /\ x.pc = "list"
      /\ UNCHANGED <<course, dates, catalog, rest, clock, mix>>
  BY DEF ListCatalog, At
<1>2. /\ Shape(x) /\ DOMAIN x = Fields /\ x.now <= clock /\ x.now \in Time
      /\ Announced(x.arg)
      /\ x.c \in There(x.arg) \ x.arg.left /\ x.c \in Courses
      /\ Lone(x) => Finished(x, x.arg.left \union {x.c}, course, catalog)
  BY <1>1, DiscoverAt
<1>3. clock \in Time /\ course \in Roll /\ catalog \in [Courses -> Catalogs]
      /\ settled \in BOOLEAN /\ (settled => CanList)
  BY DEF Inv, Typed, CatalogListable
<1>4. CASE SameCatalog(d, x)
  <2>1. Become(k, NextCatalog(x)) /\ settled' = (settled \/ Settles(x))
    BY <1>4 DEF ListCatalog
  <2>2. AsAnnounced(catalog[x.c], x.arg, x.c)
    BY <1>4 DEF SameCatalog, AsAnnounced
  <2> HIDE DEF x
  <2>3. Lone(x) => Finished(x, x.arg.left, course, catalog)
    BY <1>2, <2>2 DEF Finished
  <2>4. /\ Right(NextCatalog(x), clock, dates[NextCatalog(x).c], Below(NextCatalog(x).c))
        /\ Solo(NextCatalog(x), course, catalog)
        /\ Lone(NextCatalog(x)) => Lone(x)
    BY <1>1, <1>2, <1>3, <2>3, NextCatalogRight
  <2>5. Follows(k, NextCatalog(x))
    BY <1>1, <2>4 DEF Follows, x
  <2>6. Settles(x) => CanList
    <3> SUFFICES ASSUME Settles(x) PROVE CanList
      OBVIOUS
    <3>1. x.arg.left = {} /\ Lone(x)
      BY <1>1 DEF Settles, Lone
    <3>2. Finished(x, {}, course, catalog)
      BY <2>3, <3>1
    <3>3. /\ \A c \in Courses : course[c] \in {x.arg.listed[c], None}
          /\ \A c \in There(x.arg) : catalog[c] # None => AsAnnounced(catalog[c], x.arg, c)
      BY <3>2 DEF Finished, There
    <3> QED
      BY <1>2, <3>3, AnnouncedListable, CanListIs
  <2>7. Settles(x) \in BOOLEAN
    BY <1>2 DEF Settles, Announced
  <2> QED
    BY <1>1, <1>3, <2>1, <2>5, <2>6, <2>7, LocalStep
<1>5. CASE ~SameCatalog(d, x)
  <2>1. Become(k, y) /\ settled' = settled
    BY <1>5 DEF ListCatalog
  <2>2. d \in Catalogs
    BY <1>2, <1>3
  <2>3. Since(d, x.now) \in Time /\ (d # None => Since(d, x.now) = d.created)
    BY <1>2, <2>2, CatalogTyped DEF Since, Catalogs
  <2> HIDE DEF x
  <2>4. /\ got \in CatalogDoc /\ got # None /\ SameCatalog(got, x)
        /\ got.updated = x.now /\ got.created = Since(d, x.now)
    BY <1>2, <2>3, CatalogOfTyped
  <2> HIDE DEF got
  <2>5. /\ DOMAIN y = Fields
        /\ y.kind = x.kind /\ y.pc = "write" /\ y.c = x.c /\ y.arg = x.arg /\ y.now = x.now
        /\ y.listed = {"materialCatalog"} /\ y.got = got
    BY <1>2 DEF Fields
  <2> HIDE DEF y
  <2>6. SameCatalog(y.got, y)
    BY <2>4, <2>5 DEF SameCatalog
  <2>7. Cataloguing(y)
    BY <1>2, <2>4, <2>5, <2>6 DEF Cataloguing
  <2>8. Shape(y)
    BY <1>1, <1>2, <2>5, <2>7 DEF Shape
  <2>9. Right(y, clock, dates[y.c], Below(y.c))
    BY <1>1, <1>2, <2>5, <2>8 DEF Right, Watched, Counted
  <2>10. Lone(y) => Lone(x)
    BY <2>5 DEF Lone
  <2>11. Solo(y, course, catalog)
    <3> SUFFICES ASSUME Lone(y) PROVE Solo(y, course, catalog)
      BY DEF Solo
    <3>1. Finished(x, x.arg.left \union {x.c}, course, catalog)
      BY <1>2, <2>10
    <3>2. catalog[x.c] # None => catalog[x.c].created = y.got.created
      BY <2>3, <2>4, <2>5
    <3> QED
      BY <2>5, <3>1, <3>2 DEF Solo, Finished
  <2>12. Follows(k, y)
    BY <1>1, <2>5, <2>9, <2>10, <2>11 DEF Follows, x
  <2> QED
    BY <1>1, <2>1, <2>12, LocalGoesOn
<1> QED
  BY <1>4, <1>5

LEMMA WriteCatalogInv ==
    ASSUME Inv, NEW k \in Calls, WriteCatalog(k)
    PROVE  Inv'
<1> DEFINE x == call[k]
           y == NextCatalog(x)
           keys == {<<"materialCatalog", None>>}
<1>1. /\ x.kind = "discover" /\ x.pc = "write"
      /\ UNCHANGED <<course, dates, rest, clock, mix>>
  BY DEF WriteCatalog, At
<1>2. /\ Shape(x) /\ DOMAIN x = Fields /\ x.now <= clock /\ x.now \in Time
      /\ Announced(x.arg)
      /\ x.c \in There(x.arg) \ x.arg.left /\ x.c \in Courses
      /\ Lone(x) => Finished(x, x.arg.left \union {x.c}, course, catalog)
  BY <1>1, DiscoverAt
<1>3. clock \in Time /\ catalog \in [Courses -> Catalogs]
  BY DEF Inv, Typed
<1>4. x.got \in CatalogDoc /\ SameCatalog(x.got, x) /\ x.got.updated = x.now
  BY <1>1, <1>2 DEF Shape, Cataloguing
<1>5. CASE ~Allowed(x.c, catalog[x.c], x.got)
  <2>1. Become(k, Idle) /\ UNCHANGED <<course, dates, catalog, rest, clock, mix, settled>>
    BY <1>1, <1>5 DEF WriteCatalog
  <2> QED
    BY <2>1, IdleGoesOn
<1>6. CASE Allowed(x.c, catalog[x.c], x.got)
  <2>1. /\ catalog' = [catalog EXCEPT ![x.c] = x.got]
        /\ Wrote(k, y, keys)
        /\ settled' = Settles(x)
    BY <1>6 DEF WriteCatalog
  <2>2. /\ DOMAIN call' = Calls /\ call'[k] = y
        /\ \A j \in Calls \ {k} :
             /\ Similar(call[j], call'[j])
             /\ call[j].c = x.c => \A d \in keys : d[1] \in call[j].listed => d \in call'[j].unseen
    BY <1>2, <2>1, WroteSimilar
  <2> HIDE DEF x, y
  <2>3. /\ catalog' \in [Courses -> Catalogs] /\ catalog'[x.c] = x.got
        /\ \A c \in Courses \ {x.c} : catalog'[c] = catalog[c]
    BY <1>2, <1>3, <1>4, <2>1 DEF Catalogs
  <2>4. Lone(x) => Finished(x, x.arg.left, course, catalog')
    <3> SUFFICES ASSUME Lone(x) PROVE Finished(x, x.arg.left, course, catalog')
      OBVIOUS
    <3>1. Finished(x, x.arg.left \union {x.c}, course, catalog)
      BY <1>2
    <3>2. AsAnnounced(x.got, x.arg, x.c)
      BY <1>4 DEF SameCatalog, AsAnnounced
    <3>3. x.got.updated <= x.now
      <4>1. x.now \in Nat
        BY <1>2, Numbers
      <4>2. x.now <= x.now
        BY <4>1
      <4> QED
        BY <1>4, <4>2
    <3>4. ASSUME NEW c \in Courses, catalog'[c] # None
          PROVE  /\ catalog'[c].updated <= x.now
                 /\ c \in There(x.arg) \ x.arg.left => AsAnnounced(catalog'[c], x.arg, c)
      <4>1. CASE c = x.c
        BY <2>3, <3>2, <3>3, <4>1
      <4>2. CASE c # x.c
        BY <2>3, <3>1, <3>4, <4>2 DEF Finished
      <4> QED
        BY <4>1, <4>2
    <3> QED
      BY <3>1, <3>4 DEF Finished
  <2>5. /\ \A list, below : Right(y, clock, list, below)
        /\ Solo(y, course, catalog')
        /\ Lone(y) => Lone(x)
    BY <1>1, <1>2, <1>3, <2>4, NextCatalogRight DEF y
  <2>6. CallsRight'
    <3>1. ASSUME NEW j \in Calls \ {k} PROVE DatesMissed(j) /\ BelowMissed(j)
      <4>1. DatesMissed(j)
        BY <1>1 DEF DatesMissed
      <4>2. BelowMissed(j)
        <5> SUFFICES ASSUME call[j].c \in Courses, NEW d \in Below(call[j].c)'
                     PROVE  \/ d \in Below(call[j].c)
                            \/ d[1] \notin call[j].listed
                            \/ d \in call'[j].unseen
          BY DEF BelowMissed
        <5>1. call'[j].c = call[j].c
          BY <2>2 DEF Similar
        <5>2. \/ d \in Below(call[j].c)
              \/ d = <<"materialCatalog", None>> /\ catalog'[call[j].c] # None /\ catalog[call[j].c] = None
          BY <1>1, <5>1 DEF Below
        <5>3. CASE d = <<"materialCatalog", None>> /\ catalog'[call[j].c] # None /\ catalog[call[j].c] = None
          <6>1. call[j].c = x.c
            BY <2>3, <5>3
          <6> QED
            BY <2>2, <5>3, <6>1
        <5> QED
          BY <5>2, <5>3
      <4> QED
        BY <4>1, <4>2
    <3>2. clock' \in Time /\ clock <= clock'
      BY <1>1, <1>3, Numbers
    <3>3. Right(call[k], clock, dates[call[k].c], Below(call[k].c))'
      BY <1>1, <2>2, <2>5
    <3> QED
      BY <2>2, <3>1, <3>2, <3>3, RightStep
  <2>7. OneAlone'
    BY <1>1, <2>2, <2>5, OneAloneStep DEF x
  <2>8. CallsSolo'
    <3>1. ASSUME NEW j \in Calls \ {k} PROVE ~Lone(call'[j])
      <4>1. ~Lone(call[j])
        BY <1>1 DEF Inv, OneAlone, x
      <4> QED
        BY <2>2, <4>1 DEF Lone, Similar
    <3>2. ASSUME NEW j \in Calls PROVE Solo(call[j], course, catalog)'
      <4>1. CASE j = k
        BY <1>1, <2>2, <2>5, <4>1
      <4>2. CASE j # k
        BY <3>1, <4>2 DEF Solo
      <4> QED
        BY <4>1, <4>2
    <3> QED
      BY <3>2 DEF CallsSolo
  <2>9. settled' => CanList'
    <3> SUFFICES ASSUME Settles(x) PROVE CanList'
      BY <2>1
    <3>1. x.arg.left = {} /\ Lone(x)
      BY <1>1 DEF Settles, Lone
    <3>2. Finished(x, {}, course, catalog')
      BY <2>4, <3>1
    <3>3. /\ \A c \in Courses : course[c] \in {x.arg.listed[c], None}
          /\ \A c \in There(x.arg) : catalog'[c] # None => AsAnnounced(catalog'[c], x.arg, c)
      BY <3>2 DEF Finished, There
    <3>4. CanListOf(course, catalog')
      BY <1>2, <3>3, AnnouncedListable
    <3>5. CanList' = CanListOf(course', catalog')
      BY DEF CanList, CanListOf, Shown, Sizes, Exists
    <3> QED
      BY <1>1, <3>4, <3>5
  <2>10. Typed'
    <3>1. settled' \in BOOLEAN
      BY <1>2, <2>1 DEF Settles, Announced
    <3> QED
      BY <1>1, <2>2, <2>3, <3>1 DEF Inv, Typed
  <2>11. DatesPast'
    BY <1>1 DEF Inv, DatesPast, Past
  <2>12. CatalogsPast'
    <3>1. x.got.updated <= clock
      BY <1>2, <1>4
    <3> QED
      BY <1>1, <2>3, <3>1 DEF Inv, CatalogsPast
  <2> QED
    BY <2>6, <2>7, <2>8, <2>9, <2>10, <2>11, <2>12 DEF Inv, CatalogListable
<1> QED
  BY <1>5, <1>6

-----------------------------------------------------------------------------
(* The writes of dates. *)

LEMMA WriteSaveInv ==
    ASSUME Inv, NEW k \in Calls, WriteSave(k)
    PROVE  Inv'
<1> DEFINE x == call[k]
           i == x.arg.id
           new == [dates[x.c] EXCEPT ![i] = x.got]
<1>1. /\ x.kind = "save" /\ x.pc = "write"
      /\ UNCHANGED <<course, catalog, rest, clock, mix, settled>>
  BY DEF WriteSave, At
<1>2. Shape(x) /\ x.now <= clock
  BY CallOf
<1>3. /\ x.c \in Courses /\ i \in Ids
      /\ x.got \in DateDoc /\ x.got.updated = x.now
  BY <1>1, <1>2 DEF Shape, Saving
<1>4. CASE ~Allowed(x.c, dates[x.c][i], x.got)
  <2>1. Become(k, Idle) /\ UNCHANGED dates
    BY <1>4 DEF WriteSave
  <2> QED
    BY <1>1, <2>1, IdleGoesOn
<1>5. CASE Allowed(x.c, dates[x.c][i], x.got)
  <2>1. /\ dates' = [dates EXCEPT ![x.c] = new]
        /\ Wrote(k, Idle, DateKeys({i}))
    BY <1>5 DEF WriteSave
  <2>2. /\ DOMAIN call' = Calls /\ call'[k] = Idle
        /\ \A j \in Calls \ {k} :
             /\ Similar(call[j], call'[j])
             /\ call[j].c = x.c => \A d \in DateKeys({i}) : d[1] \in call[j].listed => d \in call'[j].unseen
    BY <1>3, <2>1, WroteSimilar
  <2> HIDE DEF x, i
  <2>3. dates[x.c] \in Dated /\ Past(dates[x.c], clock) /\ clock \in Time
    BY <1>3 DEF Inv, Typed, DatesPast
  <2>4. /\ new \in Dated /\ new[i] = x.got
        /\ \A n \in Ids \ {i} : new[n] = dates[x.c][n]
    BY <1>3, <2>3 DEF Dated
  <2>5. Past(new, clock)
    BY <1>2, <1>3, <2>3, <2>4 DEF Past
  <2>6. Informed(k, x.c, {i})
    <3>1. <<"academicDates", i>> \in DateKeys({i})
      BY DEF DateKeys
    <3> QED
      BY <2>2, <3>1 DEF Informed, Missed
  <2>7. /\ \A below : Right(Idle, clock, dates'[Idle.c], below)
        /\ ~Lone(Idle) /\ Idle.kind # "discover"
    BY <2>3, IdleRight
  <2>8. \A n \in Ids \ {i} : new[n] \in {dates[x.c][n], None}
    BY <2>4
  <2> HIDE DEF new
  <2>9. {i} \in SUBSET Ids
    BY <1>3
  <2> QED
    BY <1>1, <1>3, <2>1, <2>2, <2>4, <2>5, <2>6, <2>7, <2>8, <2>9, DatesStep
<1> QED
  BY <1>4, <1>5

LEMMA WriteRemoveInv ==
    ASSUME Inv, NEW k \in Calls, WriteRemove(k)
    PROVE  Inv'
<1> DEFINE x == call[k]
           i == x.arg.id
           new == [dates[x.c] EXCEPT ![i] = None]
<1>1. /\ x.kind = "remove" /\ x.pc = "write"
      /\ dates' = [dates EXCEPT ![x.c] = new]
      /\ Become(k, Idle)
      /\ UNCHANGED <<course, catalog, rest, clock, mix, settled>>
  BY DEF WriteRemove, At
<1>2. x.c \in Courses /\ i \in Ids
  BY <1>1, CallOf DEF Shape, Removing
<1>3. /\ dates[x.c] \in Dated /\ Past(dates[x.c], clock) /\ clock \in Time
      /\ DOMAIN call = Calls
  BY <1>2 DEF Inv, Typed, DatesPast
<1>4. /\ DOMAIN call' = Calls /\ call'[k] = Idle
      /\ \A j \in Calls \ {k} : call'[j] = call[j]
  BY <1>1, <1>3 DEF Become
<1>5. \A j \in Calls \ {k} : Similar(call[j], call'[j])
  BY <1>4, CallOf, SimilarItself
<1> HIDE DEF x, i
<1>6. /\ new \in Dated /\ new[i] = None
      /\ \A n \in Ids \ {i} : new[n] = dates[x.c][n]
  BY <1>2, <1>3 DEF Dated
<1>7. Past(new, clock)
  BY <1>2, <1>3, <1>6 DEF Past
<1>8. /\ \A below : Right(Idle, clock, dates'[Idle.c], below)
      /\ ~Lone(Idle) /\ Idle.kind # "discover"
  BY <1>3, IdleRight
<1>9. \A n \in Ids \ {} : new[n] \in {dates[x.c][n], None}
  BY <1>6
<1> HIDE DEF new
<1>10. Informed(k, x.c, {})
  BY <1>5 DEF Informed
<1>11. {} \in SUBSET Ids
  OBVIOUS
<1> QED
  BY <1>1, <1>2, <1>4, <1>6, <1>7, <1>8, <1>9, <1>10, <1>11, DatesStep

(* What an import listed, and what one document becomes of it.             *)
LEMMA ImportAt ==
    ASSUME Inv, NEW k \in Calls, Importing(k)
    PROVE  LET x == call[k] IN
           /\ x.kind \in {"diario", "moodle"} /\ x.pc = "write"
           /\ Shape(x) /\ Listing(x) /\ x.c \in Courses /\ x.now \in Time /\ x.now <= clock
           /\ x.listed = {"academicDates"} /\ x.got \in Dated /\ Past(x.got, x.now)
           /\ DOMAIN x.arg.events \subseteq Ids
           /\ \A i \in Tracked(x) : \/ dates[x.c][i] = None \/ Missed(x, i)
                                    \/ dates[x.c][i] = x.got[i]
           /\ \A i \in DOMAIN x.arg.events :
                /\ New(x, i) \in DateDoc /\ New(x, i) # None /\ New(x, i).updated = x.now
                /\ x.got[i] # None => New(x, i).created = x.got[i].created
<1> DEFINE x == call[k]
<1>1. x.kind \in {"diario", "moodle"} /\ x.pc = "write"
  BY DEF Importing, At
<1>2. Shape(x) /\ x.now <= clock /\ Watched(x, dates[x.c])
  BY CallOf
<1> HIDE DEF x
<1>3. Listing(x) /\ x.now \in Time
  BY <1>1, <1>2 DEF Shape, Planned, Calendared
<1>4. /\ x.c \in Courses /\ x.listed = {"academicDates"} /\ x.got \in Dated /\ Past(x.got, x.now)
      /\ DOMAIN x.arg.events \subseteq Ids
      /\ \A i \in DOMAIN x.arg.events : x.arg.events[i] \in Dues
  BY <1>1, <1>3 DEF Listing
<1>5. \A i \in Tracked(x) : dates[x.c][i] = None \/ Missed(x, i) \/ dates[x.c][i] = x.got[i]
  BY <1>1, <1>2 DEF Watched
<1>6. ASSUME NEW i \in DOMAIN x.arg.events
      PROVE  /\ New(x, i) \in DateDoc /\ New(x, i) # None /\ New(x, i).updated = x.now
             /\ x.got[i] # None => New(x, i).created = x.got[i].created
  <2>1. i \in Ids /\ x.arg.events[i] \in Dues
    BY <1>4
  <2> QED
    BY <1>3, <1>4, <2>1, ImportedTyped DEF New
<1> QED
  BY <1>1, <1>2, <1>3, <1>4, <1>5, <1>6 DEF x

LEMMA PendingIs ==
    ASSUME NEW list, NEW events
    PROVE  Pending(list, events) \subseteq DOMAIN events
BY DEF Pending

LEMMA CommitInv ==
    ASSUME Inv, NEW k \in Calls, Importing(k), NEW y, NEW deletes,
           NEW writes \in SUBSET Pending(call[k].got, call[k].arg.events),
           Commit(k, y, writes, deletes),
           \A below : Right(y, clock, dates'[y.c], below),
           ~Lone(y), y.kind # "discover",
           UNCHANGED <<course, catalog, rest, clock, mix, settled>>
    PROVE  Inv'
<1> DEFINE x == call[k]
           new == [i \in Ids |-> IF i \in writes THEN New(x, i)
                                 ELSE IF i \in deletes THEN None ELSE dates[x.c][i]]
<1>1. /\ x.c \in Courses /\ x.now \in Time /\ x.now <= clock
      /\ DOMAIN x.arg.events \subseteq Ids
      /\ \A i \in DOMAIN x.arg.events : New(x, i) \in DateDoc /\ New(x, i).updated = x.now
  BY ImportAt
<1>2. writes \subseteq DOMAIN x.arg.events
  BY PendingIs
<1>3. CASE ~CommitAllowed(x, writes)
  <2>1. Become(k, y) /\ UNCHANGED dates
    BY <1>3 DEF Commit
  <2>2. Follows(k, y)
    BY <2>1, RightFollows
  <2> QED
    BY <2>1, <2>2, LocalGoesOn
<1>4. CASE CommitAllowed(x, writes)
  <2>1. /\ dates' = [dates EXCEPT ![x.c] = new]
        /\ Wrote(k, y, DateKeys(writes))
    BY <1>4 DEF Commit, Replaced
  <2>2. /\ DOMAIN call' = Calls /\ call'[k] = y
        /\ \A j \in Calls \ {k} :
             /\ Similar(call[j], call'[j])
             /\ call[j].c = x.c => \A d \in DateKeys(writes) : d[1] \in call[j].listed => d \in call'[j].unseen
    BY <1>1, <2>1, WroteSimilar
  <2> HIDE DEF x
  <2>3. dates[x.c] \in Dated /\ Past(dates[x.c], clock)
    BY <1>1 DEF Inv, Typed, DatesPast
  <2>4. new \in Dated
    BY <1>1, <1>2, <2>3 DEF Dated
  <2>5. Past(new, clock)
    <3> SUFFICES ASSUME NEW i \in Ids, new[i] # None PROVE new[i].updated <= clock
      BY DEF Past
    <3>1. CASE i \in writes
      BY <1>1, <1>2, <3>1
    <3>2. CASE i \notin writes
      BY <2>3, <3>2 DEF Past
    <3> QED
      BY <3>1, <3>2
  <2>6. Informed(k, x.c, writes)
    <3>1. \A n \in writes : <<"academicDates", n>> \in DateKeys(writes)
      BY DEF DateKeys
    <3> QED
      BY <2>2, <3>1 DEF Informed, Missed
  <2>7. \A n \in Ids \ writes : new[n] \in {dates[x.c][n], None}
    OBVIOUS
  <2>8. writes \in SUBSET Ids
    BY <1>1, <1>2
  <2> HIDE DEF new
  <2> QED
    BY <1>1, <2>1, <2>2, <2>4, <2>5, <2>6, <2>7, <2>8, DatesStep
<1> QED
  BY <1>3, <1>4

LEMMA WriteDiarioInv ==
    ASSUME Inv, NEW k \in Calls, WriteDiario(k)
    PROVE  Inv'
<1> DEFINE x == call[k]
           writes == Pending(x.got, x.arg.events)
           deletes == StaleDiario(x.got, x.arg.events, x.arg.plan)
<1>1. /\ Importing(k)
      /\ Commit(k, Idle, writes, deletes)
      /\ UNCHANGED <<course, catalog, rest, clock, mix, settled>>
  BY DEF WriteDiario, Importing
<1>2. clock \in Time
  BY DEF Inv, Typed
<1>3. /\ \A below : Right(Idle, clock, dates'[Idle.c], below)
      /\ ~Lone(Idle) /\ Idle.kind # "discover"
  BY <1>2, IdleRight
<1>4. writes \in SUBSET Pending(call[k].got, call[k].arg.events)
  OBVIOUS
<1> HIDE DEF writes, deletes
<1> QED
  BY <1>1, <1>3, <1>4, CommitInv

LEMMA WriteCompleteInv ==
    ASSUME Inv, NEW k \in Calls, WriteComplete(k)
    PROVE  Inv'
<1> DEFINE x == call[k]
           writes == Pending(x.got, x.arg.events)
           deletes == StaleMoodle(x.got, x.arg.events, x.arg.listed[x.c])
           y == Onwards(x, x.arg.left)
<1>1. /\ Importing(k) /\ x.kind = "moodle"
      /\ IF FitsBatch(writes, deletes) THEN Commit(k, y, writes, deletes)
         ELSE Become(k, y) /\ UNCHANGED dates
      /\ UNCHANGED <<course, catalog, rest, clock, mix, settled>>
  BY DEF WriteComplete, Importing, At
<1>2. clock \in Time
  BY DEF Inv, Typed
<1>3. /\ \A list, below : Right(y, clock, list, below)
      /\ Follows(k, y) /\ ~Lone(y) /\ y.kind # "discover"
  BY <1>1, <1>2, MoodleOnwards
<1>4. writes \in SUBSET Pending(call[k].got, call[k].arg.events)
  OBVIOUS
<1> HIDE DEF writes, deletes, y
<1>5. CASE FitsBatch(writes, deletes)
  BY <1>1, <1>3, <1>4, <1>5, CommitInv
<1>6. CASE ~FitsBatch(writes, deletes)
  BY <1>1, <1>3, <1>6, LocalGoesOn
<1> QED
  BY <1>5, <1>6

LEMMA WriteEventInv ==
    ASSUME Inv, NEW k \in Calls, NEW i \in MoodleIds, WriteEvent(k, i)
    PROVE  Inv'
<1> DEFINE x == call[k]
           left == Pending(x.got, x.arg.events) \ {i}
           events == [j \in left |-> x.arg.events[j]]
           z == [x EXCEPT !.arg.events = events]
           b == [x.arg EXCEPT !.events = events]
           y == IF left = {} \/ ~CommitAllowed(x, {i}) THEN Onwards(x, x.arg.left) ELSE z
<1>1. /\ Importing(k) /\ x.kind = "moodle" /\ x.pc = "write" /\ ~x.arg.complete
      /\ i \in Pending(x.got, x.arg.events)
      /\ Commit(k, y, {i}, {})
      /\ UNCHANGED <<course, catalog, rest, clock, mix, settled>>
  BY DEF WriteEvent, Importing, At
<1>2. clock \in Time /\ dates \in [Courses -> Dated]
  BY DEF Inv, Typed
<1>3. {i} \in SUBSET Pending(call[k].got, call[k].arg.events)
  BY <1>1
<1>4. CASE left = {} \/ ~CommitAllowed(x, {i})
  <2>1. y = Onwards(x, x.arg.left)
    BY <1>4
  <2>2. /\ \A list, below : Right(y, clock, list, below)
        /\ ~Lone(y) /\ y.kind # "discover"
    BY <1>1, <1>2, <2>1, MoodleOnwards
  <2> HIDE DEF y
  <2> QED
    BY <1>1, <1>3, <2>2, CommitInv
<1>5. CASE ~(left = {} \/ ~CommitAllowed(x, {i}))
  <2>1. y = z /\ CommitAllowed(x, {i})
    BY <1>5
  <2>2. dates' = Replaced(x, {i}, {})
    BY <1>1, <2>1 DEF Commit
  <2>3. /\ Shape(x) /\ Listing(x) /\ x.c \in Courses /\ x.now \in Time /\ x.now <= clock
        /\ DOMAIN x = Fields
        /\ \A j \in Tracked(x) : \/ dates[x.c][j] = None \/ Missed(x, j)
                                 \/ dates[x.c][j] = x.got[j]
    BY <1>1, ImportAt DEF Shape
  <2>4. Calendared(x) /\ Turn(x.arg)
    BY <1>1, <2>3 DEF Shape, Calendared
  <2>5. DOMAIN x.arg = {"listed", "answered", "calendar", "left", "events", "complete"}
    BY <2>4 DEF Turn
  <2>6. left \subseteq DOMAIN x.arg.events /\ i \notin left
    BY PendingIs
  <2>7. DOMAIN events = left /\ \A j \in left : events[j] = x.arg.events[j]
    OBVIOUS
  <2> HIDE DEF x, left, events
  <2>8. /\ DOMAIN b = {"listed", "answered", "calendar", "left", "events", "complete"}
        /\ b.listed = x.arg.listed /\ b.answered = x.arg.answered /\ b.calendar = x.arg.calendar
        /\ b.left = x.arg.left /\ b.complete = x.arg.complete /\ b.events = events
    BY <2>5
  <2>9. /\ DOMAIN z = Fields
        /\ z.kind = x.kind /\ z.pc = x.pc /\ z.c = x.c /\ z.now = x.now /\ z.arg = b
        /\ z.listed = x.listed /\ z.got = x.got /\ z.unseen = x.unseen
    BY <2>3 DEF Fields
  <2> HIDE DEF z, b
  <2>10. Turn(z.arg)
    BY <2>4, <2>8, <2>9 DEF Turn
  <2>11. Listing(z)
    BY <2>3, <2>6, <2>7, <2>8, <2>9 DEF Listing
  <2>12. Calendared(z)
    BY <1>1, <2>4, <2>6, <2>7, <2>8, <2>9, <2>10, <2>11 DEF Calendared
  <2>13. Shape(z)
    BY <1>1, <2>3, <2>9, <2>12 DEF Shape
  <2>14. Watched(z, dates'[z.c])
    <3>1. Tracked(x) = DOMAIN x.arg.events /\ Tracked(z) = left
      BY <1>1, <2>7, <2>8, <2>9 DEF Tracked, x
    <3>2. DOMAIN x.arg.events \subseteq Ids
      BY <2>3 DEF Listing
    <3>3. ASSUME NEW j \in left PROVE dates'[x.c][j] = dates[x.c][j]
      <4>1. j \in Ids /\ j # i
        BY <2>6, <3>2
      <4> QED
        BY <1>2, <2>2, <2>3, <4>1 DEF Replaced
    <3>4. \A j \in Tracked(z) : \/ dates'[z.c][j] = None \/ Missed(z, j)
                                \/ dates'[z.c][j] = z.got[j]
      BY <2>3, <2>6, <2>9, <3>1, <3>3 DEF Missed
    <3> QED
      BY <1>1, <2>9, <3>4 DEF Watched, x
  <2>15. /\ \A below : Right(z, clock, dates'[z.c], below)
         /\ ~Lone(z) /\ z.kind # "discover"
    BY <1>1, <2>3, <2>9, <2>13, <2>14 DEF Right, Counted, Lone, x
  <2> HIDE DEF y
  <2> QED
    BY <1>1, <1>3, <2>1, <2>15, CommitInv
<1> QED
  BY <1>4, <1>5

-----------------------------------------------------------------------------
(* Steps that every call may notice. *)

LEMMA EveryoneElse ==
    ASSUME Inv, \A j \in Calls : Similar(call[j], call'[j]),
           DOMAIN call' = Calls, clock' \in Time, clock <= clock',
           \A j \in Calls : DatesMissed(j) /\ BelowMissed(j),
           \A c \in Courses : course'[c] \in {course[c], None},
           \A c \in Courses : catalog'[c] \in {catalog[c], None}
    PROVE  CallsRight' /\ OneAlone' /\ CallsSolo'
<1>1. CallsRight'
  BY OtherRight DEF CallsRight
<1>2. OneAlone'
  <2>1. ASSUME NEW j \in Calls
        PROVE  /\ Lone(call'[j]) => Lone(call[j])
               /\ call'[j].kind = call[j].kind
    BY DEF Lone, Similar
  <2>2. \A i, j \in Calls : Lone(call[i]) /\ call[j].kind = "discover" => j = i
    BY DEF Inv, OneAlone
  <2> QED
    BY <2>1, <2>2 DEF OneAlone
<1>3. CallsSolo'
  <2>1. ASSUME NEW j \in Calls PROVE Solo(call[j], course, catalog)'
    BY CallOf, SoloKept
  <2> QED
    BY <2>1 DEF CallsSolo
<1> QED
  BY <1>1, <1>2, <1>3

LEMMA TickInv ==
    ASSUME Inv, Tick
    PROVE  Inv'
<1>1. /\ clock < MaxTime /\ clock' = clock + 1
      /\ UNCHANGED <<course, dates, catalog, rest, call, mix, settled>>
  BY DEF Tick
<1>2. clock \in Time /\ clock' \in Time /\ clock <= clock'
  <2>1. clock \in Time
    BY DEF Inv, Typed
  <2>2. clock \in 0..MaxTime /\ MaxTime \in Nat
    BY <2>1, Numbers DEF Time
  <2>3. clock + 1 \in 0..MaxTime /\ clock <= clock + 1
    BY <1>1, <2>2
  <2> QED
    BY <1>1, <2>1, <2>3 DEF Time
<1>3. \A j \in Calls : Similar(call[j], call'[j])
  BY <1>1, CallOf, SimilarItself
<1>4. ASSUME NEW j \in Calls PROVE DatesMissed(j) /\ BelowMissed(j)
  <2>1. Below(call[j].c)' = Below(call[j].c)
    BY <1>1 DEF Below
  <2> QED
    BY <1>1, <2>1 DEF DatesMissed, BelowMissed
<1>5. DOMAIN call' = Calls
  BY <1>1 DEF Inv, Typed
<1>6. CallsRight' /\ OneAlone' /\ CallsSolo'
  BY <1>1, <1>2, <1>3, <1>4, <1>5, EveryoneElse
<1>7. Typed'
  BY <1>1, <1>2 DEF Inv, Typed
<1>8. DatesPast'
  <2> SUFFICES ASSUME NEW c \in Courses, NEW i \in Ids, dates[c][i] # None
               PROVE  dates[c][i].updated <= clock'
    BY <1>1 DEF DatesPast, Past
  <2>1. dates[c][i].updated <= clock
    BY DEF Inv, DatesPast, Past
  <2>2. dates[c][i].updated \in Time
    <3>1. dates[c][i] \in DateDoc
      BY DEF Inv, Typed, Dated
    <3> QED
      BY <3>1, DateDocTyped
  <2>3. dates[c][i].updated \in Nat /\ clock \in Nat /\ clock' \in Nat
    BY <1>2, <2>2, Numbers
  <2> QED
    BY <1>2, <2>1, <2>3
<1>9. CatalogsPast'
  <2> SUFFICES ASSUME NEW c \in Courses, catalog[c] # None
               PROVE  catalog[c].updated <= clock'
    BY <1>1 DEF CatalogsPast
  <2>1. catalog[c].updated <= clock
    BY DEF Inv, CatalogsPast
  <2>2. catalog[c].updated \in Time
    <3>1. catalog[c] \in CatalogDoc
      BY DEF Inv, Typed, Catalogs
    <3> QED
      BY <3>1, CatalogTyped
  <2>3. catalog[c].updated \in Nat /\ clock \in Nat /\ clock' \in Nat
    BY <1>2, <2>2, Numbers
  <2> QED
    BY <1>2, <2>1, <2>3
<1>10. CatalogListable'
  BY <1>1 DEF Inv, CatalogListable, CanList, Exists
<1> QED
  BY <1>6, <1>7, <1>8, <1>9, <1>10 DEF Inv

LEMMA StoreOtherInv ==
    ASSUME Inv, NEW c \in Courses, NEW x \in Other, StoreOther(c, x)
    PROVE  Inv'
<1> DEFINE keys == {<<x, None>>}
<1>1. /\ rest' = [rest EXCEPT ![c] = @ \union {x}]
      /\ call' = Unseen(c, keys)
      /\ UNCHANGED <<course, dates, catalog, clock, mix, settled>>
  BY DEF StoreOther
<1>2. /\ rest \in [Courses -> SUBSET Other] /\ clock \in Time
      /\ course \in Roll
  BY DEF Inv, Typed
<1>3. /\ rest' \in [Courses -> SUBSET Other] /\ rest'[c] = rest[c] \union {x}
      /\ \A b \in Courses \ {c} : rest'[b] = rest[b]
  BY <1>1, <1>2
<1>4. /\ \A j \in Calls : Similar(call[j], call'[j])
      /\ \A j \in Calls : call[j].c = c => \A d \in keys : d[1] \in call[j].listed => d \in call'[j].unseen
  BY <1>1, UnseenSimilar
<1>5. DOMAIN call' = Calls
  BY <1>1 DEF Unseen
<1>6. ASSUME NEW j \in Calls PROVE DatesMissed(j) /\ BelowMissed(j)
  <2>1. DatesMissed(j)
    BY <1>1 DEF DatesMissed
  <2>2. BelowMissed(j)
    <3> SUFFICES ASSUME call[j].c \in Courses, NEW d \in Below(call[j].c)'
                 PROVE  \/ d \in Below(call[j].c)
                        \/ d[1] \notin call[j].listed
                        \/ d \in call'[j].unseen
      BY DEF BelowMissed
    <3>1. call'[j].c = call[j].c
      BY <1>4 DEF Similar
    <3>2. d \in Below(call[j].c) \/ d \in {<<o, None>> : o \in rest'[call[j].c]}
      BY <1>1, <3>1 DEF Below
    <3>3. CASE d \in {<<o, None>> : o \in rest'[call[j].c]}
      <4>1. PICK o \in rest'[call[j].c] : d = <<o, None>>
        BY <3>3
      <4>2. CASE o \in rest[call[j].c]
        BY <4>1, <4>2 DEF Below
      <4>3. CASE o \notin rest[call[j].c]
        <5>1. call[j].c = c /\ o = x
          BY <1>3, <4>1, <4>3
        <5> QED
          BY <1>4, <4>1, <5>1
      <4> QED
        BY <4>2, <4>3
    <3> QED
      BY <3>2, <3>3
  <2> QED
    BY <2>1, <2>2
<1>7. clock' \in Time /\ clock <= clock'
  BY <1>1, <1>2, Numbers
<1>8. CallsRight' /\ OneAlone' /\ CallsSolo'
  BY <1>1, <1>4, <1>5, <1>6, <1>7, EveryoneElse
<1>9. Typed'
  BY <1>1, <1>3, <1>5 DEF Inv, Typed
<1>10. DatesPast' /\ CatalogsPast' /\ CatalogListable'
  BY <1>1 DEF Inv, DatesPast, Past, CatalogsPast, CatalogListable, CanList, Exists
<1> QED
  BY <1>8, <1>9, <1>10 DEF Inv

(* What a deletion takes away. *)
LEMMA DeleteAt ==
    ASSUME Inv, NEW k \in Calls, WriteDelete(k)
    PROVE  LET x == call[k] IN
           /\ x.kind = "delete" /\ x.pc = "write" /\ x.c \in Courses
           /\ \A d \in Below(x.c) : d[1] \in x.listed => d \in x.got \union x.unseen
           /\ \A n \in ToList : Collections[n] \in x.listed
<1>1. call[k].kind = "delete" /\ call[k].pc = "write"
  BY DEF WriteDelete, At
<1>2. Shape(call[k]) /\ Counted(call[k], Below(call[k].c))
  BY CallOf
<1> QED
  BY <1>1, <1>2 DEF Shape, Deleting, Counted

Deleted(x) ==
    /\ course' \in Roll /\ dates' \in [Courses -> Dated]
    /\ catalog' \in [Courses -> Catalogs] /\ rest' \in [Courses -> SUBSET Other]
    /\ \A c \in Courses \ {x.c} : /\ course'[c] = course[c] /\ dates'[c] = dates[c]
                                  /\ catalog'[c] = catalog[c] /\ rest'[c] = rest[c]
    /\ course'[x.c] = None
    /\ \A i \in Ids : dates'[x.c][i] = IF <<"academicDates", i>> \in x.got THEN None ELSE dates[x.c][i]
    /\ catalog'[x.c] = IF <<"materialCatalog", None>> \in x.got THEN None ELSE catalog[x.c]
    /\ rest'[x.c] = {o \in rest[x.c] : <<o, None>> \notin x.got}

LEMMA DeleteTakes ==
    ASSUME Inv, NEW k \in Calls, WriteDelete(k)
    PROVE  /\ Become(k, Idle) /\ UNCHANGED <<clock, mix, settled>>
           /\ UNCHANGED <<course, dates, catalog, rest>> \/ Deleted(call[k])
<1> DEFINE x == call[k]
           new == [i \in Ids |-> IF DateKeys({i}) \subseteq x.got THEN None ELSE dates[x.c][i]]
<1>1. Become(k, Idle) /\ UNCHANGED <<clock, mix, settled>>
  BY DEF WriteDelete
<1>2. /\ course \in Roll /\ dates \in [Courses -> Dated]
      /\ catalog \in [Courses -> Catalogs] /\ rest \in [Courses -> SUBSET Other]
      /\ x.c \in Courses
  BY DeleteAt DEF Inv, Typed
<1>3. CASE Cardinality(x.got) + 1 <= MaxBatch
  <2>1. /\ course' = [course EXCEPT ![x.c] = None]
        /\ dates' = [dates EXCEPT ![x.c] = new]
        /\ catalog' = [catalog EXCEPT ![x.c] =
                         IF <<"materialCatalog", None>> \in x.got THEN None ELSE @]
        /\ rest' = [rest EXCEPT ![x.c] = {o \in @ : <<o, None>> \notin x.got}]
    BY <1>3 DEF WriteDelete
  <2> HIDE DEF x
  <2>2. /\ course' \in Roll /\ course'[x.c] = None
        /\ \A c \in Courses \ {x.c} : course'[c] = course[c]
    BY <1>2, <2>1 DEF Roll
  <2>3. /\ catalog' \in [Courses -> Catalogs]
        /\ catalog'[x.c] = IF <<"materialCatalog", None>> \in x.got THEN None ELSE catalog[x.c]
        /\ \A c \in Courses \ {x.c} : catalog'[c] = catalog[c]
    BY <1>2, <2>1 DEF Catalogs
  <2>4. /\ rest' \in [Courses -> SUBSET Other]
        /\ rest'[x.c] = {o \in rest[x.c] : <<o, None>> \notin x.got}
        /\ \A c \in Courses \ {x.c} : rest'[c] = rest[c]
    BY <1>2, <2>1
  <2>5. \A i : DateKeys({i}) \subseteq x.got <=> <<"academicDates", i>> \in x.got
    BY DEF DateKeys
  <2>6. /\ new \in Dated
        /\ \A i \in Ids : new[i] = IF <<"academicDates", i>> \in x.got THEN None ELSE dates[x.c][i]
    <3>1. dates[x.c] \in Dated
      BY <1>2
    <3> QED
      BY <2>5, <3>1 DEF Dated
  <2> HIDE DEF new
  <2>7. /\ dates' \in [Courses -> Dated] /\ dates'[x.c] = new
        /\ \A c \in Courses \ {x.c} : dates'[c] = dates[c]
    BY <1>2, <2>1, <2>6
  <2>8. Deleted(x)
    BY <2>2, <2>3, <2>4, <2>6, <2>7 DEF Deleted
  <2> QED
    BY <1>1, <2>8 DEF x
<1>4. CASE ~(Cardinality(x.got) + 1 <= MaxBatch)
  BY <1>1, <1>4 DEF WriteDelete
<1> QED
  BY <1>3, <1>4

LEMMA BelowShrinks ==
    ASSUME Inv, NEW x, x.c \in Courses, Deleted(x), NEW c \in Courses, NEW d \in Below(c)'
    PROVE  d \in Below(c) /\ (c = x.c => d \notin x.got)
<1>1. \/ \E i \in Ids : d = <<"academicDates", i>> /\ dates'[c][i] # None
      \/ d = <<"materialCatalog", None>> /\ catalog'[c] # None
      \/ \E o \in rest'[c] : d = <<o, None>>
  BY DEF Below, DateKeys
<1>2. CASE \E i \in Ids : d = <<"academicDates", i>> /\ dates'[c][i] # None
  <2>1. PICK i \in Ids : d = <<"academicDates", i>> /\ dates'[c][i] # None
    BY <1>2
  <2>2. dates[c][i] # None /\ (c = x.c => d \notin x.got)
    BY <2>1 DEF Deleted
  <2> QED
    BY <2>1, <2>2 DEF Below, DateKeys
<1>3. CASE d = <<"materialCatalog", None>> /\ catalog'[c] # None
  <2>1. catalog[c] # None /\ (c = x.c => d \notin x.got)
    BY <1>3 DEF Deleted
  <2> QED
    BY <1>3, <2>1 DEF Below
<1>4. CASE \E o \in rest'[c] : d = <<o, None>>
  <2>1. PICK o \in rest'[c] : d = <<o, None>>
    BY <1>4
  <2>2. o \in rest[c] /\ (c = x.c => d \notin x.got)
    BY <2>1 DEF Deleted
  <2> QED
    BY <2>1, <2>2 DEF Below
<1> QED
  BY <1>1, <1>2, <1>3, <1>4

LEMMA WriteDeleteInv ==
    ASSUME Inv, NEW k \in Calls, WriteDelete(k)
    PROVE  Inv'
<1> DEFINE x == call[k]
<1>1. /\ Become(k, Idle) /\ UNCHANGED <<clock, mix, settled>>
      /\ UNCHANGED <<course, dates, catalog, rest>> \/ Deleted(x)
      /\ x.c \in Courses
  BY DeleteTakes, DeleteAt
<1>2. CASE UNCHANGED <<course, dates, catalog, rest>>
  BY <1>1, <1>2, IdleGoesOn
<1>3. CASE Deleted(x)
  <2>1. DOMAIN call = Calls /\ clock \in Time
    BY DEF Inv, Typed
  <2>2. /\ DOMAIN call' = Calls /\ call'[k] = Idle
        /\ \A j \in Calls \ {k} : call'[j] = call[j]
    BY <1>1, <2>1 DEF Become
  <2>3. \A j \in Calls \ {k} : Similar(call[j], call'[j])
    BY <2>2, CallOf, SimilarItself
  <2> HIDE DEF x
  <2>4. \A c \in Courses : /\ course'[c] \in {course[c], None}
                           /\ catalog'[c] \in {catalog[c], None}
                           /\ \A i \in Ids : dates'[c][i] \in {dates[c][i], None}
    BY <1>1, <1>3 DEF Deleted
  <2>5. ASSUME NEW j \in Calls \ {k} PROVE DatesMissed(j) /\ BelowMissed(j)
    <3>1. DatesMissed(j)
      BY <2>4 DEF DatesMissed
    <3>2. BelowMissed(j)
      <4> SUFFICES ASSUME call[j].c \in Courses, NEW d \in Below(call[j].c)'
                   PROVE  d \in Below(call[j].c)
        BY DEF BelowMissed
      <4>1. \A b \in Courses : \A e \in Below(b)' : e \in Below(b)
        BY <1>1, <1>3, BelowShrinks
      <4>2. call'[j].c = call[j].c
        BY <2>2
      <4> QED
        BY <4>1, <4>2
    <3> QED
      BY <3>1, <3>2
  <2>6. /\ Right(Idle, clock', dates'[Idle.c], Below(call[k].c)')
        /\ ~Lone(Idle) /\ Idle.kind # "discover"
    BY <1>1, <2>1, IdleRight
  <2>7. CallsRight'
    <3>1. clock' \in Time /\ clock <= clock'
      BY <1>1, <2>1, Numbers
    <3>2. Right(call[k], clock, dates[call[k].c], Below(call[k].c))'
      BY <2>2, <2>6
    <3> QED
      BY <2>3, <2>5, <3>1, <3>2, RightStep
  <2>8. OneAlone'
    BY <2>2, <2>3, <2>6, OneAloneStep
  <2>9. CallsSolo'
    <3>1. Solo(call[k], course, catalog)'
      BY <2>2, <2>6 DEF Solo
    <3> QED
      BY <2>3, <2>4, <3>1, SoloStep
  <2>10. Typed'
    BY <1>1, <1>3, <2>2 DEF Inv, Typed, Deleted
  <2>11. DatesPast'
    <3> SUFFICES ASSUME NEW c \in Courses, NEW i \in Ids, dates'[c][i] # None
                 PROVE  dates'[c][i].updated <= clock
      BY <1>1 DEF DatesPast, Past
    <3>1. dates'[c][i] = dates[c][i]
      BY <2>4
    <3> QED
      BY <3>1 DEF Inv, DatesPast, Past
  <2>12. CatalogsPast'
    <3> SUFFICES ASSUME NEW c \in Courses, catalog'[c] # None
                 PROVE  catalog'[c].updated <= clock
      BY <1>1 DEF CatalogsPast
    <3>1. catalog'[c] = catalog[c]
      BY <2>4
    <3> QED
      BY <3>1 DEF Inv, CatalogsPast
  <2>13. CatalogListable'
    <3> SUFFICES ASSUME settled PROVE CanList'
      BY <1>1 DEF CatalogListable
    <3>1. CanListOf(course, catalog)
      BY CanListIs DEF Inv, CatalogListable
    <3>2. CanListOf(course', catalog')
      BY <2>4, <3>1, ListableShrinks
    <3>3. CanList' = CanListOf(course', catalog')
      BY DEF CanList, CanListOf, Shown, Sizes, Exists
    <3> QED
      BY <3>2, <3>3
  <2> QED
    BY <2>7, <2>8, <2>9, <2>10, <2>11, <2>12, <2>13 DEF Inv
<1> QED
  BY <1>1, <1>2, <1>3

-----------------------------------------------------------------------------
(* A discovery that meets another, or an edit of a course, is not alone.   *)

LEMMA NotAloneRight ==
    ASSUME Inv, NEW j \in Calls
    PROVE  LET z == NotAlone(call)[j] IN
           /\ z.kind = call[j].kind /\ z.c = call[j].c
           /\ Right(z, clock, dates[z.c], Below(z.c))
           /\ ~Lone(z)
<1> DEFINE x == call[j]
           z == [x EXCEPT !.arg.alone = FALSE]
           b == [x.arg EXCEPT !.alone = FALSE]
<1>1. NotAlone(call)[j] = IF x.kind = "discover" THEN z ELSE x
  BY DEF NotAlone, Discovering
<1>2. /\ Right(x, clock, dates[x.c], Below(x.c))
      /\ Shape(x) /\ DOMAIN x = Fields /\ x.now <= clock
  BY CallOf
<1> HIDE DEF x
<1>3. CASE x.kind = "discover"
  <2>1. Cataloguing(x) /\ Announced(x.arg) /\ DOMAIN x.arg = {"listed", "sizes", "left", "alone"}
    BY <1>2, <1>3 DEF Shape, Cataloguing, Announced
  <2>2. /\ DOMAIN b = {"listed", "sizes", "left", "alone"}
        /\ b.listed = x.arg.listed /\ b.sizes = x.arg.sizes /\ b.left = x.arg.left
        /\ b.alone = FALSE
    BY <2>1
  <2>3. /\ DOMAIN z = Fields
        /\ z.kind = x.kind /\ z.pc = x.pc /\ z.c = x.c /\ z.now = x.now /\ z.arg = b
        /\ z.listed = x.listed /\ z.got = x.got /\ z.unseen = x.unseen
    BY <1>2 DEF Fields
  <2> HIDE DEF z, b
  <2>4. There(z.arg) = There(x.arg)
    BY <2>2, <2>3 DEF There
  <2>5. ~z.arg.alone
    BY <2>2, <2>3
  <2>6. Announced(z.arg)
    <3>1. z.arg.alone \in BOOLEAN
      BY <2>2, <2>3
    <3> QED
      BY <2>1, <2>2, <2>3, <2>4, <3>1 DEF Announced
  <2>7. Cataloguing(z)
    BY <2>1, <2>2, <2>3, <2>4, <2>6 DEF Cataloguing, SameCatalog
  <2>8. Shape(z)
    BY <1>2, <1>3, <2>3, <2>7 DEF Shape
  <2>9. Right(z, clock, dates[z.c], Below(z.c)) /\ ~Lone(z)
    BY <1>2, <1>3, <2>3, <2>5, <2>8 DEF Right, Watched, Counted, Lone
  <2> QED
    BY <1>1, <1>3, <2>3, <2>9 DEF x
<1>4. CASE x.kind # "discover"
  BY <1>1, <1>2, <1>4 DEF Lone, x
<1> QED
  BY <1>3, <1>4

LEMMA BeginDiscoverInv ==
    ASSUME Inv, NEW k \in Calls, NEW sizes \in Found, BeginDiscover(k, sizes)
    PROVE  Inv'
<1> DEFINE there == {c \in Courses : Exists(c)}
           arg == [listed |-> course, sizes |-> sizes, left |-> there,
                   alone |-> Discovering = {}]
           y == Entered("discover", "stamp", 0, arg)
           all == NotAlone(call)
<1>1. /\ call' = [all EXCEPT ![k] = y]
      /\ call[k] = Idle /\ there # {} /\ WithinLimit(course, sizes)
      /\ UNCHANGED <<course, dates, catalog, rest, clock, mix, settled>>
  BY DEF BeginDiscover, Starts
<1>2. course \in Roll /\ clock \in Time
  BY DEF Inv, Typed
<1>3. DOMAIN all = Calls
  BY DEF NotAlone
<1>4. /\ DOMAIN call' = Calls /\ call'[k] = y
      /\ \A j \in Calls \ {k} : call'[j] = NotAlone(call)[j]
  BY <1>1, <1>3
<1>5. ASSUME NEW j \in Calls \ {k}
      PROVE  /\ call'[j].kind = call[j].kind /\ call'[j].c = call[j].c
             /\ Right(call'[j], clock, dates[call'[j].c], Below(call'[j].c))
             /\ ~Lone(call'[j])
  BY <1>4, NotAloneRight
<1>6. /\ arg.listed = course /\ arg.sizes = sizes /\ arg.left = there
      /\ DOMAIN arg = {"listed", "sizes", "left", "alone"}
  OBVIOUS
<1>7. arg.alone = (Discovering = {}) /\ arg.alone \in BOOLEAN
  OBVIOUS
<1>8. there = There(arg)
  BY <1>6 DEF Exists, There
<1>9. /\ DOMAIN y = Fields
      /\ y.kind = "discover" /\ y.pc = "stamp" /\ y.c = 0 /\ y.arg = arg /\ y.now = 0
  BY EnteredIs
<1> HIDE DEF there, arg, y, all
<1>10. Announced(y.arg)
  <2>1. y.arg.left \subseteq There(y.arg)
    BY <1>6, <1>8, <1>9
  <2> QED
    BY <1>1, <1>2, <1>6, <1>7, <1>9, <2>1 DEF Announced
<1>11. Cataloguing(y)
  BY <1>1, <1>6, <1>8, <1>9, <1>10 DEF Cataloguing
<1>12. Shape(y)
  BY <1>9, <1>11, Numbers DEF Shape
<1>13. \A list, below : Right(y, clock, list, below)
  <2>1. y.now <= clock
    BY <1>2, <1>9, Numbers
  <2> QED
    BY <1>9, <1>12, <2>1 DEF Right, Watched, Counted
<1>14. Solo(y, course, catalog)
  BY <1>6, <1>9 DEF Solo
<1>15. CallsRight'
  <2>1. ASSUME NEW j \in Calls PROVE Right(call[j], clock, dates[call[j].c], Below(call[j].c))'
    <3>1. CASE j = k
      BY <1>1, <1>4, <1>13, <3>1
    <3>2. CASE j # k
      <4>1. Right(call'[j], clock, dates[call'[j].c], Below(call'[j].c))
        BY <1>5, <3>2
      <4>2. Below(call[j].c)' = Below(call'[j].c)
        BY <1>1 DEF Below
      <4> QED
        BY <1>1, <4>1, <4>2
    <3> QED
      BY <3>1, <3>2
  <2> QED
    BY <2>1 DEF CallsRight
<1>16. OneAlone'
  <2>1. ASSUME NEW i \in Calls, NEW j \in Calls, Lone(call'[i]), call'[j].kind = "discover"
        PROVE  j = i
    <3>1. i = k
      BY <1>5, <2>1
    <3>2. Discovering = {}
      BY <1>4, <1>7, <1>9, <2>1, <3>1 DEF Lone
    <3>3. j = k
      BY <1>5, <2>1, <3>2 DEF Discovering
    <3> QED
      BY <3>1, <3>3
  <2> QED
    BY <2>1 DEF OneAlone
<1>17. CallsSolo'
  <2>1. ASSUME NEW j \in Calls PROVE Solo(call[j], course, catalog)'
    <3>1. CASE j = k
      BY <1>1, <1>4, <1>14, <3>1
    <3>2. CASE j # k
      BY <1>5, <3>2 DEF Solo
    <3> QED
      BY <3>1, <3>2
  <2> QED
    BY <2>1 DEF CallsSolo
<1>18. Typed'
  BY <1>1, <1>4 DEF Inv, Typed
<1>19. DatesPast' /\ CatalogsPast' /\ CatalogListable'
  BY <1>1 DEF Inv, DatesPast, Past, CatalogsPast, CatalogListable, CanList, Exists
<1> QED
  BY <1>15, <1>16, <1>17, <1>18, <1>19 DEF Inv

LEMMA SaveCourseInv ==
    ASSUME Inv, NEW c \in Courses, NEW term \in Terms, SaveCourse(c, term)
    PROVE  Inv'
<1>1. /\ course' = [course EXCEPT ![c] = term]
      /\ call' = NotAlone(call)
      /\ settled' = FALSE
      /\ UNCHANGED <<dates, catalog, rest, clock, mix>>
  BY DEF SaveCourse
<1>2. DOMAIN call' = Calls
  BY <1>1 DEF NotAlone
<1>3. ASSUME NEW j \in Calls
      PROVE  /\ Right(call'[j], clock, dates[call'[j].c], Below(call'[j].c))
             /\ ~Lone(call'[j])
  BY <1>1, NotAloneRight
<1>4. CallsRight'
  <2>1. ASSUME NEW j \in Calls PROVE Right(call[j], clock, dates[call[j].c], Below(call[j].c))'
    <3>1. Right(call'[j], clock, dates[call'[j].c], Below(call'[j].c))
      BY <1>3
    <3>2. Below(call[j].c)' = Below(call'[j].c)
      BY <1>1 DEF Below
    <3> QED
      BY <1>1, <3>1, <3>2
  <2> QED
    BY <2>1 DEF CallsRight
<1>5. OneAlone' /\ CallsSolo'
  BY <1>3 DEF OneAlone, CallsSolo, Solo
<1>6. course' \in Roll
  BY <1>1 DEF Inv, Typed, Roll
<1>7. Typed'
  BY <1>1, <1>2, <1>6 DEF Inv, Typed
<1>8. DatesPast' /\ CatalogsPast' /\ CatalogListable'
  BY <1>1 DEF Inv, DatesPast, Past, CatalogsPast, CatalogListable
<1> QED
  BY <1>4, <1>5, <1>7, <1>8 DEF Inv

-----------------------------------------------------------------------------
LEMMA InitInv == Init => Inv
<1> SUFFICES ASSUME Init PROVE Inv
  OBVIOUS
<1>1. /\ course \in Roll
      /\ dates = [c \in Courses |-> [i \in Ids |-> None]]
      /\ catalog = [c \in Courses |-> None]
      /\ rest = [c \in Courses |-> {}]
      /\ call = [k \in Calls |-> Idle]
      /\ clock = 0 /\ mix \in Mixes /\ settled = TRUE
  BY InitiallyAssumption DEF Init, Roll
<1>2. Typed
  BY <1>1, Numbers DEF Typed, Dated, Catalogs
<1>3. clock \in Time
  BY <1>1, Numbers
<1>4. \A k \in Calls : call[k] = Idle
  BY <1>1
<1>5. CallsRight /\ OneAlone /\ CallsSolo
  BY <1>3, <1>4, IdleRight DEF CallsRight, OneAlone, CallsSolo, Solo
<1>6. DatesPast /\ CatalogsPast
  BY <1>1 DEF DatesPast, Past, CatalogsPast
<1>7. CatalogListable
  <2> DEFINE sizes == Sizes(catalog, Shown(course, catalog))
             S == Shown(course, catalog)
  <2>1. S = {}
    BY <1>1 DEF Shown
  <2>2. MaterialsOf(sizes, S) = {}
    BY <2>1 DEF MaterialsOf
  <2>3. Together(sizes, S) = 0
    BY <2>2, FS_EmptySet DEF Together
  <2>4. 0 <= MaxCandidates
    BY BoundsAssumption
  <2>5. CanListOf(course, catalog)
    BY <2>1, <2>3, <2>4 DEF CanListOf
  <2> QED
    BY <2>5, CanListIs DEF CatalogListable
<1> QED
  BY <1>2, <1>5, <1>6, <1>7 DEF Inv

LEMMA BeginInv ==
    ASSUME Inv, NEW k \in Calls, Begin(k)
    PROVE  Inv'
<1>1. ASSUME NEW c \in Courses, NEW i \in Ids \intersect mix[k], NEW due \in Edited,
             BeginDate(k, "save", c, i, due)
      PROVE  Inv'
  BY <1>1, BeginDateInv
<1>2. ASSUME NEW c \in Courses, NEW i \in Ids \intersect mix[k],
             BeginDate(k, "remove", c, i, None)
      PROVE  Inv'
  BY <1>2, BeginDateInv
<1>3. ASSUME NEW c \in Changing, NEW p \in DOMAIN PlanIds, NEW S \in SUBSET PlanIds[p],
             NEW events \in [S -> Dues], BeginDiario(k, c, p, events)
      PROVE  Inv'
  BY <1>3, BeginDiarioInv, ChangingAssumption
<1>4. ASSUME NEW a \in Answers, BeginMoodle(k, a[1], a[2]) PROVE Inv'
  BY <1>4, BeginMoodleInv
<1>5. ASSUME NEW sizes \in Found, BeginDiscover(k, sizes) PROVE Inv'
  BY <1>5, BeginDiscoverInv
<1>6. ASSUME NEW c \in Changing, BeginDelete(k, c) PROVE Inv'
  BY <1>6, BeginDeleteInv, ChangingAssumption
<1> QED
  BY <1>1, <1>2, <1>3, <1>4, <1>5, <1>6 DEF Begin

LEMMA StepInv ==
    ASSUME Inv, NEW k \in Calls, Step(k)
    PROVE  Inv'
BY ListSaveInv, WriteSaveInv, ListRemoveInv, WriteRemoveInv, ListDatesInv,
   WriteDiarioInv, WriteCompleteInv, NothingToWriteInv, WriteEventInv, CourseFailsInv,
   StampInv, ListCatalogInv, WriteCatalogInv, ListCollectionInv, WriteDeleteInv DEF Step

LEMMA StutterInv ==
    ASSUME Inv, UNCHANGED vars
    PROVE  Inv'
<1>1. UNCHANGED <<course, dates, catalog, rest, call, clock, mix, settled>>
  BY DEF vars
<1>2. CallsRight'
  <2>1. ASSUME NEW j \in Calls PROVE Right(call[j], clock, dates[call[j].c], Below(call[j].c))'
    <3>1. Below(call[j].c)' = Below(call[j].c)
      BY <1>1 DEF Below
    <3> QED
      BY <1>1, <3>1, CallOf
  <2> QED
    BY <2>1 DEF CallsRight
<1>3. Typed' /\ CallsSolo' /\ OneAlone' /\ DatesPast' /\ CatalogsPast'
  BY <1>1 DEF Inv, Typed, CallsSolo, OneAlone, DatesPast, Past, CatalogsPast
<1>4. CatalogListable'
  BY <1>1 DEF Inv, CatalogListable, CanList, Exists
<1> QED
  BY <1>2, <1>3, <1>4 DEF Inv

LEMMA NextInv ==
    ASSUME Inv, [Next]_vars
    PROVE  Inv'
<1>1. ASSUME NEW k \in Calls, Begin(k) \/ Step(k) \/ Kill(k) PROVE Inv'
  BY <1>1, BeginInv, StepInv, KillInv
<1>2. ASSUME NEW c \in Changing, NEW t \in Terms, SaveCourse(c, t) PROVE Inv'
  BY <1>2, SaveCourseInv, ChangingAssumption
<1>3. ASSUME NEW c \in Changing, NEW x \in Other, StoreOther(c, x) PROVE Inv'
  BY <1>3, StoreOtherInv, ChangingAssumption
<1>4. ASSUME Tick PROVE Inv'
  BY <1>4, TickInv
<1>5. ASSUME UNCHANGED vars PROVE Inv'
  BY <1>5, StutterInv
<1> QED
  BY <1>1, <1>2, <1>3, <1>4, <1>5 DEF Next

LEMMA SpecInv == Spec => []Inv
<1>1. Init => Inv
  BY InitInv
<1>2. Inv /\ [Next]_vars => Inv'
  BY NextInv
<1> QED
  BY <1>1, <1>2, PTL DEF Spec

-----------------------------------------------------------------------------
(* Every variable keeps its type, whatever the calls do to each other's    *)
(* documents (course_repository.py, academic_date_repository.py,           *)
(* moodle_material_catalog_repository.py).                                 *)
THEOREM DocumentTypes == Spec => []TypeOK
<1>1. Inv => TypeOK
  <2> SUFFICES ASSUME Inv PROVE TypeOK
    OBVIOUS
  <2>1. \A k \in Calls : DOMAIN call[k] = Fields /\ call[k].c \in Courses \union {0} /\ call[k].now \in Time
    BY CallOf DEF Shape
  <2>2. DOMAIN Idle = Fields
    BY IdleIs
  <2> QED
    BY <2>1, <2>2 DEF Inv, Typed, TypeOK, Roll, Dated, Catalogs
<1> QED
  BY <1>1, SpecInv, PTL

(* A document that is as it was listed, or newer by what the call saw, can *)
(* be replaced.                                                            *)
LEMMA DateNotRefused ==
    ASSUME Inv, NEW k \in Calls, NEW i \in Writes(k)
    PROVE  LET x == call[k] IN
           \/ Allowed(x.c, dates[x.c][i], Document(k, i)) \/ ~Exists(x.c) \/ Unaware(k, x.c, i)
<1> DEFINE x == call[k]
           d == dates[x.c][i]
<1> SUFFICES ASSUME Exists(x.c), ~Unaware(k, x.c, i)
             PROVE  Allowed(x.c, d, Document(k, i))
  OBVIOUS
<1>1. ~Missed(x, i)
  BY DEF Unaware, Missed
<1>2. CASE At(k, "save", "write")
  <2>1. x.kind = "save" /\ x.pc = "write"
    BY <1>2 DEF At
  <2>2. i = x.arg.id /\ Document(k, i) = x.got
    <3>1. ~Importing(k)
      BY <1>2 DEF Importing, At
    <3> QED
      BY <1>2, <3>1 DEF Writes, Document
  <2>3. Shape(x) /\ Watched(x, dates[x.c])
    BY CallOf
  <2>4. d = None \/ (d.created = x.got.created /\ d.updated <= x.got.updated)
    BY <1>1, <2>1, <2>2, <2>3 DEF Watched
  <2>5. x.got \in DateDoc /\ x.c \in Courses /\ i \in Ids
    BY <2>1, <2>2, <2>3 DEF Shape, Saving
  <2>6. d # None => x.got.updated >= d.updated
    <3>1. d # None => d \in DateDoc
      BY <2>5 DEF Inv, Typed, Dated
    <3>2. d # None => d.updated \in Nat /\ x.got.updated \in Nat
      BY <2>5, <3>1, DateDocTyped, Numbers
    <3> QED
      BY <2>4, <3>2
  <2> QED
    BY <2>2, <2>4, <2>6 DEF Allowed
<1>3. CASE Importing(k)
  <2>1. ~At(k, "save", "write")
    BY <1>3 DEF Importing, At
  <2>2. i \in Pending(x.got, x.arg.events) /\ Document(k, i) = New(x, i)
    BY <1>3, <2>1 DEF Writes, Document
  <2>3. i \in DOMAIN x.arg.events
    BY <2>2, PendingIs
  <2>4. /\ x.kind \in {"diario", "moodle"} /\ x.now \in Time /\ x.got \in Dated /\ Past(x.got, x.now)
        /\ i \in Ids
        /\ \A j \in Tracked(x) : dates[x.c][j] = None \/ Missed(x, j) \/ dates[x.c][j] = x.got[j]
        /\ New(x, i).updated = x.now
        /\ x.got[i] # None => New(x, i).created = x.got[i].created
    BY <1>3, <2>3, ImportAt
  <2>5. i \in Tracked(x)
    BY <2>3, <2>4 DEF Tracked
  <2>6. d = None \/ d = x.got[i]
    BY <1>1, <2>4, <2>5
  <2>7. d # None => New(x, i).created = d.created /\ New(x, i).updated >= d.updated
    <3> SUFFICES ASSUME d # None
                 PROVE  New(x, i).created = d.created /\ New(x, i).updated >= d.updated
      OBVIOUS
    <3>1. d = x.got[i] /\ d \in DateDoc
      BY <2>4, <2>6 DEF Dated
    <3>2. d.updated <= x.now
      BY <2>4, <3>1 DEF Past
    <3>3. d.updated \in Nat /\ x.now \in Nat
      BY <2>4, <3>1, DateDocTyped, Numbers
    <3> QED
      BY <2>4, <3>1, <3>2, <3>3
  <2> QED
    BY <2>2, <2>7 DEF Allowed
<1>4. CASE ~At(k, "save", "write") /\ ~Importing(k)
  BY <1>4 DEF Writes
<1> QED
  BY <1>2, <1>3, <1>4

LEMMA CatalogNotRefused ==
    ASSUME Inv, NEW k \in Calls, At(k, "discover", "write")
    PROVE  LET x == call[k] IN
           Allowed(x.c, catalog[x.c], x.got) \/ ~Exists(x.c) \/ ~x.arg.alone
<1> DEFINE x == call[k]
           d == catalog[x.c]
<1> SUFFICES ASSUME Exists(x.c), x.arg.alone
             PROVE  Allowed(x.c, d, x.got)
  OBVIOUS
<1>1. x.kind = "discover" /\ x.pc = "write" /\ x.pc # "stamp" /\ Lone(x)
  BY DEF At, Lone
<1>2. Shape(x) /\ Solo(x, course, catalog)
  BY CallOf
<1>3. x.c \in Courses /\ x.got \in CatalogDoc /\ x.got.updated = x.now
  BY <1>1, <1>2 DEF Shape, Cataloguing, There
<1>4. d # None => d.updated <= x.now /\ d.created = x.got.created
  BY <1>1, <1>2, <1>3 DEF Solo
<1>5. d # None => d.updated \in Nat /\ x.got.updated \in Nat
  <2>1. d # None => d \in CatalogDoc
    BY <1>3 DEF Inv, Typed, Catalogs
  <2> QED
    BY <1>3, <2>1, CatalogTyped, Numbers
<1>6. d # None => x.got.updated >= d.updated
  BY <1>3, <1>4, <1>5
<1> QED
  BY <1>4, <1>6 DEF Allowed

(* A call's write is refused by firestore.rules only if the course is gone *)
(* or the document was written since it was listed, and a discovery's only *)
(* if the course is gone or it met another one or an edit of a course.     *)
THEOREM DocumentsRefused == Spec => []RefusedHasCause
<1>1. Inv => RefusedHasCause
  BY DateNotRefused, CatalogNotRefused DEF RefusedHasCause
<1> QED
  BY <1>1, SpecInv, PTL

(* A discovery that met no other and no edit of a course leaves catalogs   *)
(* that moodle_material_catalog.py can list: each of its course's          *)
(* semester, and together no more materials than a discovery may find.     *)
THEOREM DocumentsListable == Spec => []CatalogListable
<1>1. Inv => CatalogListable
  BY DEF Inv
<1> QED
  BY <1>1, SpecInv, PTL

-----------------------------------------------------------------------------
(* What a step may do to a date. *)

LEMMA DatesChange ==
    ASSUME [Next]_vars
    PROVE  \/ UNCHANGED dates
           \/ \E k \in Calls : \/ WriteSave(k) \/ WriteRemove(k) \/ WriteDelete(k)
                               \/ WriteDiario(k) \/ WriteComplete(k)
                               \/ \E i \in MoodleIds : WriteEvent(k, i)
<1>1. ASSUME NEW k \in Calls, Begin(k) PROVE UNCHANGED dates
  BY <1>1 DEF Begin, BeginDate, BeginDiario, BeginMoodle, BeginDiscover, BeginDelete
<1>2. ASSUME NEW k \in Calls, Kill(k) PROVE UNCHANGED dates
  BY <1>2 DEF Kill
<1>3. ASSUME NEW k \in Calls, Step(k)
      PROVE  \/ UNCHANGED dates
             \/ WriteSave(k) \/ WriteRemove(k) \/ WriteDelete(k)
             \/ WriteDiario(k) \/ WriteComplete(k)
             \/ \E i \in MoodleIds : WriteEvent(k, i)
  <2>1. ListSave(k) \/ ListRemove(k) \/ ListDates(k) \/ ListCollection(k) => UNCHANGED dates
    BY DEF ListSave, ListRemove, ListDates, ListCollection
  <2>2. NothingToWrite(k) \/ CourseFails(k) => UNCHANGED dates
    BY DEF NothingToWrite, CourseFails
  <2>3. Stamp(k) \/ ListCatalog(k) \/ WriteCatalog(k) => UNCHANGED dates
    BY DEF Stamp, ListCatalog, WriteCatalog
  <2> QED
    BY <1>3, <2>1, <2>2, <2>3 DEF Step
<1>4. ASSUME NEW c \in Changing, NEW t \in Terms, SaveCourse(c, t) PROVE UNCHANGED dates
  BY <1>4 DEF SaveCourse
<1>5. ASSUME NEW c \in Changing, NEW x \in Other, StoreOther(c, x) PROVE UNCHANGED dates
  BY <1>5 DEF StoreOther
<1>6. Tick \/ UNCHANGED vars => UNCHANGED dates
  BY DEF Tick, vars
<1> QED
  BY <1>1, <1>2, <1>3, <1>4, <1>5, <1>6 DEF Next

Changes(c, i) == dates'[c][i] # dates[c][i]

LEMMA SaveChanges ==
    ASSUME Inv, NEW k \in Calls, WriteSave(k), NEW c \in Courses, NEW i \in Ids, Changes(c, i)
    PROVE  dates'[c][i] # None /\ dates'[c][i].own
<1> DEFINE x == call[k]
           n == x.arg.id
<1>1. x.kind = "save" /\ x.pc = "write"
      /\ (UNCHANGED dates \/ dates' = [dates EXCEPT ![x.c][n] = x.got])
  BY DEF WriteSave, At
<1>2. x.c \in Courses /\ n \in Ids /\ x.got \in DateDoc /\ x.got.own
  BY <1>1, CallOf DEF Shape, Saving
<1>3. dates \in [Courses -> Dated]
  BY DEF Inv, Typed
<1>4. dates' = [dates EXCEPT ![x.c][n] = x.got]
  BY <1>1 DEF Changes
<1> HIDE DEF x, n
<1>5. dates'[c][i] = x.got
  <2>1. CASE c = x.c /\ i = n
    BY <1>2, <1>3, <1>4, <2>1 DEF Dated
  <2>2. CASE ~(c = x.c /\ i = n)
    BY <1>2, <1>3, <1>4, <2>2 DEF Dated, Changes
  <2> QED
    BY <2>1, <2>2
<1> QED
  BY <1>2, <1>5, NoneAssumption

LEMMA RemoveChanges ==
    ASSUME Inv, NEW k \in Calls, WriteRemove(k), NEW c \in Courses, NEW i \in Ids, Changes(c, i)
    PROVE  At(k, "remove", "write") /\ call[k].c = c /\ call[k].arg.id = i /\ i \in ManualIds
<1> DEFINE x == call[k]
           n == x.arg.id
<1>1. /\ At(k, "remove", "write") /\ x.kind = "remove" /\ x.pc = "write"
      /\ dates' = [dates EXCEPT ![x.c][n] = None]
  BY DEF WriteRemove, At
<1>2. x.c \in Courses /\ n \in Ids /\ n \in ManualIds
  BY <1>1, CallOf DEF Shape, Removing
<1>3. dates \in [Courses -> Dated]
  BY DEF Inv, Typed
<1>4. c = x.c /\ i = n
  <2> HIDE DEF x, n
  <2> QED
    BY <1>1, <1>2, <1>3 DEF Dated, Changes
<1> QED
  BY <1>1, <1>2, <1>4

LEMMA DeleteChanges ==
    ASSUME Inv, NEW k \in Calls, WriteDelete(k), NEW c \in Courses, NEW i \in Ids, Changes(c, i)
    PROVE  Deletes(k, c)
<1>1. call[k].kind = "delete" /\ call[k].pc = "write"
  BY DeleteAt
<1>2. call[k].c = c
  BY DeleteTakes DEF Changes, Deleted
<1> QED
  BY <1>1, <1>2 DEF Deletes, At

LEMMA CommitChanges ==
    ASSUME Inv, NEW k \in Calls, Importing(k), NEW y, NEW deletes,
           NEW writes \in SUBSET Pending(call[k].got, call[k].arg.events),
           Commit(k, y, writes, deletes), NEW c \in Courses, NEW i \in Ids, Changes(c, i)
    PROVE  LET x == call[k] IN
           /\ x.c = c
           /\ \/ i \in writes /\ dates'[c][i] = New(x, i) /\ Allowed(c, dates[c][i], New(x, i))
              \/ i \notin writes /\ i \in deletes /\ dates'[c][i] = None
<1> DEFINE x == call[k]
<1>1. CommitAllowed(x, writes) /\ dates' = Replaced(x, writes, deletes)
  BY DEF Commit, Changes
<1>2. x.c \in Courses
  BY ImportAt
<1>3. dates \in [Courses -> Dated]
  BY DEF Inv, Typed
<1> HIDE DEF x
<1>4. c = x.c
  BY <1>1, <1>2, <1>3 DEF Replaced, Changes
<1>5. dates'[c][i] = IF i \in writes THEN New(x, i) ELSE IF i \in deletes THEN None ELSE dates[c][i]
  BY <1>1, <1>2, <1>3, <1>4 DEF Replaced
<1>6. i \in writes \/ i \in deletes
  BY <1>5 DEF Changes
<1>7. i \in writes => Allowed(c, dates[c][i], New(x, i))
  BY <1>1, <1>4 DEF CommitAllowed
<1> QED
  BY <1>4, <1>5, <1>6, <1>7 DEF x

(* An import has no say in a date of the user's unless it was stored since.*)
LEMMA CommitKeeps ==
    ASSUME Inv, NEW k \in Calls, Importing(k), NEW y, NEW deletes,
           NEW writes \in SUBSET Pending(call[k].got, call[k].arg.events),
           \A i \in deletes : /\ i \in Tracked(call[k])
                              /\ call[k].got[i] # None /\ ~call[k].got[i].own,
           Commit(k, y, writes, deletes), NEW c \in Courses, NEW i \in Ids,
           Changes(c, i), dates[c][i] # None, dates[c][i].own
    PROVE  /\ Importing(k) /\ Unaware(k, c, i)
           /\ dates'[c][i] # None => dates[c][i].updated <= call[k].now
<1> DEFINE x == call[k]
<1>1. /\ x.c = c
      /\ \/ i \in writes /\ dates'[c][i] = New(x, i) /\ Allowed(c, dates[c][i], New(x, i))
         \/ i \notin writes /\ i \in deletes /\ dates'[c][i] = None
  BY CommitChanges
<1>2. /\ x.kind \in {"diario", "moodle"} /\ x.now \in Time
      /\ \A j \in Tracked(x) : dates[x.c][j] = None \/ Missed(x, j) \/ dates[x.c][j] = x.got[j]
      /\ DOMAIN x.arg.events \subseteq Ids
      /\ \A j \in DOMAIN x.arg.events : New(x, j).updated = x.now
  BY ImportAt
<1>3. i \in writes => /\ i \in DOMAIN x.arg.events
                      /\ x.got[i] = None \/ ~x.got[i].own
  BY DEF Pending
<1>4. i \in deletes => i \in Tracked(x) /\ x.got[i] # None /\ ~x.got[i].own
  OBVIOUS
<1> HIDE DEF x
<1>5. i \in Tracked(x) /\ (x.got[i] = None \/ ~x.got[i].own)
  BY <1>1, <1>2, <1>3, <1>4 DEF Tracked
<1>6. Missed(x, i)
  BY <1>1, <1>2, <1>5
<1>7. Unaware(k, c, i)
  BY <1>1, <1>6 DEF Unaware, Missed, x
<1>8. dates'[c][i] # None => dates[c][i].updated <= x.now
  <2> SUFFICES ASSUME dates'[c][i] # None PROVE dates[c][i].updated <= x.now
    OBVIOUS
  <2>1. i \in writes /\ Allowed(c, dates[c][i], New(x, i)) /\ New(x, i).updated = x.now
    BY <1>1, <1>2, <1>3
  <2>2. x.now >= dates[c][i].updated
    BY <2>1 DEF Allowed
  <2>3. dates[c][i] \in DateDoc
    BY DEF Inv, Typed, Dated
  <2>4. dates[c][i].updated \in Nat /\ x.now \in Nat
    BY <1>2, <2>3, DateDocTyped, Numbers
  <2> QED
    BY <2>2, <2>4
<1> QED
  BY <1>7, <1>8 DEF x

LEMMA DiarioDeletes ==
    ASSUME Inv, NEW k \in Calls, WriteDiario(k)
    PROVE  LET x == call[k] d == StaleDiario(x.got, x.arg.events, x.arg.plan) IN
           /\ Importing(k)
           /\ d \subseteq DiarioIds
           /\ \A i \in d : i \in Tracked(x) /\ x.got[i] # None /\ ~x.got[i].own
<1> DEFINE x == call[k]
           d == StaleDiario(x.got, x.arg.events, x.arg.plan)
<1>1. x.kind = "diario" /\ Importing(k)
  BY DEF WriteDiario, At, Importing
<1>2. x.arg.plan \in DOMAIN PlanIds
  BY <1>1, CallOf DEF Shape, Planned
<1>3. PlanIds[x.arg.plan] \subseteq DiarioIds
  BY <1>2, PlansAssumption
<1>4. Tracked(x) = Ids
  BY <1>1 DEF Tracked
<1>5. \A i \in d : i \in PlanIds[x.arg.plan] /\ x.got[i] # None /\ ~x.got[i].own
  BY DEF StaleDiario, Stale
<1> QED
  BY <1>1, <1>3, <1>4, <1>5 DEF Ids

LEMMA CompleteDeletes ==
    ASSUME Inv, NEW k \in Calls, WriteComplete(k)
    PROVE  LET x == call[k] d == StaleMoodle(x.got, x.arg.events, x.arg.listed[x.c]) IN
           /\ Importing(k)
           /\ \A i \in d : /\ i \in MoodleIds \ DOMAIN x.arg.events
                           /\ i \in Tracked(x) /\ x.got[i] # None /\ ~x.got[i].own
<1> DEFINE x == call[k]
           d == StaleMoodle(x.got, x.arg.events, x.arg.listed[x.c])
<1>1. x.kind = "moodle" /\ x.arg.complete /\ Importing(k)
  BY DEF WriteComplete, At, Importing
<1>2. Tracked(x) = Ids
  BY <1>1 DEF Tracked
<1>3. \A i \in d : i \in MoodleIds \ DOMAIN x.arg.events /\ x.got[i] # None /\ ~x.got[i].own
  BY DEF StaleMoodle, Stale
<1> QED
  BY <1>1, <1>2, <1>3 DEF Ids

LEMMA UserDateStep ==
    ASSUME Inv, [Next]_vars, NEW c \in Courses, NEW i \in Ids
    PROVE  UserDateKept(c, i)
<1> SUFFICES ASSUME Changes(c, i), dates[c][i] # None, dates[c][i].own
             PROVE  UserDateKept(c, i)
  BY DEF UserDateKept, Changes
<1>1. ~UNCHANGED dates
  BY DEF Changes
<1>2. ASSUME NEW k \in Calls, WriteSave(k) PROVE UserDateKept(c, i)
  BY <1>2, SaveChanges DEF UserDateKept
<1>3. ASSUME NEW k \in Calls, WriteRemove(k) PROVE UserDateKept(c, i)
  BY <1>3, RemoveChanges DEF UserDateKept
<1>4. ASSUME NEW k \in Calls, WriteDelete(k) PROVE UserDateKept(c, i)
  BY <1>4, DeleteChanges DEF UserDateKept
<1>5. ASSUME NEW k \in Calls,
             Importing(k) /\ Unaware(k, c, i) /\ (dates'[c][i] # None => dates[c][i].updated <= call[k].now)
      PROVE  UserDateKept(c, i)
  BY <1>5 DEF UserDateKept
<1>6. ASSUME NEW k \in Calls, WriteDiario(k) PROVE UserDateKept(c, i)
  <2> DEFINE x == call[k]
             writes == Pending(x.got, x.arg.events)
             deletes == StaleDiario(x.got, x.arg.events, x.arg.plan)
  <2>1. Commit(k, Idle, writes, deletes)
    BY <1>6 DEF WriteDiario
  <2>2. /\ Importing(k)
        /\ \A j \in deletes : j \in Tracked(x) /\ x.got[j] # None /\ ~x.got[j].own
    BY <1>6, DiarioDeletes
  <2>3. writes \in SUBSET Pending(call[k].got, call[k].arg.events)
    OBVIOUS
  <2> HIDE DEF writes, deletes
  <2>4. Importing(k) /\ Unaware(k, c, i) /\ (dates'[c][i] # None => dates[c][i].updated <= call[k].now)
    BY <2>1, <2>2, <2>3, CommitKeeps
  <2> QED
    BY <1>5, <2>4
<1>7. ASSUME NEW k \in Calls, WriteComplete(k) PROVE UserDateKept(c, i)
  <2> DEFINE x == call[k]
             writes == Pending(x.got, x.arg.events)
             deletes == StaleMoodle(x.got, x.arg.events, x.arg.listed[x.c])
             y == Onwards(x, x.arg.left)
  <2>1. Commit(k, y, writes, deletes)
    BY <1>1, <1>7 DEF WriteComplete
  <2>2. /\ Importing(k)
        /\ \A j \in deletes : j \in Tracked(x) /\ x.got[j] # None /\ ~x.got[j].own
    BY <1>7, CompleteDeletes
  <2>3. writes \in SUBSET Pending(call[k].got, call[k].arg.events)
    OBVIOUS
  <2> HIDE DEF writes, deletes, y
  <2>4. Importing(k) /\ Unaware(k, c, i) /\ (dates'[c][i] # None => dates[c][i].updated <= call[k].now)
    BY <2>1, <2>2, <2>3, CommitKeeps
  <2> QED
    BY <1>5, <2>4
<1>8. ASSUME NEW k \in Calls, NEW n \in MoodleIds, WriteEvent(k, n) PROVE UserDateKept(c, i)
  <2>1. PICK y : Commit(k, y, {n}, {})
    BY <1>8 DEF WriteEvent
  <2>2. Importing(k) /\ {n} \in SUBSET Pending(call[k].got, call[k].arg.events)
    BY <1>8 DEF WriteEvent, Importing
  <2>3. Importing(k) /\ Unaware(k, c, i) /\ (dates'[c][i] # None => dates[c][i].updated <= call[k].now)
    BY <2>1, <2>2, CommitKeeps
  <2> QED
    BY <1>5, <2>3
<1> QED
  BY <1>1, <1>2, <1>3, <1>4, <1>6, <1>7, <1>8, DatesChange

UserDatesKept == \A c \in Courses, i \in Ids : UserDateKept(c, i)

(* academic_date_repository.py: a date the user entered or edited is       *)
(* changed by him, or with its course; an import that takes or replaces it *)
(* had not seen it, and replaces none stored later than it read the clock. *)
THEOREM DocumentsUserDates == Spec => UserDateStands
<1>1. Inv /\ [Next]_vars => UserDatesKept
  BY UserDateStep DEF UserDatesKept
<1>2. Spec => [][UserDatesKept]_vars
  BY <1>1, SpecInv, PTL DEF Spec
<1> QED
  BY <1>2 DEF UserDatesKept, UserDateStands

-----------------------------------------------------------------------------
(* An import that takes an event's date away read of it in no calendar.    *)

LEMMA GoneOf ==
    ASSUME Inv, NEW k \in Calls, WriteComplete(k), NEW c \in Courses, call[k].c = c,
           NEW i \in MoodleIds, i \notin DOMAIN call[k].arg.events
    PROVE  GoneFrom(call[k], c, i)
<1> DEFINE a == call[k].arg
<1>1. call[k].kind = "moodle" /\ a.complete
  BY DEF WriteComplete, At
<1>2. Calendared(call[k])
  BY <1>1, CallOf DEF Shape
<1>3. /\ \A e \in a.calendar : e.id \in MoodleIds /\ e.due \in Dues /\ e.term \in a.answered
      /\ c \in ToImport(a.listed, a.answered, a.calendar)
      /\ c \notin Unsafe(a.listed, a.calendar)
      /\ a.events = Batch(a.listed, a.calendar, c)
  BY <1>1, <1>2 DEF Calendared, Turn
<1>4. i \notin DOMAIN a.events
  OBVIOUS
<1> HIDE DEF a
<1>5. a.listed[c] \in a.answered
  <2>1. CASE EventsOf(a.listed, a.calendar, c) # {}
    <3>1. PICK e \in a.calendar : Matches(a.listed, e) = {c}
      BY <2>1 DEF EventsOf
    <3>2. a.listed[c] = e.term
      BY <3>1 DEF Matches
    <3> QED
      BY <1>3, <3>2
  <2>2. CASE EventsOf(a.listed, a.calendar, c) = {}
    BY <1>3, <2>2 DEF ToImport, Answered
  <2> QED
    BY <2>1, <2>2
<1>6. ASSUME NEW e \in a.calendar, e.id = i, e.term = a.listed[c]
      PROVE  Matches(a.listed, e) # {} /\ c \notin Matches(a.listed, e)
  <2> DEFINE M == Matches(a.listed, e)
  <2>1. M \subseteq Courses /\ IsFiniteSet(M)
    <3>1. M \subseteq Courses
      BY DEF Matches
    <3> HIDE DEF M
    <3> QED
      BY <3>1, CoursesFinite, FS_Subset
  <2>2. ASSUME Cardinality(M) # 1, M = {} \/ c \in M PROVE FALSE
    <3> DEFINE W == IF M = {} THEN {d \in Courses : a.listed[d] = e.term} ELSE M
    <3>1. W \subseteq Unsafe(a.listed, a.calendar)
      BY <2>2 DEF Unsafe
    <3>2. c \in W
      BY <1>6, <2>2
    <3> QED
      BY <1>3, <3>1, <3>2
  <2>3. ASSUME Cardinality(M) = 1, M = {} \/ c \in M PROVE FALSE
    <3>1. \E d : M = {d}
      <4> HIDE DEF M
      <4> QED
        BY <2>1, <2>3, FS_Singleton
    <3>2. M = {c}
      <4> HIDE DEF M
      <4> QED
        BY <2>3, <3>1
    <3>3. e \in EventsOf(a.listed, a.calendar, c)
      BY <3>2 DEF EventsOf
    <3>4. i \in DOMAIN Batch(a.listed, a.calendar, c)
      <4>1. \A f \in a.calendar : f.id \in MoodleIds /\ f.due \in Dues
        BY <1>3
      <4>2. DOMAIN Batch(a.listed, a.calendar, c) = {f.id : f \in EventsOf(a.listed, a.calendar, c)}
        BY <4>1, BatchTyped
      <4> QED
        BY <1>6, <3>3, <4>2
    <3> QED
      BY <1>3, <1>4, <3>4
  <2> QED
    BY <2>2, <2>3
<1> QED
  BY <1>5, <1>6 DEF GoneFrom, a

Gone(c, i) ==
    dates[c][i] # None /\ dates'[c][i] = None =>
       \E k \in Calls : \/ Deletes(k, c)
                        \/ Importing(k) /\ call[k].c = c /\ GoneFrom(call[k], c, i)

LEMMA GoneStep ==
    ASSUME Inv, [Next]_vars, NEW c \in Courses, NEW i \in MoodleIds
    PROVE  Gone(c, i)
<1> SUFFICES ASSUME Changes(c, i), dates'[c][i] = None
             PROVE  Gone(c, i)
  BY DEF Gone, Changes
<1>1. ~UNCHANGED dates /\ i \in Ids /\ i \notin ManualIds /\ i \notin DiarioIds
  BY SourcesAssumption DEF Changes, Ids
<1>2. ASSUME NEW k \in Calls, WriteSave(k) PROVE FALSE
  BY <1>1, <1>2, SaveChanges
<1>3. ASSUME NEW k \in Calls, WriteRemove(k) PROVE FALSE
  BY <1>1, <1>3, RemoveChanges
<1>4. ASSUME NEW k \in Calls, WriteDelete(k) PROVE Gone(c, i)
  BY <1>1, <1>4, DeleteChanges DEF Gone
<1>5. ASSUME NEW k \in Calls, Importing(k), NEW n \in Pending(call[k].got, call[k].arg.events)
      PROVE  New(call[k], n) # None
  BY <1>5, ImportAt, PendingIs
<1>6. ASSUME NEW k \in Calls, WriteDiario(k) PROVE FALSE
  <2> DEFINE x == call[k]
             writes == Pending(x.got, x.arg.events)
             deletes == StaleDiario(x.got, x.arg.events, x.arg.plan)
  <2>1. Commit(k, Idle, writes, deletes)
    BY <1>6 DEF WriteDiario
  <2>2. Importing(k) /\ deletes \subseteq DiarioIds
    BY <1>6, DiarioDeletes
  <2>3. writes \in SUBSET Pending(call[k].got, call[k].arg.events)
    OBVIOUS
  <2> HIDE DEF writes, deletes
  <2>4. i \in writes /\ dates'[c][i] = New(x, i)
    BY <1>1, <2>1, <2>2, <2>3, CommitChanges
  <2> QED
    BY <1>5, <2>2, <2>3, <2>4
<1>7. ASSUME NEW k \in Calls, WriteComplete(k) PROVE Gone(c, i)
  <2> DEFINE x == call[k]
             writes == Pending(x.got, x.arg.events)
             deletes == StaleMoodle(x.got, x.arg.events, x.arg.listed[x.c])
             y == Onwards(x, x.arg.left)
  <2>1. Commit(k, y, writes, deletes)
    BY <1>1, <1>7 DEF WriteComplete
  <2>2. /\ Importing(k)
        /\ \A j \in deletes : j \in MoodleIds \ DOMAIN x.arg.events
    BY <1>7, CompleteDeletes
  <2>3. writes \in SUBSET Pending(call[k].got, call[k].arg.events)
    OBVIOUS
  <2> HIDE DEF writes, deletes, y
  <2>4. /\ x.c = c
        /\ (i \in writes /\ dates'[c][i] = New(x, i)) \/ i \in deletes
    BY <1>1, <2>1, <2>2, <2>3, CommitChanges
  <2>5. i \in deletes
    BY <1>5, <2>2, <2>3, <2>4
  <2>6. GoneFrom(call[k], c, i)
    BY <1>7, <2>2, <2>4, <2>5, GoneOf
  <2> QED
    BY <2>2, <2>4, <2>6 DEF Gone
<1>8. ASSUME NEW k \in Calls, NEW n \in MoodleIds, WriteEvent(k, n) PROVE FALSE
  <2>1. PICK y : Commit(k, y, {n}, {})
    BY <1>8 DEF WriteEvent
  <2>2. Importing(k) /\ {n} \in SUBSET Pending(call[k].got, call[k].arg.events)
    BY <1>8 DEF WriteEvent, Importing
  <2>3. i \in {n} /\ dates'[c][i] = New(call[k], i)
    BY <1>1, <2>1, <2>2, CommitChanges
  <2> QED
    BY <1>5, <2>2, <2>3
<1> QED
  BY <1>1, <1>2, <1>3, <1>4, <1>6, <1>7, <1>8, DatesChange

AllGone == \A c \in Courses, i \in MoodleIds : Gone(c, i)

(* moodle_date_import.py: an event's date goes with its course, or when    *)
(* the calendar of the course's semester answered without an event that    *)
(* could be the course's.                                                  *)
THEOREM DocumentsGone == Spec => GoneIfAnswered
<1>1. Inv /\ [Next]_vars => AllGone
  BY GoneStep DEF AllGone
<1>2. Spec => [][AllGone]_vars
  BY <1>1, SpecInv, PTL DEF Spec
<1> QED
  BY <1>2 DEF AllGone, Gone, GoneIfAnswered

-----------------------------------------------------------------------------
(* A deletion leaves of a course what was written after it had listed it.  *)

WholeOf(c) == Exists(c) /\ course'[c] = None =>
                \E k \in Calls : Deletes(k, c) /\ Below(c)' \subseteq call[k].unseen

LEMMA CoursesChange ==
    ASSUME Inv, [Next]_vars, NEW c \in Courses, Exists(c), course'[c] = None
    PROVE  \E k \in Calls : WriteDelete(k)
<1>1. ~UNCHANGED course
  BY DEF Exists
<1>2. ASSUME NEW k \in Calls, Begin(k) PROVE UNCHANGED course
  BY <1>2 DEF Begin, BeginDate, BeginDiario, BeginMoodle, BeginDiscover, BeginDelete
<1>3. ASSUME NEW k \in Calls, Kill(k) PROVE UNCHANGED course
  BY <1>3 DEF Kill
<1>4. ASSUME NEW k \in Calls, Step(k) PROVE UNCHANGED course \/ WriteDelete(k)
  <2>1. ListSave(k) \/ WriteSave(k) \/ ListRemove(k) \/ WriteRemove(k) => UNCHANGED course
    BY DEF ListSave, WriteSave, ListRemove, WriteRemove
  <2>2. ListDates(k) \/ WriteDiario(k) \/ WriteComplete(k) \/ NothingToWrite(k) => UNCHANGED course
    BY DEF ListDates, WriteDiario, WriteComplete, NothingToWrite
  <2>3. (\E i \in MoodleIds : WriteEvent(k, i)) \/ CourseFails(k) => UNCHANGED course
    BY DEF WriteEvent, CourseFails
  <2>4. Stamp(k) \/ ListCatalog(k) \/ WriteCatalog(k) \/ ListCollection(k) => UNCHANGED course
    BY DEF Stamp, ListCatalog, WriteCatalog, ListCollection
  <2> QED
    BY <1>4, <2>1, <2>2, <2>3, <2>4 DEF Step
<1>5. ASSUME NEW b \in Changing, NEW t \in Terms, SaveCourse(b, t) PROVE FALSE
  <2>1. course' = [course EXCEPT ![b] = t] /\ course \in [Courses -> Terms \union {None}]
    BY <1>5 DEF SaveCourse, Inv, Typed, Roll
  <2> QED
    BY <2>1, NoneAssumption, ChangingAssumption DEF Exists
<1>6. ASSUME NEW b \in Changing, NEW x \in Other, StoreOther(b, x) PROVE UNCHANGED course
  BY <1>6 DEF StoreOther
<1>7. Tick \/ UNCHANGED vars => UNCHANGED course
  BY DEF Tick, vars
<1> QED
  BY <1>1, <1>2, <1>3, <1>4, <1>5, <1>6, <1>7 DEF Next

LEMMA BelowListed ==
    ASSUME Inv, NEW c \in Courses, NEW d \in Below(c)
    PROVE  \E n \in ToList : Collections[n] = d[1]
<1>1. rest[c] \subseteq Other
  BY DEF Inv, Typed
<1>2. d[1] \in Other \union {"academicDates", "materialCatalog"}
  BY <1>1 DEF Below, DateKeys
<1> QED
  BY <1>2, Listable

LEMMA WholeStep ==
    ASSUME Inv, [Next]_vars, NEW c \in Courses
    PROVE  WholeOf(c)
<1> SUFFICES ASSUME Exists(c), course'[c] = None
             PROVE  \E k \in Calls : Deletes(k, c) /\ Below(c)' \subseteq call[k].unseen
  BY DEF WholeOf
<1>1. PICK k \in Calls : WriteDelete(k)
  BY CoursesChange
<1> DEFINE x == call[k]
<1>2. /\ x.kind = "delete" /\ x.pc = "write" /\ x.c \in Courses
      /\ \A d \in Below(x.c) : d[1] \in x.listed => d \in x.got \union x.unseen
      /\ \A n \in ToList : Collections[n] \in x.listed
  BY <1>1, DeleteAt
<1>3. Deleted(x)
  BY <1>1, DeleteTakes DEF Exists
<1> HIDE DEF x
<1>4. x.c = c
  BY <1>3 DEF Deleted, Exists
<1>5. ASSUME NEW d \in Below(c)' PROVE d \in x.unseen
  <2>1. d \in Below(c) /\ d \notin x.got
    BY <1>2, <1>3, <1>4, BelowShrinks
  <2>2. d[1] \in x.listed
    BY <1>2, <2>1, BelowListed
  <2> QED
    BY <1>2, <1>4, <2>1, <2>2
<1> QED
  BY <1>2, <1>4, <1>5 DEF Deletes, At, x

AllWhole == \A c \in Courses : WholeOf(c)

(* course_repository.py: what is left below a course that was deleted was  *)
(* written after the deletion had listed its collection.                   *)
THEOREM DocumentsDeleted == Spec => DeletedWhole
<1>1. Inv /\ [Next]_vars => AllWhole
  BY WholeStep DEF AllWhole
<1>2. Spec => [][AllWhole]_vars
  BY <1>1, SpecInv, PTL DEF Spec
<1> QED
  BY <1>2 DEF AllWhole, WholeOf, DeletedWhole

=============================================================================

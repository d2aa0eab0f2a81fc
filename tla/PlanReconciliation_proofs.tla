--------------------- MODULE PlanReconciliation_proofs ---------------------
(* Theorems about PlanReconciliation, for any days, meetings, schedules,   *)
(* plans and invocations.                                                  *)
EXTENDS PlanReconciliation, TLAPS, FiniteSetTheorems

-----------------------------------------------------------------------------
(* Occurrences and their slots.                                            *)

Listed == [Id -> Doc \union {None}]
Graded == [Meeting -> MeetingDoc \union {None}]
Compared == Plans \union {[schedule |-> {}, assessments |-> {}]}

LEMMA HoursPositive ==
    ASSUME NEW h \in Hours
    PROVE  h.start \in Nat /\ h.end \in Nat /\ h.start < h.end /\ h = [start |-> h.start, end |-> h.end]
<1>1. h \in [start : Nat, end : Nat] /\ h.end - h.start \in {1, 2, 4}
  BY HoursAssumption
<1> QED
  BY <1>1

LEMMA SlotPositive ==
    ASSUME NEW d \in Day, NEW h \in Hours
    PROVE  /\ Slot(d, h).start = d + h.start /\ Slot(d, h).end = d + h.end
           /\ Slot(d, h).start \in Nat /\ Slot(d, h).end \in Nat
           /\ Slot(d, h).start < Slot(d, h).end
<1>1. d \in Nat
  BY DaysAssumption
<1> QED
  BY <1>1, HoursPositive DEF Slot

(* A slot overlaps itself, and whatever overlaps it. *)
LEMMA OverlapsItself ==
    ASSUME NEW d \in Day, NEW h \in Hours PROVE Overlap(Slot(d, h), Slot(d, h))
BY SlotPositive DEF Overlap

LEMMA OverlapSymmetric == ASSUME NEW a, NEW b, Overlap(a, b) PROVE Overlap(b, a)
BY DEF Overlap

(* Classes of one day overlap if their hours do. *)
LEMMA OverlapOfHours ==
    ASSUME NEW d \in Day, NEW h \in Hours, NEW i \in Hours, Overlap(Slot(d, h), Slot(d, i))
    PROVE  Overlap(h, i)
<1>1. d \in Nat
  BY DaysAssumption
<1>2. /\ h.start \in Nat /\ h.end \in Nat /\ i.start \in Nat /\ i.end \in Nat
      /\ d + h.start < d + i.end /\ d + i.start < d + h.end
  BY SlotPositive, HoursPositive DEF Overlap
<1>3. h.start < i.end /\ i.start < h.end
  BY <1>1, <1>2
<1> QED
  BY <1>3 DEF Overlap

(* Slots that overlap are of one day. *)
LEMMA OneDay ==
    ASSUME NEW d \in Day, NEW e \in Day, NEW h \in Hours, NEW i \in Hours,
           Overlap(Slot(d, h), Slot(e, i))
    PROVE  d = e
BY DaysApart

LEMMA SlotInjective ==
    ASSUME NEW d \in Day, NEW e \in Day, NEW h \in Hours, NEW i \in Hours, Slot(d, h) = Slot(e, i)
    PROVE  d = e /\ h = i
<1>1. Overlap(Slot(d, h), Slot(e, i))
  BY OverlapsItself
<1>2. d = e
  BY <1>1, OneDay
<1>3. d \in Nat
  BY DaysAssumption
<1>4. d + h.start = d + i.start /\ d + h.end = d + i.end
  BY <1>2, SlotPositive
<1>5. h.start = i.start /\ h.end = i.end
  BY <1>3, <1>4, HoursPositive
<1> QED
  BY <1>2, <1>5, HoursPositive

LEMMA OccurrenceParts ==
    ASSUME NEW o \in Occurrence
    PROVE  o[1] \in Day /\ o[2] \in Hours /\ o = <<o[1], o[2]>> /\ o \in Id /\ SlotOf(o) = Slot(o[1], o[2])
BY DEF Occurrence, Id, SlotOf

(* Two occurrences at the same time are one. *)
LEMMA OccurrenceInjective ==
    ASSUME NEW o \in Occurrence, NEW q \in Occurrence, SlotOf(o) = SlotOf(q)
    PROVE  o = q
BY OccurrenceParts, SlotInjective

LEMMA IdParts ==
    ASSUME NEW i \in Id
    PROVE  i[1] \in Day /\ (i \in Occurrence \/ (i \in Day \X Meeting /\ i \notin Occurrence))
<1>1. CASE i \in Occurrence
  BY <1>1 DEF Occurrence
<1>2. CASE i \in Day \X Meeting
  <2>1. i[1] \in Day /\ i[2] \in Meeting
    BY <1>2
  <2>2. i \notin Occurrence
    BY <2>1, IdAssumption DEF Occurrence
  <2> QED
    BY <1>2, <2>1, <2>2
<1> QED
  BY <1>1, <1>2 DEF Id

(* What a session's document holds. *)
LEMMA DocParts ==
    ASSUME NEW d \in Doc
    PROVE  /\ d # None
           /\ d.created \in Times /\ d.updated \in Times
           /\ d = [slot |-> d.slot, mark |-> d.mark, calendar |-> d.calendar, title |-> d.title,
                   created |-> d.created, updated |-> d.updated]
BY NoneAssumption DEF Doc

-----------------------------------------------------------------------------
(* Every session is on the day of its id, and one imported from the plan   *)
(* at the occurrence that its id names.                                    *)
PlacedAt(s, i) ==
    /\ \E h \in Hours : s[i].slot = Slot(i[1], h)
    /\ i \in Occurrence => s[i].slot = SlotOf(i)
Placed(s) == \A i \in There(s) : PlacedAt(s, i)

LEMMA ThereIsDoc ==
    ASSUME NEW s \in Listed, NEW i \in There(s)
    PROVE  i \in Id /\ s[i] \in Doc /\ s[i] # None
BY DEF There, Listed

(* An occurrence in whose way nothing is has no session of its own. *)
LEMMA FreeIsNotThere ==
    ASSUME NEW s, Placed(s), NEW o \in Occurrence, Overlapping(s, o) = {}
    PROVE  o \notin There(s)
<1> SUFFICES ASSUME o \in There(s) PROVE FALSE
  OBVIOUS
<1>1. s[o].slot = SlotOf(o)
  BY DEF Placed, PlacedAt
<1>2. Overlap(s[o].slot, SlotOf(o))
  BY <1>1, OverlapsItself, OccurrenceParts
<1> QED
  BY <1>2 DEF Overlapping

-----------------------------------------------------------------------------
(* What a reconciliation does to the sessions d, of the sessions s it read. *)
Reconciled(d, s, g, p, now) ==
    [i \in Id |->
        IF i \in Created(s, g, p) \union Linked(s, g, p) THEN Written(s, p, i, now)
        ELSE IF i \in Removed(s, g, p) THEN None ELSE d[i]]

LEMMA ComparedParts ==
    ASSUME NEW p \in Compared
    PROVE  p.schedule \subseteq Occurrence
BY PlansAssumption DEF Compared

(* The three kinds of change are of different sessions. *)
LEMMA ChangesApart ==
    ASSUME NEW s \in Listed, Placed(s), NEW g, NEW p \in Compared
    PROVE  /\ Created(s, g, p) \subseteq Occurrence /\ Created(s, g, p) \intersect There(s) = {}
           /\ Linked(s, g, p) \subseteq There(s)
           /\ Removed(s, g, p) \subseteq Occurrence \intersect There(s)
           /\ Linked(s, g, p) \intersect Removed(s, g, p) = {}
<1>1. p.schedule \subseteq Occurrence
  BY ComparedParts
<1>2. Created(s, g, p) \subseteq Occurrence /\ Created(s, g, p) \intersect There(s) = {}
  BY <1>1, FreeIsNotThere DEF Created
<1>3. Removed(s, g, p) \subseteq Occurrence \intersect There(s)
  BY <1>1 DEF Removed, Exact
<1>4. ASSUME NEW i \in Linked(s, g, p), i \in Removed(s, g, p) PROVE FALSE
  <2>1. PICK o \in p.schedule : Weekly(g, o) /\ Exact(s, o) = {i}
    BY DEF Linked
  <2>2. s[i].slot = SlotOf(o)
    BY <2>1 DEF Exact
  <2>3. s[i].slot = SlotOf(i) /\ ~Weekly(g, i) /\ i \in Occurrence
    BY <1>1, <1>4 DEF Removed, Exact
  <2>4. i = o
    BY <1>1, <2>2, <2>3, OccurrenceInjective
  <2> QED
    BY <2>1, <2>3, <2>4
<1> QED
  BY <1>2, <1>3, <1>4 DEF Linked

LEMMA TitleType ==
    ASSUME NEW p \in Compared, NEW o
    PROVE  Title(p, o) \in Titles
<1> DEFINE mine == {a \in p.assessments : SlotOf(o).start <= a.at /\ a.at <= SlotOf(o).end}
<1>1. CASE Cardinality(mine) = 1
  <2>1. mine # {}
    BY <1>1, FS_EmptySet
  <2>2. (CHOOSE a \in mine : TRUE) \in mine
    BY <2>1
  <2>3. (CHOOSE a \in mine : TRUE) \in p.assessments
    BY <2>2
  <2>4. p \in Plans
    BY <2>3 DEF Compared
  <2>5. Title(p, o) = (CHOOSE a \in mine : TRUE).title
    BY <1>1 DEF Title
  <2> HIDE DEF mine
  <2> QED
    BY <2>3, <2>4, <2>5 DEF Titles
<1>2. CASE Cardinality(mine) # 1
  BY <1>2 DEF Title, Titles
<1> QED
  BY <1>1, <1>2

(* The session that a reconciliation adds, or titles. *)
LEMMA AddedDoc ==
    ASSUME NEW p \in Compared, NEW o \in Occurrence, NEW now \in Times
    PROVE  /\ Added(p, o, now) \in Doc
           /\ Added(p, o, now).slot = SlotOf(o) /\ Added(p, o, now).mark = None
           /\ Added(p, o, now).calendar = "scheduled" /\ Added(p, o, now).title = Title(p, o)
           /\ Added(p, o, now).updated = now
<1>1. SlotOf(o) \in {Slot(d, h) : d \in Day, h \in Hours}
  BY OccurrenceParts
<1>2. Title(p, o) \in Titles
  BY TitleType
<1>3. Added(p, o, now) = [slot |-> SlotOf(o), mark |-> None, calendar |-> "scheduled",
                          title |-> Title(p, o), created |-> now, updated |-> now]
  BY DEF Added, Blank
<1>4. Added(p, o, now) \in Doc
  BY <1>1, <1>2, <1>3 DEF Doc
<1> QED
  BY <1>3, <1>4

LEMMA TitleChanged ==
    ASSUME NEW old \in Doc, NEW title, NEW now
    PROVE  [old EXCEPT !.title = title, !.updated = now] =
             [slot |-> old.slot, mark |-> old.mark, calendar |-> old.calendar, title |-> title,
              created |-> old.created, updated |-> now]
<1> DEFINE titled == [old EXCEPT !.title = title]
<1>1. titled = [slot |-> old.slot, mark |-> old.mark, calendar |-> old.calendar, title |-> title,
                created |-> old.created, updated |-> old.updated]
  BY DEF Doc
<1>2. [old EXCEPT !.title = title, !.updated = now] = [titled EXCEPT !.updated = now]
  BY DEF Doc
<1> HIDE DEF titled
<1>3. [titled EXCEPT !.updated = now] =
        [slot |-> titled.slot, mark |-> titled.mark, calendar |-> titled.calendar,
         title |-> titled.title, created |-> titled.created, updated |-> now]
  BY <1>1
<1> QED
  BY <1>1, <1>2, <1>3

LEMMA TitledDoc ==
    ASSUME NEW s \in Listed, NEW p \in Compared, NEW i \in There(s), NEW now \in Times
    PROVE  /\ Written(s, p, i, now) \in Doc
           /\ Written(s, p, i, now).slot = s[i].slot /\ Written(s, p, i, now).mark = s[i].mark
           /\ Written(s, p, i, now).calendar = s[i].calendar
           /\ Written(s, p, i, now).title = TitleOf(s, p, i)
           /\ Written(s, p, i, now).updated = now
<1>1. s[i] \in Doc /\ s[i] # None
  BY ThereIsDoc
<1>2. TitleOf(s, p, i) \in Titles
  BY TitleType DEF TitleOf
<1>3. Written(s, p, i, now) = [s[i] EXCEPT !.title = TitleOf(s, p, i), !.updated = now]
  BY <1>1 DEF Written
<1>4. Written(s, p, i, now) = [slot |-> s[i].slot, mark |-> s[i].mark, calendar |-> s[i].calendar,
                               title |-> TitleOf(s, p, i), created |-> s[i].created, updated |-> now]
  BY <1>1, <1>3, TitleChanged
<1>5. Written(s, p, i, now) \in Doc
  BY <1>1, <1>2, <1>4 DEF Doc
<1> QED
  BY <1>4, <1>5

LEMMA AddedIsWritten ==
    ASSUME NEW s \in Listed, NEW p, NEW o \in Occurrence, o \notin There(s), NEW now
    PROVE  s[o] = None /\ Written(s, p, o, now) = Added(p, o, now)
BY OccurrenceParts DEF There, Written

(* What a reconciliation leaves of each session. *)
LEMMA ReconciledAt ==
    ASSUME NEW d \in Listed, NEW s \in Listed, Placed(s), NEW g, NEW p \in Compared,
           NEW now \in Times, NEW i \in Id
    PROVE  /\ i \in Created(s, g, p) =>
                 i \in Occurrence /\ s[i] = None /\ Reconciled(d, s, g, p, now)[i] = Added(p, i, now)
           /\ i \in Linked(s, g, p) =>
                 i \in There(s) /\ Reconciled(d, s, g, p, now)[i] = Written(s, p, i, now)
           /\ i \in Removed(s, g, p) =>
                 i \in Occurrence /\ i \in There(s) /\ Reconciled(d, s, g, p, now)[i] = None
           /\ i \notin Created(s, g, p) \union Linked(s, g, p) \union Removed(s, g, p) =>
                 Reconciled(d, s, g, p, now)[i] = d[i]
<1>1. Reconciled(d, s, g, p, now)[i] =
        IF i \in Created(s, g, p) \union Linked(s, g, p) THEN Written(s, p, i, now)
        ELSE IF i \in Removed(s, g, p) THEN None ELSE d[i]
  BY DEF Reconciled
<1>2. /\ i \in Created(s, g, p) => i \in Occurrence /\ i \notin There(s)
      /\ i \in Linked(s, g, p) => i \in There(s) /\ i \notin Removed(s, g, p)
      /\ i \in Removed(s, g, p) => i \in Occurrence /\ i \in There(s)
  BY ChangesApart
<1>3. i \in Created(s, g, p) => s[i] = None /\ Written(s, p, i, now) = Added(p, i, now)
  BY <1>2, AddedIsWritten
<1> QED
  BY <1>1, <1>2, <1>3

LEMMA ReconciledType ==
    ASSUME NEW d \in Listed, Placed(d), NEW s \in Listed, Placed(s), NEW g, NEW p \in Compared,
           NEW now \in Times
    PROVE  Reconciled(d, s, g, p, now) \in Listed /\ Placed(Reconciled(d, s, g, p, now))
<1> DEFINE e == Reconciled(d, s, g, p, now)
<1>1. ASSUME NEW i \in Id
      PROVE  e[i] \in Doc \union {None} /\ (e[i] # None => PlacedAt(e, i))
  <2>1. CASE i \in Created(s, g, p)
    <3>1. i \in Occurrence /\ e[i] = Added(p, i, now)
      BY <2>1, ReconciledAt
    <3>2. e[i] \in Doc /\ e[i].slot = SlotOf(i)
      BY <3>1, AddedDoc
    <3> HIDE DEF e
    <3> QED
      BY <3>1, <3>2, OccurrenceParts DEF PlacedAt
  <2>2. CASE i \in Linked(s, g, p)
    <3>1. i \in There(s) /\ e[i] = Written(s, p, i, now)
      BY <2>2, ReconciledAt
    <3>2. e[i] \in Doc /\ e[i].slot = s[i].slot
      BY <3>1, TitledDoc
    <3>3. PlacedAt(s, i)
      BY <3>1 DEF Placed
    <3> HIDE DEF e
    <3> QED
      BY <3>2, <3>3 DEF PlacedAt
  <2>3. CASE i \in Removed(s, g, p)
    BY <2>3, ReconciledAt
  <2>4. CASE i \notin Created(s, g, p) \union Linked(s, g, p) \union Removed(s, g, p)
    <3>1. e[i] = d[i]
      BY <2>4, ReconciledAt
    <3>2. d[i] \in Doc \union {None}
      BY DEF Listed
    <3>3. d[i] # None => PlacedAt(d, i)
      BY DEF Placed, There
    <3> HIDE DEF e
    <3> QED
      BY <3>1, <3>2, <3>3 DEF PlacedAt
  <2> QED
    BY <2>1, <2>2, <2>3, <2>4
<1>2. e = [i \in Id |-> e[i]]
  BY DEF Reconciled
<1> HIDE DEF e
<1>3. e \in Listed
  BY <1>1, <1>2 DEF Listed
<1>4. Placed(e)
  BY <1>1 DEF Placed, There
<1> QED
  BY <1>3, <1>4 DEF e

-----------------------------------------------------------------------------
(* Meetings of a schedule do not overlap, and neither do the sessions they *)
(* stand for, unless attendance kept one of them where it was.             *)
Apart(g) ==
    \A m, n \in Meeting : m # n /\ g[m] # None /\ g[n] # None => ~Overlap(g[m].hours, g[n].hours)
Clash(s, i, j) ==
    i # j /\ Overlap(s[i].slot, s[j].slot) /\ s[i].mark = None /\ s[j].mark = None
Clear(s) == \A i, j \in There(s) : ~Clash(s, i, j)

(* Sessions that a reconciliation adds for meetings do not overlap.        *)
LEMMA CreatedApart ==
    ASSUME NEW s \in Listed, Placed(s), NEW g, Apart(g), NEW p \in Compared,
           NEW o \in Created(s, g, p), NEW q \in Created(s, g, p), o # q
    PROVE  ~Overlap(SlotOf(o), SlotOf(q))
<1> SUFFICES ASSUME Overlap(SlotOf(o), SlotOf(q)) PROVE FALSE
  OBVIOUS
<1>1. o \in Occurrence /\ q \in Occurrence
  BY ChangesApart
<1>2. /\ o[1] \in Day /\ q[1] \in Day /\ o[2] \in Hours /\ q[2] \in Hours
      /\ o = <<o[1], o[2]>> /\ q = <<q[1], q[2]>>
      /\ SlotOf(o) = Slot(o[1], o[2]) /\ SlotOf(q) = Slot(q[1], q[2])
  BY <1>1, OccurrenceParts
<1>3. o[1] = q[1]
  BY <1>2, OneDay
<1>4. o[2] # q[2] /\ Overlap(o[2], q[2])
  BY <1>2, <1>3, OverlapOfHours
<1>5. PICK m \in Meeting : g[m] # None /\ g[m].hours = o[2]
  BY DEF Created, Weekly
<1>6. PICK n \in Meeting : g[n] # None /\ g[n].hours = q[2]
  BY DEF Created, Weekly
<1> QED
  BY <1>4, <1>5, <1>6 DEF Apart

(* A session that is there afterwards was added, or stands where it stood. *)
LEMMA ReconciledSession ==
    ASSUME NEW s \in Listed, Placed(s), NEW g, NEW p \in Compared, NEW now \in Times,
           NEW i \in There(Reconciled(s, s, g, p, now))
    PROVE  LET e == Reconciled(s, s, g, p, now) IN
           /\ i \notin Removed(s, g, p)
           /\ i \in Created(s, g, p) =>
                /\ i \in Occurrence /\ s[i] = None /\ e[i] = Added(p, i, now)
                /\ e[i].slot = SlotOf(i) /\ e[i].mark = None
           /\ i \notin Created(s, g, p) =>
                /\ i \in There(s)
                /\ e[i].slot = s[i].slot /\ e[i].mark = s[i].mark /\ e[i].calendar = s[i].calendar
           /\ i \notin Created(s, g, p) \union Linked(s, g, p) => e[i] = s[i]
<1> DEFINE e == Reconciled(s, s, g, p, now)
<1>1. i \in Id /\ e[i] # None
  BY DEF There
<1>2. i \notin Removed(s, g, p)
  BY <1>1, ReconciledAt
<1>3. CASE i \in Created(s, g, p)
  <2>1. i \in Occurrence /\ s[i] = None /\ e[i] = Added(p, i, now)
    BY <1>1, <1>3, ReconciledAt
  <2>2. e[i].slot = SlotOf(i) /\ e[i].mark = None
    BY <2>1, AddedDoc
  <2> QED
    BY <1>2, <1>3, <2>1, <2>2
<1>4. CASE i \in Linked(s, g, p)
  <2>1. i \in There(s) /\ e[i] = Written(s, p, i, now)
    BY <1>1, <1>4, ReconciledAt
  <2>2. e[i].slot = s[i].slot /\ e[i].mark = s[i].mark /\ e[i].calendar = s[i].calendar
    BY <2>1, TitledDoc
  <2>3. i \notin Created(s, g, p)
    BY <2>1, ChangesApart
  <2> QED
    BY <1>2, <1>4, <2>1, <2>2, <2>3
<1>5. CASE i \notin Created(s, g, p) \union Linked(s, g, p)
  <2>1. e[i] = s[i]
    BY <1>1, <1>2, <1>5, ReconciledAt
  <2>2. i \in There(s)
    BY <1>1, <2>1 DEF There
  <2> QED
    BY <1>2, <1>5, <2>1, <2>2
<1> QED
  BY <1>3, <1>4, <1>5

LEMMA ReconciledClear ==
    ASSUME NEW s \in Listed, Placed(s), Clear(s), NEW g, Apart(g), NEW p \in Compared,
           NEW now \in Times
    PROVE  Clear(Reconciled(s, s, g, p, now))
<1> DEFINE e == Reconciled(s, s, g, p, now)
<1> SUFFICES ASSUME NEW i \in There(e), NEW j \in There(e), Clash(e, i, j) PROVE FALSE
  BY DEF Clear
<1>1. i # j /\ Overlap(e[i].slot, e[j].slot) /\ e[i].mark = None /\ e[j].mark = None
  BY DEF Clash
<1>2. ASSUME NEW a \in There(e), NEW b \in There(e), a \in Created(s, g, p),
             b \notin Created(s, g, p), Overlap(e[b].slot, e[a].slot)
      PROVE  FALSE
  <2>1. e[a].slot = SlotOf(a) /\ Overlapping(s, a) = {}
    BY <1>2, ReconciledSession DEF Created
  <2>2. b \in There(s) /\ e[b].slot = s[b].slot
    BY <1>2, ReconciledSession
  <2>3. Overlap(s[b].slot, SlotOf(a))
    BY <1>2, <2>1, <2>2
  <2> QED
    BY <2>1, <2>2, <2>3 DEF Overlapping
<1>3. CASE i \in Created(s, g, p) /\ j \in Created(s, g, p)
  <2>1. e[i].slot = SlotOf(i) /\ e[j].slot = SlotOf(j)
    BY <1>3, ReconciledSession
  <2> QED
    BY <1>1, <1>3, <2>1, CreatedApart
<1>4. CASE i \in Created(s, g, p) /\ j \notin Created(s, g, p)
  BY <1>1, <1>2, <1>4, OverlapSymmetric
<1>5. CASE i \notin Created(s, g, p) /\ j \in Created(s, g, p)
  BY <1>1, <1>2, <1>5
<1>6. CASE i \notin Created(s, g, p) /\ j \notin Created(s, g, p)
  <2>1. /\ i \in There(s) /\ e[i].slot = s[i].slot /\ e[i].mark = s[i].mark
        /\ j \in There(s) /\ e[j].slot = s[j].slot /\ e[j].mark = s[j].mark
    BY <1>6, ReconciledSession
  <2> HIDE DEF e
  <2> QED
    BY <1>1, <2>1 DEF Clear, Clash
<1> QED
  BY <1>3, <1>4, <1>5, <1>6

-----------------------------------------------------------------------------
(* A reconciliation of the sessions as they are stored.                    *)
LEMMA ReconciledThere ==
    ASSUME NEW s \in Listed, Placed(s), NEW g, NEW p \in Compared, NEW now \in Times
    PROVE  There(Reconciled(s, s, g, p, now)) = (There(s) \ Removed(s, g, p)) \union Created(s, g, p)
<1> DEFINE e == Reconciled(s, s, g, p, now)
<1>1. ASSUME NEW i \in There(e) PROVE i \in (There(s) \ Removed(s, g, p)) \union Created(s, g, p)
  BY ReconciledSession
<1>2. ASSUME NEW i \in Created(s, g, p) PROVE i \in There(e)
  <2>1. i \in Occurrence /\ i \in Id
    BY ChangesApart, OccurrenceParts
  <2>2. e[i] = Added(p, i, now)
    BY <2>1, ReconciledAt
  <2>3. e[i] \in Doc
    BY <2>1, <2>2, AddedDoc
  <2> HIDE DEF e
  <2> QED
    BY <2>1, <2>3, NoneAssumption DEF There
<1>3. ASSUME NEW i \in There(s), i \notin Removed(s, g, p), i \notin Created(s, g, p)
      PROVE  i \in There(e)
  <2>1. i \in Id /\ s[i] # None
    BY DEF There
  <2>2. CASE i \in Linked(s, g, p)
    <3>1. e[i] = Written(s, p, i, now)
      BY <2>1, <2>2, ReconciledAt
    <3>2. e[i] \in Doc
      BY <3>1, TitledDoc
    <3> HIDE DEF e
    <3> QED
      BY <2>1, <3>2, NoneAssumption DEF There
  <2>3. CASE i \notin Linked(s, g, p)
    <3>1. e[i] = s[i]
      BY <1>3, <2>1, <2>3, ReconciledAt
    <3> HIDE DEF e
    <3> QED
      BY <2>1, <3>1 DEF There
  <2> QED
    BY <2>2, <2>3
<1> HIDE DEF e
<1>4. There(e) = (There(s) \ Removed(s, g, p)) \union Created(s, g, p)
  BY <1>1, <1>2, <1>3
<1> QED
  BY <1>4 DEF e

(* A session it leaves alone or titles is at the time it was at, and a     *)
(* session at a weekly occurrence is not one it removes.                   *)
LEMMA ReconciledExact ==
    ASSUME NEW s \in Listed, Placed(s), NEW g, NEW p \in Compared, NEW now \in Times,
           NEW o \in p.schedule, NEW j \in Exact(s, o)
    PROVE  \/ j = o /\ o \in Removed(s, g, p)
           \/ j \in Exact(Reconciled(s, s, g, p, now), o)
<1> DEFINE e == Reconciled(s, s, g, p, now)
<1>1. o \in Occurrence /\ j \in There(s) /\ s[j].slot = SlotOf(o)
  BY ComparedParts DEF Exact
<1>2. CASE j \in Removed(s, g, p)
  <2>1. j \in Occurrence
    BY <1>2, ChangesApart
  <2>2. s[j].slot = SlotOf(j)
    BY <1>1, <2>1 DEF Placed, PlacedAt
  <2>3. j = o
    BY <1>1, <2>1, <2>2, OccurrenceInjective
  <2> QED
    BY <1>2, <2>3
<1>3. CASE j \notin Removed(s, g, p)
  <2>1. j \in There(e) /\ j \notin Created(s, g, p)
    BY <1>1, <1>3, ReconciledThere, ChangesApart
  <2>2. e[j].slot = s[j].slot
    BY <2>1, ReconciledSession
  <2> HIDE DEF e
  <2>3. j \in Exact(e, o)
    BY <1>1, <2>1, <2>2 DEF Exact
  <2> QED
    BY <2>3 DEF e
<1> QED
  BY <1>2, <1>3

(* There is nothing more to remove. *)
LEMMA NothingToRemove ==
    ASSUME NEW s \in Listed, Placed(s), NEW g, NEW p \in Compared, NEW now \in Times
    PROVE  Removed(Reconciled(s, s, g, p, now), g, p) = {}
<1> DEFINE e == Reconciled(s, s, g, p, now)
<1> SUFFICES ASSUME NEW o \in Removed(e, g, p) PROVE FALSE
  OBVIOUS
<1> HIDE DEF e
<1>1. /\ o \in p.schedule /\ ~Weekly(g, o) /\ Exact(e, o) = {o} /\ Unmodified(e[o])
      /\ o \in There(e)
  BY DEF Removed, Exact
<1>2. o \in Occurrence
  BY <1>1, ComparedParts
<1>3. o \notin Created(s, g, p)
  BY <1>1 DEF Created
<1>4. o \in There(s) /\ o \notin Removed(s, g, p) /\ (o \notin Linked(s, g, p) => e[o] = s[o])
  BY <1>1, <1>3, ReconciledSession DEF e
<1>5. s[o].slot = SlotOf(o)
  BY <1>2, <1>4 DEF Placed, PlacedAt
<1>6. o \notin Linked(s, g, p)
  <2> SUFFICES ASSUME NEW q \in p.schedule, Weekly(g, q), Exact(s, q) = {o} PROVE FALSE
    BY DEF Linked
  <2>1. s[o].slot = SlotOf(q) /\ q \in Occurrence
    BY ComparedParts DEF Exact
  <2>2. q = o
    BY <1>2, <1>5, <2>1, OccurrenceInjective
  <2> QED
    BY <1>1, <2>2
<1>7. Unmodified(s[o])
  BY <1>1, <1>4, <1>6
<1>8. o \in Exact(s, o)
  BY <1>4, <1>5 DEF Exact
<1>9. PICK j \in Exact(s, o) : j # o
  BY <1>1, <1>4, <1>7, <1>8 DEF Removed
<1>10. j \in Exact(e, o)
  BY <1>1, <1>9, ReconciledExact DEF e
<1> QED
  BY <1>1, <1>9, <1>10

(* There is nothing more to title. *)
LEMMA NothingToLink ==
    ASSUME NEW s \in Listed, Placed(s), NEW g, NEW p \in Compared, NEW now \in Times
    PROVE  Linked(Reconciled(s, s, g, p, now), g, p) = {}
<1> DEFINE e == Reconciled(s, s, g, p, now)
<1> SUFFICES ASSUME NEW i \in Linked(e, g, p) PROVE FALSE
  OBVIOUS
<1> HIDE DEF e
<1>1. PICK o \in p.schedule : Weekly(g, o) /\ Exact(e, o) = {i} /\ Title(p, o) # None
  BY DEF Linked
<1>2. i \in There(e) /\ e[i].title = None /\ e[i].slot = SlotOf(o) /\ o \in Occurrence
  BY <1>1, ComparedParts DEF Linked, Exact
<1>3. CASE i \in Created(s, g, p)
  <2>1. i \in Occurrence /\ e[i] = Added(p, i, now) /\ e[i].slot = SlotOf(i)
    BY <1>2, <1>3, ReconciledSession DEF e
  <2>2. i = o
    BY <1>2, <2>1, OccurrenceInjective
  <2>3. e[i].title = Title(p, i)
    BY <2>1, AddedDoc
  <2> QED
    BY <1>1, <1>2, <2>2, <2>3
<1>4. CASE i \in Linked(s, g, p)
  <2>1. i \in Id /\ i \in There(s)
    BY <1>4 DEF Linked, There
  <2>2. e[i] = Written(s, p, i, now)
    BY <1>4, <2>1, ReconciledAt DEF e
  <2>3. e[i].title = TitleOf(s, p, i) /\ e[i].slot = s[i].slot
    BY <2>1, <2>2, TitledDoc
  <2>4. \A q \in p.schedule : SlotOf(q) = s[i].slot => q = o
    BY <1>2, <2>3, ComparedParts, OccurrenceInjective
  <2>5. TitleOf(s, p, i) = Title(p, o)
    BY <1>2, <2>3, <2>4 DEF TitleOf
  <2> QED
    BY <1>1, <1>2, <2>3, <2>5
<1>5. CASE i \notin Created(s, g, p) \union Linked(s, g, p)
  <2>1. i \in There(s) /\ e[i] = s[i]
    BY <1>2, <1>5, ReconciledSession DEF e
  <2>2. i \in Exact(s, o)
    BY <1>2, <2>1 DEF Exact
  <2>3. PICK j \in Exact(s, o) : j # i
    <3>1. Exact(s, o) # {i}
      BY <1>1, <1>2, <1>5, <2>1 DEF Linked
    <3> QED
      BY <2>2, <3>1
  <2>4. o \notin Removed(s, g, p)
    BY <1>1 DEF Removed
  <2>5. j \in Exact(e, o)
    BY <2>3, <2>4, ReconciledExact DEF e
  <2> QED
    BY <1>1, <2>3, <2>5
<1> QED
  BY <1>3, <1>4, <1>5

(* There is nothing more to add, but where a session it removed was in the *)
(* way.                                                                    *)
LEMMA LittleToCreate ==
    ASSUME NEW s \in Listed, Placed(s), NEW g, NEW p \in Compared, NEW now \in Times,
           NEW o \in Created(Reconciled(s, s, g, p, now), g, p)
    PROVE  \E r \in Removed(s, g, p) : Overlap(SlotOf(o), SlotOf(r))
<1> DEFINE e == Reconciled(s, s, g, p, now)
<1>1. o \in p.schedule /\ Weekly(g, o) /\ Overlapping(e, o) = {} /\ o \in Occurrence
  BY ComparedParts DEF Created
<1>2. o \notin There(e)
  <2>1. Placed(e)
    BY ReconciledType
  <2> HIDE DEF e
  <2> QED
    BY <1>1, <2>1, FreeIsNotThere
<1>3. o \notin Created(s, g, p)
  BY <1>2, ReconciledThere
<1>4. PICK j \in There(s) : Overlap(s[j].slot, SlotOf(o))
  BY <1>1, <1>3 DEF Created, Overlapping
<1>5. CASE j \in Removed(s, g, p)
  <2>1. s[j].slot = SlotOf(j)
    BY <1>5, ChangesApart DEF Placed, PlacedAt
  <2> QED
    BY <1>4, <1>5, <2>1, OverlapSymmetric
<1>6. CASE j \notin Removed(s, g, p)
  <2>1. j \in There(e) /\ j \notin Created(s, g, p)
    BY <1>6, ReconciledThere, ChangesApart
  <2>2. e[j].slot = s[j].slot
    BY <2>1, ReconciledSession
  <2> HIDE DEF e
  <2> QED
    BY <1>1, <1>4, <2>1, <2>2 DEF Overlapping
<1> QED
  BY <1>5, <1>6

(* The lessons it answered with are those there are. *)
LEMMA WorkloadTold ==
    ASSUME NEW s \in Listed, Placed(s), NEW g, NEW p \in Compared, NEW now \in Times
    PROVE  Told(s, g, p, now) = Workload(Reconciled(s, s, g, p, now))
<1> DEFINE e == Reconciled(s, s, g, p, now)
           doc(i) == IF s[i] = None THEN Added(p, i, now) ELSE s[i]
<1>1. Effective(s, g, p) = There(e)
  BY ReconciledThere DEF Effective
<1>2. ASSUME NEW i \in There(e)
      PROVE  doc(i).calendar = e[i].calendar /\ doc(i).slot = e[i].slot
  <2>1. CASE i \in Created(s, g, p)
    <3>1. s[i] = None /\ e[i] = Added(p, i, now)
      BY <2>1, ReconciledSession
    <3> QED
      BY <3>1
  <2>2. CASE i \notin Created(s, g, p)
    <3>1. i \in There(s) /\ e[i].slot = s[i].slot /\ e[i].calendar = s[i].calendar
      BY <2>2, ReconciledSession
    <3> QED
      BY <3>1 DEF There
  <2> QED
    BY <2>1, <2>2
<1>3. \A i \in There(e) : Held(doc(i)) <=> Held(e[i])
  BY <1>2 DEF Held
<1>4. Told(s, g, p, now) =
        SumFunction([i \in {j \in Effective(s, g, p) : Held(doc(j))} |-> Lessons(doc(i).slot)])
  BY DEF Told
<1> HIDE DEF e, doc
<1>5. {j \in Effective(s, g, p) : Held(doc(j))} = {j \in There(e) : Held(e[j])}
  BY <1>1, <1>3
<1>6. [i \in {j \in Effective(s, g, p) : Held(doc(j))} |-> Lessons(doc(i).slot)] =
        [i \in {j \in There(e) : Held(e[j])} |-> Lessons(e[i].slot)]
  <2> DEFINE held == {j \in There(e) : Held(e[j])}
  <2>1. \A i \in held : Lessons(doc(i).slot) = Lessons(e[i].slot)
    BY <1>2
  <2> HIDE DEF held
  <2>2. [i \in held |-> Lessons(doc(i).slot)] = [i \in held |-> Lessons(e[i].slot)]
    BY <2>1
  <2> QED
    BY <1>5, <2>2 DEF held
<1>7. Workload(e) = SumFunction([i \in {j \in There(e) : Held(e[j])} |-> Lessons(e[i].slot)])
  BY DEF Workload
<1>8. Told(s, g, p, now) = Workload(e)
  BY <1>4, <1>6, <1>7
<1> QED
  BY <1>8 DEF e

-----------------------------------------------------------------------------
(* What a schedule that is saved does to the sessions d and the meetings g. *)
Rescheduled(d, x) ==
    [i \in Id |-> IF i \in Upserts(x) THEN Generated(x, i)
                  ELSE IF i \in Obsolete(x) THEN None ELSE d[i]]
Regraded(g, x) ==
    [m \in Meeting |-> IF m \in MeetingUpserts(x) THEN MeetingWritten(x, m)
                       ELSE IF m \notin DOMAIN x.arg.weekly /\ x.meetings[m] # None THEN None
                       ELSE g[m]]

(* What a call that saves a schedule has read when it commits. *)
Read(x) ==
    /\ x.arg \in Asks /\ x.now \in Times
    /\ x.sessions \in Listed /\ Placed(x.sessions) /\ x.meetings \in Graded

LEMMA AskParts ==
    ASSUME NEW ask \in Asks
    PROVE  /\ DOMAIN ask.weekly \subseteq Meeting
           /\ \A m \in DOMAIN ask.weekly : ask.weekly[m] \in Hours
<1>1. ask.weekly \in WeeklySchedules
  BY SchedulesAssumption
<1>2. PICK meetings \in SUBSET Meeting : ask.weekly \in [meetings -> Hours]
  BY <1>1 DEF WeeklySchedules
<1> QED
  BY <1>2

LEMMA DesiredParts ==
    ASSUME NEW weekly, DOMAIN weekly \subseteq Meeting,
           \A m \in DOMAIN weekly : weekly[m] \in Hours, NEW i \in Desired(weekly)
    PROVE  /\ i[1] \in Day /\ i[2] \in DOMAIN weekly /\ weekly[i[2]] \in Hours
           /\ i = <<i[1], i[2]>> /\ i \in Id /\ i \notin Occurrence
           /\ DesiredSlot(weekly, i) = Slot(i[1], weekly[i[2]])
<1>0. i \in Period \X DOMAIN weekly
  BY DEF Desired
<1>1. i[1] \in Day /\ i[2] \in DOMAIN weekly /\ i[2] \in Meeting /\ i = <<i[1], i[2]>>
  <2> DEFINE ms == DOMAIN weekly
  <2>1. i \in Period \X ms
    BY <1>0
  <2> HIDE DEF ms
  <2>2. i[1] \in Period /\ i[2] \in ms /\ i = <<i[1], i[2]>>
    BY <2>1
  <2> QED
    BY <2>2, DaysAssumption DEF ms
<1>2. i[2] \notin Hours
  BY <1>1, IdAssumption
<1> QED
  BY <1>1, <1>2 DEF Id, Occurrence, DesiredSlot

LEMMA BlankDoc ==
    ASSUME NEW slot \in {Slot(d, h) : d \in Day, h \in Hours}, NEW now \in Times
    PROVE  /\ Blank(slot, None, now) \in Doc
           /\ Blank(slot, None, now).slot = slot /\ Blank(slot, None, now).mark = None
<1>1. Blank(slot, None, now) = [slot |-> slot, mark |-> None, calendar |-> "scheduled",
                                title |-> None, created |-> now, updated |-> now]
  BY DEF Blank
<1> QED
  BY <1>1 DEF Doc, Titles

(* The session that a schedule generates. *)
LEMMA GeneratedDoc ==
    ASSUME NEW x, Read(x), NEW i \in Desired(x.arg.weekly)
    PROVE  /\ Generated(x, i) \in Doc
           /\ Generated(x, i).slot = DesiredSlot(x.arg.weekly, i) /\ Generated(x, i).mark = None
<1> DEFINE slot == DesiredSlot(x.arg.weekly, i)
           new == Blank(slot, None, x.now)
           old == x.sessions[i]
<1>1. i \in Id /\ slot \in {Slot(d, h) : d \in Day, h \in Hours} /\ x.now \in Times
  BY AskParts, DesiredParts DEF Read
<1>2. CASE old = None
  BY <1>1, <1>2, BlankDoc DEF Generated
<1>3. CASE old # None
  <2>1. old \in Doc
    BY <1>1, <1>3 DEF Read, Listed
  <2>2. new = [slot |-> slot, mark |-> None, calendar |-> "scheduled", title |-> None,
               created |-> x.now, updated |-> x.now]
    BY DEF Blank
  <2>3. Generated(x, i) = [new EXCEPT !.calendar = old.calendar, !.title = old.title,
                                      !.created = old.created]
    BY <1>3 DEF Generated
  <2> HIDE DEF new, old, slot
  <2>4. Generated(x, i) = [slot |-> slot, mark |-> None, calendar |-> old.calendar,
                           title |-> old.title, created |-> old.created, updated |-> x.now]
    BY <2>2, <2>3
  <2>5. Generated(x, i) \in Doc
    BY <1>1, <2>1, <2>4 DEF Doc
  <2> QED
    BY <2>4, <2>5 DEF slot
<1> QED
  BY <1>2, <1>3

LEMMA RescheduledType ==
    ASSUME NEW d \in Listed, Placed(d), NEW x, Read(x)
    PROVE  Rescheduled(d, x) \in Listed /\ Placed(Rescheduled(d, x))
<1> DEFINE e == Rescheduled(d, x)
<1>1. ASSUME NEW i \in Id
      PROVE  e[i] \in Doc \union {None} /\ (e[i] # None => PlacedAt(e, i))
  <2>0. e[i] = IF i \in Upserts(x) THEN Generated(x, i)
               ELSE IF i \in Obsolete(x) THEN None ELSE d[i]
    BY DEF Rescheduled
  <2> HIDE DEF e
  <2>1. CASE i \in Upserts(x)
    <3>1. i \in Desired(x.arg.weekly) /\ e[i] = Generated(x, i)
      BY <2>0, <2>1 DEF Upserts
    <3>2. e[i] \in Doc /\ e[i].slot = DesiredSlot(x.arg.weekly, i)
      BY <3>1, GeneratedDoc
    <3>3. i \notin Occurrence /\ x.arg.weekly[i[2]] \in Hours
          /\ DesiredSlot(x.arg.weekly, i) = Slot(i[1], x.arg.weekly[i[2]])
      BY <3>1, AskParts, DesiredParts DEF Read
    <3> QED
      BY <3>2, <3>3 DEF PlacedAt
  <2>2. CASE i \notin Upserts(x) /\ i \in Obsolete(x)
    BY <2>0, <2>2
  <2>3. CASE i \notin Upserts(x) /\ i \notin Obsolete(x)
    <3>1. e[i] = d[i]
      BY <2>0, <2>3
    <3>2. d[i] \in Doc \union {None} /\ (d[i] # None => PlacedAt(d, i))
      BY DEF Placed, There, Listed
    <3> QED
      BY <3>1, <3>2 DEF PlacedAt
  <2> QED
    BY <2>1, <2>2, <2>3
<1>2. e = [i \in Id |-> e[i]]
  BY DEF Rescheduled
<1> HIDE DEF e
<1>3. e \in Listed
  BY <1>1, <1>2 DEF Listed
<1>4. Placed(e)
  BY <1>1 DEF Placed, There
<1> QED
  BY <1>3, <1>4 DEF e

(* Sessions that stand where a schedule without overlaps wants them, but   *)
(* for those whose attendance keeps them elsewhere, do not overlap.        *)
LEMMA DesiredClear ==
    ASSUME NEW weekly, DOMAIN weekly \subseteq Meeting,
           \A m \in DOMAIN weekly : weekly[m] \in Hours, Consistent(weekly),
           NEW e, \A i \in There(e) : /\ i \in Desired(weekly)
                                      /\ e[i].slot = DesiredSlot(weekly, i) \/ e[i].mark # None
    PROVE  Clear(e)
<1> SUFFICES ASSUME NEW i \in There(e), NEW j \in There(e), Clash(e, i, j) PROVE FALSE
  BY DEF Clear
<1>1. /\ i # j /\ i \in Desired(weekly) /\ j \in Desired(weekly)
      /\ Overlap(DesiredSlot(weekly, i), DesiredSlot(weekly, j))
  BY DEF Clash
<1>2. /\ i[1] \in Day /\ i[2] \in DOMAIN weekly /\ weekly[i[2]] \in Hours /\ i = <<i[1], i[2]>>
      /\ DesiredSlot(weekly, i) = Slot(i[1], weekly[i[2]])
  BY <1>1, DesiredParts
<1>3. /\ j[1] \in Day /\ j[2] \in DOMAIN weekly /\ weekly[j[2]] \in Hours /\ j = <<j[1], j[2]>>
      /\ DesiredSlot(weekly, j) = Slot(j[1], weekly[j[2]])
  BY <1>1, DesiredParts
<1>4. i[1] = j[1]
  BY <1>1, <1>2, <1>3, OneDay
<1>5. i[2] # j[2] /\ Overlap(weekly[i[2]], weekly[j[2]])
  BY <1>1, <1>2, <1>3, <1>4, OverlapOfHours
<1> QED
  BY <1>2, <1>3, <1>5 DEF Consistent

LEMMA RescheduledClear ==
    ASSUME NEW x, Read(x), Consistent(x.arg.weekly)
    PROVE  Clear(Rescheduled(x.sessions, x))
<1> DEFINE e == Rescheduled(x.sessions, x)
<1>1. ASSUME NEW i \in There(e)
      PROVE  /\ i \in Desired(x.arg.weekly)
             /\ e[i].slot = DesiredSlot(x.arg.weekly, i) \/ e[i].mark # None
  <2>1. i \in Id /\ e[i] # None
    BY DEF There
  <2>2. e[i] = IF i \in Upserts(x) THEN Generated(x, i)
               ELSE IF i \in Obsolete(x) THEN None ELSE x.sessions[i]
    BY <2>1 DEF Rescheduled
  <2> HIDE DEF e
  <2>3. CASE i \in Upserts(x)
    BY <2>2, <2>3, GeneratedDoc DEF Upserts
  <2>4. CASE i \notin Upserts(x)
    <3>1. i \notin Obsolete(x) /\ e[i] = x.sessions[i]
      BY <2>1, <2>2, <2>4
    <3>2. i \in Desired(x.arg.weekly)
      BY <2>1, <3>1 DEF Obsolete, There
    <3>3. Kept(x, i)
      BY <2>4, <3>2 DEF Upserts
    <3> QED
      BY <3>1, <3>2, <3>3 DEF Kept
  <2> QED
    BY <2>3, <2>4
<1>2. /\ DOMAIN x.arg.weekly \subseteq Meeting
      /\ \A m \in DOMAIN x.arg.weekly : x.arg.weekly[m] \in Hours
  BY AskParts DEF Read
<1> HIDE DEF e
<1>3. Clear(e)
  BY <1>1, <1>2, DesiredClear
<1> QED
  BY <1>3 DEF e

LEMMA RegradedType ==
    ASSUME NEW g \in Graded, NEW x, Read(x)
    PROVE  Regraded(g, x) \in Graded
<1>1. ASSUME NEW m \in MeetingUpserts(x) PROVE MeetingWritten(x, m) \in MeetingDoc
  <2>1. m \in Meeting /\ x.arg.weekly[m] \in Hours /\ x.now \in Times
    BY AskParts DEF MeetingUpserts, Read
  <2>2. x.meetings[m] # None => x.meetings[m].created \in Times
    BY <2>1 DEF Read, Graded, MeetingDoc
  <2> QED
    BY <2>1, <2>2 DEF MeetingWritten, MeetingDoc
<1> QED
  BY <1>1 DEF Regraded, Graded

LEMMA RegradedApart ==
    ASSUME NEW x, Read(x), Consistent(x.arg.weekly)
    PROVE  Apart(Regraded(x.meetings, x))
<1> DEFINE g == Regraded(x.meetings, x)
<1>1. ASSUME NEW m \in Meeting, g[m] # None
      PROVE  m \in DOMAIN x.arg.weekly /\ g[m].hours = x.arg.weekly[m]
  <2>1. g[m] = IF m \in MeetingUpserts(x) THEN MeetingWritten(x, m)
               ELSE IF m \notin DOMAIN x.arg.weekly /\ x.meetings[m] # None THEN None
               ELSE x.meetings[m]
    BY DEF Regraded
  <2> HIDE DEF g
  <2>2. CASE m \in MeetingUpserts(x)
    BY <2>1, <2>2 DEF MeetingUpserts, MeetingWritten
  <2>3. CASE m \notin MeetingUpserts(x)
    <3>1. x.meetings[m] # None /\ m \in DOMAIN x.arg.weekly /\ g[m] = x.meetings[m]
      BY <1>1, <2>1, <2>3
    <3> QED
      BY <2>3, <3>1 DEF MeetingUpserts
  <2> QED
    BY <2>2, <2>3
<1> HIDE DEF g
<1>2. Apart(g)
  BY <1>1 DEF Apart, Consistent
<1> QED
  BY <1>2 DEF g

-----------------------------------------------------------------------------
(* What an invocation has read at each of its steps. *)
Fields == {"kind", "pc", "arg", "sessions", "meetings", "now"}
Reconciling(x) ==
    /\ x.kind = "reconcile" /\ x.pc \in {"sessions", "meetings", "now", "commit"}
    /\ x.arg \in Compared
    /\ x.pc # "sessions" => x.sessions \in Listed /\ Placed(x.sessions)
    /\ x.pc \in {"now", "commit"} => x.meetings \in Graded
    /\ x.pc = "commit" => x.now \in Times
Saving(x) ==
    /\ x.kind = "schedule" /\ x.pc \in {"meetings", "sessions", "now", "commit"}
    /\ x.arg \in Asks
    /\ x.pc # "meetings" => x.meetings \in Graded
    /\ x.pc \in {"now", "commit"} => x.sessions \in Listed /\ Placed(x.sessions)
    /\ x.pc = "commit" => x.now \in Times
Editing(x) ==
    /\ x.kind = "edit" /\ x.pc \in {"now", "commit"}
    /\ x.arg.id \in Id /\ x.arg.edit \in Edits
    /\ x.pc = "commit" => x.now \in Times
Knows(x) == DOMAIN x = Fields /\ (x = Idle \/ Reconciling(x) \/ Saving(x) \/ Editing(x))
Knowing == DOMAIN call = Calls /\ \A k \in Calls : Knows(call[k])

Inv ==
    /\ TypeOK /\ Knowing /\ Placed(docs)
    /\ calm => Apart(grade)
    /\ calm => Clear(docs)

LEMMA ClearIsNoOverlap == (calm => Clear(docs)) <=> OverlapHasCause
BY DEF Clear, Clash, OverlapHasCause

LEMMA IdleParts ==
    Knows(Idle) /\ Idle.kind = "none" /\ Idle.pc = "idle" /\ DOMAIN Idle = Fields
BY DEF Knows, Idle, Fields

LEMMA TypeParts ==
    ASSUME TypeOK
    PROVE  docs \in Listed /\ grade \in Graded
BY DEF TypeOK, Listed, Graded

LEMMA CallStep ==
    ASSUME Knowing, NEW k \in Calls, NEW x, Knows(x), Become(k, x)
    PROVE  Knowing' /\ call'[k] = x
BY DEF Knowing, Become

LEMMA LocalStep ==
    ASSUME Inv, Knowing', UNCHANGED <<docs, grade, plan, course, clock, mix, calm>>
    PROVE  Inv'
<1>1. TypeOK' /\ Placed(docs)'
  BY DEF Inv, TypeOK, Placed, PlacedAt, There
<1>2. (calm => Apart(grade))' /\ (calm => Clear(docs))'
  BY DEF Inv, Apart, Clear, Clash, There
<1> QED
  BY <1>1, <1>2 DEF Inv

(* What a call is doing tells its kind. *)
LEMMA KindOf ==
    ASSUME NEW x, Knows(x)
    PROVE  /\ x.kind = "reconcile" => Reconciling(x)
           /\ x.kind = "schedule" => Saving(x)
           /\ x.kind = "edit" => Editing(x)
           /\ x.kind \notin {"reconcile", "schedule", "edit"} => x = Idle
           /\ DOMAIN x = Fields
BY IdleParts DEF Knows, Reconciling, Saving, Editing

LEMMA StartsInv ==
    ASSUME Inv, NEW k \in Calls, NEW x, Knows(x), Become(k, x),
           UNCHANGED <<docs, grade, plan, course, clock, mix, calm>>
    PROVE  Inv'
BY CallStep, LocalStep DEF Inv

LEMMA LoadPlanInv == ASSUME Inv, NEW k \in Calls, LoadPlan(k) PROVE Inv'
<1> DEFINE x == [Idle EXCEPT !.kind = "reconcile", !.pc = "sessions", !.arg = PlanRead]
<1>1. PlanRead \in Compared
  BY DEF PlanRead, Compared, Inv, TypeOK
<1>2. x.kind = "reconcile" /\ x.pc = "sessions" /\ x.arg = PlanRead /\ DOMAIN x = Fields
  BY DEF Idle, Fields
<1>3. Become(k, x) /\ UNCHANGED <<docs, grade, plan, course, clock, mix, calm>>
  BY DEF LoadPlan
<1> HIDE DEF x
<1>4. Knows(x)
  BY <1>1, <1>2 DEF Knows, Reconciling
<1> QED
  BY <1>3, <1>4, StartsInv

LEMMA ListSessionsInv == ASSUME Inv, NEW k \in Calls, ListSessions(k) PROVE Inv'
<1> DEFINE old == call[k]
           x == [old EXCEPT !.sessions = docs,
                            !.pc = IF old.kind = "reconcile" THEN "meetings" ELSE "now"]
<1>1. Knows(old) /\ docs \in Listed /\ Placed(docs) /\ old.pc = "sessions"
  BY TypeParts DEF Inv, Knowing, ListSessions
<1>2. Become(k, x) /\ UNCHANGED <<docs, grade, plan, course, clock, mix, calm>>
  BY DEF ListSessions
<1> HIDE DEF old
<1>3. DOMAIN old = Fields /\ (Reconciling(old) \/ Saving(old))
  BY <1>1, IdleParts DEF Knows, Editing
<1>4. /\ x.kind = old.kind /\ x.arg = old.arg /\ x.meetings = old.meetings /\ x.sessions = docs
      /\ x.pc = (IF old.kind = "reconcile" THEN "meetings" ELSE "now") /\ DOMAIN x = Fields
  BY <1>3 DEF Fields
<1> HIDE DEF x
<1>5. Knows(x)
  <2>1. CASE Reconciling(old)
    BY <1>1, <1>4, <2>1 DEF Knows, Reconciling
  <2>2. CASE Saving(old)
    BY <1>1, <1>4, <2>2 DEF Knows, Saving
  <2> QED
    BY <1>3, <2>1, <2>2
<1> QED
  BY <1>2, <1>5, StartsInv

LEMMA ListMeetingsInv == ASSUME Inv, NEW k \in Calls, ListMeetings(k) PROVE Inv'
<1> DEFINE old == call[k]
           x == [old EXCEPT !.meetings = grade,
                            !.pc = IF old.kind = "reconcile" THEN "now" ELSE "sessions"]
<1>1. Knows(old) /\ grade \in Graded /\ old.pc = "meetings"
  BY TypeParts DEF Inv, Knowing, ListMeetings
<1>2. Become(k, x) /\ UNCHANGED <<docs, grade, plan, course, clock, mix, calm>>
  BY DEF ListMeetings
<1> HIDE DEF old
<1>3. DOMAIN old = Fields /\ (Reconciling(old) \/ Saving(old))
  BY <1>1, IdleParts DEF Knows, Editing
<1>4. /\ x.kind = old.kind /\ x.arg = old.arg /\ x.sessions = old.sessions /\ x.meetings = grade
      /\ x.pc = (IF old.kind = "reconcile" THEN "now" ELSE "sessions") /\ DOMAIN x = Fields
  BY <1>3 DEF Fields
<1> HIDE DEF x
<1>5. Knows(x)
  <2>1. CASE Reconciling(old)
    BY <1>1, <1>4, <2>1 DEF Knows, Reconciling
  <2>2. CASE Saving(old)
    BY <1>1, <1>4, <2>2 DEF Knows, Saving
  <2> QED
    BY <1>3, <2>1, <2>2
<1> QED
  BY <1>2, <1>5, StartsInv

LEMMA NowInv == ASSUME Inv, NEW k \in Calls, Now(k) PROVE Inv'
<1> DEFINE old == call[k]
           x == [old EXCEPT !.now = clock, !.pc = "commit"]
<1>1. Knows(old) /\ clock \in Times /\ old.pc = "now"
  BY DEF Inv, Knowing, Now, TypeOK
<1>2. Become(k, x) /\ UNCHANGED <<docs, grade, plan, course, clock, mix, calm>>
  BY DEF Now
<1> HIDE DEF old
<1>3. DOMAIN old = Fields /\ (Reconciling(old) \/ Saving(old) \/ Editing(old))
  BY <1>1, IdleParts DEF Knows
<1>4. /\ x.kind = old.kind /\ x.arg = old.arg /\ x.sessions = old.sessions
      /\ x.meetings = old.meetings /\ x.now = clock /\ x.pc = "commit" /\ DOMAIN x = Fields
  BY <1>3 DEF Fields
<1> HIDE DEF x
<1>5. Knows(x)
  <2>1. CASE Reconciling(old)
    BY <1>1, <1>4, <2>1 DEF Knows, Reconciling
  <2>2. CASE Saving(old)
    BY <1>1, <1>4, <2>2 DEF Knows, Saving
  <2>3. CASE Editing(old)
    BY <1>1, <1>4, <2>3 DEF Knows, Editing
  <2> QED
    BY <1>3, <2>1, <2>2, <2>3
<1> QED
  BY <1>2, <1>5, StartsInv

LEMMA BeginScheduleInv ==
    ASSUME Inv, NEW k \in Calls, NEW ask \in Asks, BeginSchedule(k, ask) PROVE Inv'
<1> DEFINE x == [Idle EXCEPT !.kind = "schedule", !.pc = "meetings", !.arg = ask]
<1>1. x.kind = "schedule" /\ x.pc = "meetings" /\ x.arg = ask /\ DOMAIN x = Fields
  BY DEF Idle, Fields
<1>2. Become(k, x) /\ UNCHANGED <<docs, grade, plan, course, clock, mix, calm>>
  BY DEF BeginSchedule
<1> HIDE DEF x
<1>3. Knows(x)
  BY <1>1 DEF Knows, Saving
<1> QED
  BY <1>2, <1>3, StartsInv

LEMMA BeginEditInv ==
    ASSUME Inv, NEW k \in Calls, NEW i \in Touched, NEW edit \in Edits, BeginEdit(k, i, edit)
    PROVE  Inv'
<1> DEFINE x == [Idle EXCEPT !.kind = "edit", !.pc = "now", !.arg = [id |-> i, edit |-> edit]]
<1>1. /\ x.kind = "edit" /\ x.pc = "now" /\ DOMAIN x = Fields
      /\ x.arg.id = i /\ x.arg.edit = edit
  BY DEF Idle, Fields
<1>2. Become(k, x) /\ UNCHANGED <<docs, grade, plan, course, clock, mix, calm>>
  BY DEF BeginEdit
<1> HIDE DEF x
<1>3. Knows(x)
  BY <1>1, TouchedAssumption DEF Knows, Editing
<1> QED
  BY <1>2, <1>3, StartsInv

LEMMA KillInv == ASSUME Inv, NEW k \in Calls, Kill(k) PROVE Inv'
BY IdleParts, StartsInv DEF Kill

-----------------------------------------------------------------------------
(* The commits. *)
Writes(x) ==
    Created(x.sessions, x.meetings, x.arg) \union Linked(x.sessions, x.meetings, x.arg)
Gone(x) == Removed(x.sessions, x.meetings, x.arg)
Applies(x) == \A i \in Writes(x) : Allowed(docs[i], Written(x.sessions, x.arg, i, x.now))

LEMMA ReconciliationKnows ==
    ASSUME Inv, NEW k \in Calls, At(k, "reconcile", "commit")
    PROVE  /\ call[k].arg \in Compared /\ call[k].now \in Times
           /\ call[k].sessions \in Listed /\ Placed(call[k].sessions)
           /\ call[k].meetings \in Graded
<1>1. Knows(call[k]) /\ call[k].kind = "reconcile" /\ call[k].pc = "commit"
  BY DEF Inv, Knowing, At
<1>2. Reconciling(call[k])
  BY <1>1, KindOf
<1> QED
  BY <1>1, <1>2 DEF Reconciling

LEMMA ReconciliationCommits ==
    ASSUME NEW k \in Calls, CommitReconciliation(k)
    PROVE  LET x == call[k] IN
           \/ UNCHANGED <<docs, calm>>
           \/ /\ Applies(x)
              /\ docs' = Reconciled(docs, x.sessions, x.meetings, x.arg, x.now)
              /\ calm' = (calm /\ (Writes(x) \union Gone(x) # {} => StillAsRead(x)))
<1> DEFINE x == call[k]
<1>1. CASE Applies(x)
  <2>1. docs' = [i \in Id |->
                   IF i \in Writes(x) THEN Written(x.sessions, x.arg, i, x.now)
                   ELSE IF i \in Gone(x) THEN None ELSE docs[i]]
    BY <1>1 DEF CommitReconciliation, Applies, Writes, Gone
  <2>2. calm' = (calm /\ (Writes(x) \union Gone(x) # {} => StillAsRead(x)))
    BY <1>1 DEF CommitReconciliation, Applies, Writes, Gone
  <2>3. docs' = Reconciled(docs, x.sessions, x.meetings, x.arg, x.now)
    BY <2>1 DEF Reconciled, Writes, Gone
  <2> QED
    BY <1>1, <2>2, <2>3
<1>2. CASE ~Applies(x)
  BY <1>2 DEF CommitReconciliation, Applies, Writes
<1> QED
  BY <1>1, <1>2

LEMMA CommitReconciliationInv ==
    ASSUME Inv, NEW k \in Calls, CommitReconciliation(k) PROVE Inv'
<1> DEFINE x == call[k]
<1>1. Knowing' /\ UNCHANGED <<grade, plan, course, clock, mix>>
  BY IdleParts, CallStep DEF CommitReconciliation, Inv
<1>2. CASE UNCHANGED <<docs, calm>>
  BY <1>1, <1>2, LocalStep
<1>3. CASE /\ Applies(x)
           /\ docs' = Reconciled(docs, x.sessions, x.meetings, x.arg, x.now)
           /\ calm' = (calm /\ (Writes(x) \union Gone(x) # {} => StillAsRead(x)))
  <2>1. /\ x.arg \in Compared /\ x.now \in Times /\ x.sessions \in Listed
        /\ Placed(x.sessions) /\ x.meetings \in Graded
    BY ReconciliationKnows DEF CommitReconciliation
  <2>2. docs \in Listed /\ Placed(docs) /\ grade \in Graded
    BY TypeParts DEF Inv
  <2> HIDE DEF x
  <2>3. docs' \in Listed /\ Placed(docs')
    BY <1>3, <2>1, <2>2, ReconciledType
  <2>4. TypeOK'
    <3>1. calm' \in BOOLEAN
      BY <1>3
    <3> QED
      BY <1>1, <2>3, <3>1 DEF Inv, TypeOK, Listed
  <2>5. calm' => Apart(grade')
    BY <1>1, <1>3 DEF Inv
  <2>6. ASSUME calm' PROVE Clear(docs')
    <3>1. calm /\ Clear(docs) /\ Apart(grade)
      BY <1>3, <2>6 DEF Inv
    <3>2. CASE Writes(x) \union Gone(x) = {}
      <4>1. docs' = [i \in Id |-> docs[i]]
        BY <1>3, <3>2 DEF Reconciled, Writes, Gone
      <4>2. docs' = docs
        BY <2>2, <4>1 DEF Listed
      <4> QED
        BY <3>1, <4>2
    <3>3. CASE StillAsRead(x)
      <4>1. docs' = Reconciled(docs, docs, grade, x.arg, x.now)
        BY <1>3, <3>3 DEF StillAsRead
      <4>2. Clear(Reconciled(docs, docs, grade, x.arg, x.now))
        BY <2>1, <2>2, <3>1, ReconciledClear
      <4> QED
        BY <4>1, <4>2
    <3> QED
      BY <1>3, <2>6, <3>2, <3>3
  <2>7. (calm => Apart(grade))' /\ (calm => Clear(docs))' /\ Placed(docs)'
    BY <2>3, <2>5, <2>6
  <2> QED
    BY <1>1, <2>4, <2>7 DEF Inv
<1> QED
  BY <1>2, <1>3, ReconciliationCommits

Stores(x) == Consistent(x.arg.weekly) /\ Confirmed(x) /\ ScheduleAllowed(x)

LEMMA CommitScheduleInv ==
    ASSUME Inv, NEW k \in Calls, CommitSchedule(k) PROVE Inv'
<1> DEFINE x == call[k]
<1>1. Knowing' /\ UNCHANGED <<plan, course, clock, mix>>
  BY IdleParts, CallStep DEF CommitSchedule, Inv
<1>2. Read(x)
  <2>1. Knows(x) /\ x.kind = "schedule" /\ x.pc = "commit"
    BY DEF Inv, Knowing, CommitSchedule, At
  <2> HIDE DEF x
  <2>2. Saving(x)
    BY <2>1, KindOf
  <2> QED
    BY <2>1, <2>2 DEF Saving, Read
<1>3. CASE ~Stores(x)
  <2>1. UNCHANGED <<docs, grade, calm>>
    BY <1>3 DEF CommitSchedule, Stores
  <2> QED
    BY <1>1, <2>1, LocalStep
<1>4. CASE Stores(x)
  <2>1. /\ docs' = Rescheduled(docs, x) /\ grade' = Regraded(grade, x)
        /\ calm' = (calm /\ StillAsRead(x))
    BY <1>4 DEF CommitSchedule, Stores, Rescheduled, Regraded
  <2>2. docs \in Listed /\ Placed(docs) /\ grade \in Graded
    BY TypeParts DEF Inv
  <2> HIDE DEF x
  <2>3. docs' \in Listed /\ Placed(docs') /\ grade' \in Graded
    BY <1>2, <2>1, <2>2, RescheduledType, RegradedType
  <2>4. TypeOK'
    <3>1. calm' \in BOOLEAN
      BY <2>1
    <3> QED
      BY <1>1, <2>3, <3>1 DEF Inv, TypeOK, Listed, Graded
  <2>5. ASSUME calm' PROVE Apart(grade') /\ Clear(docs')
    <3>1. docs = x.sessions /\ grade = x.meetings
      BY <2>1, <2>5 DEF StillAsRead
    <3>2. docs' = Rescheduled(x.sessions, x) /\ grade' = Regraded(x.meetings, x)
      BY <2>1, <3>1
    <3>3. Consistent(x.arg.weekly)
      BY <1>4 DEF Stores
    <3>4. Apart(Regraded(x.meetings, x)) /\ Clear(Rescheduled(x.sessions, x))
      BY <1>2, <3>3, RegradedApart, RescheduledClear
    <3> QED
      BY <3>2, <3>4
  <2>6. (calm => Apart(grade))' /\ (calm => Clear(docs))' /\ Placed(docs)'
    BY <2>3, <2>5
  <2> QED
    BY <1>1, <2>4, <2>6 DEF Inv
<1> QED
  BY <1>3, <1>4

(* An edit leaves a session where it is, and no mark is taken back. *)
LEMMA EditedDoc ==
    ASSUME NEW old \in Doc, NEW x, x.arg.edit \in Edits, x.now \in Times
    PROVE  /\ Edited(x, old) \in Doc /\ Edited(x, old).slot = old.slot
           /\ old.mark # None => Edited(x, old).mark # None
<1> DEFINE edit == x.arg.edit
<1>1. CASE edit.kind = "attendance"
  <2>1. Edited(x, old) = [old EXCEPT !.mark = edit.status, !.updated = x.now]
    BY <1>1 DEF Edited
  <2>2. edit.status \in Marks /\ edit.status # None
    BY <1>1, EditsAssumption DEF Marks
  <2> DEFINE marked == [old EXCEPT !.mark = edit.status]
  <2>3. marked = [slot |-> old.slot, mark |-> edit.status, calendar |-> old.calendar,
                  title |-> old.title, created |-> old.created, updated |-> old.updated]
    BY DEF Doc
  <2>4. Edited(x, old) = [marked EXCEPT !.updated = x.now]
    BY <2>1 DEF Doc
  <2> HIDE DEF marked, edit
  <2>5. Edited(x, old) = [slot |-> old.slot, mark |-> edit.status, calendar |-> old.calendar,
                          title |-> old.title, created |-> old.created, updated |-> x.now]
    BY <2>3, <2>4
  <2>6. Edited(x, old) \in Doc
    BY <2>2, <2>5 DEF Doc
  <2> QED
    BY <2>2, <2>5, <2>6
<1>2. CASE edit.kind # "attendance"
  <2>1. Edited(x, old) = [old EXCEPT !.calendar = edit.status, !.updated = x.now]
    BY <1>2 DEF Edited
  <2>2. edit.status \in {"scheduled"} \union {e.status : e \in {f \in Edits : f.kind = "calendar"}}
    BY <1>2, EditsAssumption
  <2> DEFINE moved == [old EXCEPT !.calendar = edit.status]
  <2>3. moved = [slot |-> old.slot, mark |-> old.mark, calendar |-> edit.status,
                 title |-> old.title, created |-> old.created, updated |-> old.updated]
    BY DEF Doc
  <2>4. Edited(x, old) = [moved EXCEPT !.updated = x.now]
    BY <2>1 DEF Doc
  <2> HIDE DEF moved, edit
  <2>5. Edited(x, old) = [slot |-> old.slot, mark |-> old.mark, calendar |-> edit.status,
                          title |-> old.title, created |-> old.created, updated |-> x.now]
    BY <2>3, <2>4
  <2>6. Edited(x, old) \in Doc
    BY <2>2, <2>5 DEF Doc
  <2> QED
    BY <2>5, <2>6
<1> QED
  BY <1>1, <1>2

LEMMA PatchedClear ==
    ASSUME NEW d \in Listed, Placed(d), NEW i \in There(d), NEW new \in Doc,
           new.slot = d[i].slot, d[i].mark # None => new.mark # None
    PROVE  LET e == [d EXCEPT ![i] = new] IN
           /\ e \in Listed /\ Placed(e) /\ (Clear(d) => Clear(e))
<1> DEFINE e == [d EXCEPT ![i] = new]
<1>1. i \in Id /\ d[i] \in Doc /\ d[i] # None
  BY ThereIsDoc
<1>2. e \in Listed /\ e[i] = new /\ \A j \in Id : j # i => e[j] = d[j]
  BY <1>1 DEF Listed
<1> HIDE DEF e
<1>3. There(e) = There(d)
  BY <1>1, <1>2, NoneAssumption DEF There
<1>4. \A j \in There(d) :
        e[j].slot = d[j].slot /\ (d[j].mark # None => e[j].mark # None)
  BY <1>2 DEF There
<1>5. Placed(e)
  BY <1>3, <1>4 DEF Placed, PlacedAt
<1>6. ASSUME Clear(d) PROVE Clear(e)
  BY <1>3, <1>4, <1>6 DEF Clear, Clash
<1> QED
  BY <1>2, <1>5, <1>6 DEF e

LEMMA PatchSessionInv ==
    ASSUME Inv, NEW k \in Calls, PatchSession(k) PROVE Inv'
<1> DEFINE x == call[k]
           i == x.arg.id
           new == Edited(x, docs[i])
<1>1. Knowing' /\ UNCHANGED <<grade, plan, course, clock, mix, calm>>
  BY IdleParts, CallStep DEF PatchSession, Inv
<1>2. i \in Id /\ x.arg.edit \in Edits /\ x.now \in Times
  <2>1. Knows(x) /\ x.kind = "edit" /\ x.pc = "commit"
    BY DEF Inv, Knowing, PatchSession, At
  <2>2. Editing(x)
    BY <2>1, KindOf
  <2> QED
    BY <2>1, <2>2 DEF Editing
<1>3. docs \in Listed /\ Placed(docs) /\ (calm => Clear(docs) /\ Apart(grade))
  BY TypeParts DEF Inv
<1>4. CASE docs[i] # None /\ x.now >= docs[i].updated
  <2>1. docs' = [docs EXCEPT ![i] = new]
    BY <1>4 DEF PatchSession
  <2>2. i \in There(docs) /\ docs[i] \in Doc
    BY <1>2, <1>3, <1>4 DEF There, Listed
  <2>3. new \in Doc /\ new.slot = docs[i].slot /\ (docs[i].mark # None => new.mark # None)
    BY <1>2, <2>2, EditedDoc
  <2> HIDE DEF new, i, x
  <2>4. docs' \in Listed /\ Placed(docs') /\ (Clear(docs) => Clear(docs'))
    BY <1>3, <2>1, <2>2, <2>3, PatchedClear
  <2>5. TypeOK'
    BY <1>1, <2>4 DEF Inv, TypeOK, Listed
  <2>6. (calm => Apart(grade))' /\ (calm => Clear(docs))' /\ Placed(docs)'
    BY <1>1, <1>3, <2>4
  <2> QED
    BY <1>1, <2>5, <2>6 DEF Inv
<1>5. CASE ~(docs[i] # None /\ x.now >= docs[i].updated)
  <2>1. docs' = docs
    BY <1>5 DEF PatchSession
  <2> QED
    BY <1>1, <2>1, LocalStep
<1> QED
  BY <1>4, <1>5

-----------------------------------------------------------------------------
(* The inductive invariant. *)
LEMMA InitInv == Init => Inv
<1> SUFFICES ASSUME Init PROVE Inv
  OBVIOUS
<1>1. PICK ask \in Saved :
        /\ Consistent(ask)
        /\ docs = [i \in Id |-> IF i \in Desired(ask) THEN Blank(DesiredSlot(ask, i), None, 0)
                                ELSE None]
        /\ grade = [m \in Meeting |-> IF m \in DOMAIN ask
                                      THEN [hours |-> ask[m], created |-> 0, updated |-> 0]
                                      ELSE None]
  BY DEF Init
<1>2. DOMAIN ask \subseteq Meeting /\ \A m \in DOMAIN ask : ask[m] \in Hours
  <2>1. PICK meetings \in SUBSET Meeting : ask \in [meetings -> Hours]
    BY SchedulesAssumption DEF WeeklySchedules
  <2> QED
    BY <2>1
<1>3. 0 \in Times
  BY MaxTimeAssumption DEF Times
<1>4. ASSUME NEW i \in Desired(ask)
      PROVE  /\ i \in Id /\ i \notin Occurrence
             /\ docs[i] \in Doc /\ docs[i].slot = DesiredSlot(ask, i) /\ docs[i].mark = None
             /\ PlacedAt(docs, i)
  <2>1. /\ i[1] \in Day /\ ask[i[2]] \in Hours /\ i \in Id /\ i \notin Occurrence
        /\ DesiredSlot(ask, i) = Slot(i[1], ask[i[2]])
    BY <1>2, DesiredParts
  <2>2. docs[i] = Blank(DesiredSlot(ask, i), None, 0)
    BY <1>1, <2>1
  <2>3. /\ docs[i] \in Doc /\ docs[i].slot = DesiredSlot(ask, i) /\ docs[i].mark = None
    BY <1>3, <2>1, <2>2, BlankDoc
  <2> QED
    BY <2>1, <2>3 DEF PlacedAt
<1>5. \A i \in There(docs) : i \in Desired(ask)
  BY <1>1 DEF There
<1>6. docs \in Listed
  <2>1. \A i \in Id : docs[i] \in Doc \union {None}
    BY <1>1, <1>4
  <2> QED
    BY <1>1, <2>1 DEF Listed
<1>7. Placed(docs)
  BY <1>4, <1>5 DEF Placed
<1>8. Clear(docs)
  BY <1>1, <1>2, <1>4, <1>5, DesiredClear
<1>9. grade \in Graded /\ Apart(grade)
  <2>1. \A m \in Meeting :
          \/ m \notin DOMAIN ask /\ grade[m] = None
          \/ m \in DOMAIN ask /\ grade[m] = [hours |-> ask[m], created |-> 0, updated |-> 0]
    BY <1>1
  <2>2. \A m \in DOMAIN ask : [hours |-> ask[m], created |-> 0, updated |-> 0] \in MeetingDoc
    BY <1>2, <1>3 DEF MeetingDoc
  <2>3. grade \in Graded
    BY <1>1, <2>1, <2>2 DEF Graded
  <2>4. ASSUME NEW m \in Meeting, grade[m] # None
        PROVE  m \in DOMAIN ask /\ grade[m].hours = ask[m]
    <3>1. m \in DOMAIN ask
      BY <2>1, <2>4
    <3>2. grade[m] = [hours |-> ask[m], created |-> 0, updated |-> 0]
      BY <2>1, <3>1
    <3> QED
      BY <3>1, <3>2
  <2>5. Apart(grade)
    BY <1>1, <2>4 DEF Apart, Consistent
  <2> QED
    BY <2>3, <2>5
<1>10. TypeOK
  BY <1>3, <1>6, <1>9 DEF Init, TypeOK, Listed, Graded
<1>11. Knowing
  BY IdleParts DEF Init, Knowing
<1> QED
  BY <1>7, <1>8, <1>9, <1>10, <1>11 DEF Inv

LEMMA WorldInv ==
    ASSUME Inv, \/ \E p \in Plans : SavePlan(p)
                \/ Tick
    PROVE  Inv'
<1>1. UNCHANGED <<docs, grade, course, call, mix, calm>>
  BY DEF SavePlan, Tick
<1>2. plan' \in Plans /\ clock' \in Times
  <2>1. CASE \E p \in Plans : SavePlan(p)
    BY <2>1 DEF SavePlan, Inv, TypeOK
  <2>2. CASE Tick
    <3>1. clock \in Nat /\ clock < MaxTime /\ clock' = clock + 1 /\ plan' = plan
      BY <2>2, MaxTimeAssumption DEF Tick, Inv, TypeOK, Times
    <3> QED
      BY <3>1, MaxTimeAssumption DEF Inv, TypeOK, Times
  <2> QED
    BY <2>1, <2>2
<1>3. TypeOK' /\ Knowing'
  BY <1>1, <1>2 DEF Inv, TypeOK, Knowing
<1>4. (calm => Apart(grade))' /\ (calm => Clear(docs))' /\ Placed(docs)'
  BY <1>1 DEF Inv, Apart, Clear, Clash, There, Placed, PlacedAt
<1> QED
  BY <1>3, <1>4 DEF Inv

LEMMA NextInv == Inv /\ [Next]_vars => Inv'
<1> SUFFICES ASSUME Inv, [Next]_vars PROVE Inv'
  OBVIOUS
<1>1. CASE UNCHANGED vars
  <2>1. Knowing' /\ UNCHANGED <<docs, grade, plan, course, clock, mix, calm>>
    BY <1>1 DEF vars, Inv, Knowing
  <2> QED
    BY <2>1, LocalStep
<1>2. ASSUME NEW k \in Calls, Call(k) PROVE Inv'
  <2>1. CASE LoadPlan(k)
    BY <2>1, LoadPlanInv
  <2>2. CASE ListSessions(k)
    BY <2>2, ListSessionsInv
  <2>3. CASE ListMeetings(k)
    BY <2>3, ListMeetingsInv
  <2>4. CASE Now(k)
    BY <2>4, NowInv
  <2>5. CASE Kill(k)
    BY <2>5, KillInv
  <2>6. CASE CommitReconciliation(k)
    BY <2>6, CommitReconciliationInv
  <2>7. CASE CommitSchedule(k)
    BY <2>7, CommitScheduleInv
  <2>8. CASE PatchSession(k)
    BY <2>8, PatchSessionInv
  <2>9. ASSUME NEW ask \in Asks, BeginSchedule(k, ask) PROVE Inv'
    BY <2>9, BeginScheduleInv
  <2>10. ASSUME NEW i \in Touched, NEW edit \in Edits, BeginEdit(k, i, edit) PROVE Inv'
    BY <2>10, BeginEditInv
  <2> QED
    BY <1>2, <2>1, <2>2, <2>3, <2>4, <2>5, <2>6, <2>7, <2>8, <2>9, <2>10 DEF Call
<1>3. CASE \/ \E p \in Plans : SavePlan(p)
           \/ Tick
  BY <1>3, WorldInv
<1> QED
  BY <1>1, <1>2, <1>3 DEF Next

(* Sessions, meetings, the plan and the clock keep their types, whatever   *)
(* calls of reconcile, save_schedule and the edits are under way.          *)
THEOREM PlanTypes == Spec => []TypeOK
<1>1. Inv => TypeOK
  BY DEF Inv
<1> QED
  BY InitInv, NextInv, <1>1, PTL DEF Spec

(* Two sessions share an hour only if a call of reconcile or save_schedule *)
(* committed what another had changed under it, or if attendance kept one  *)
(* of them where it was: for any number of calls, meetings, days, plans    *)
(* and schedules.                                                          *)
THEOREM PlanOverlaps == Spec => []OverlapHasCause
<1>1. Inv => OverlapHasCause
  BY ClearIsNoOverlap DEF Inv
<1> QED
  BY InitInv, NextInv, <1>1, PTL DEF Spec

-----------------------------------------------------------------------------
(* What a reconciliation that changes the sessions does to them.           *)
LEMMA CommittingIsCommit ==
    ASSUME Inv, [Next]_vars, NEW k \in Calls, Committing(k)
    PROVE  CommitReconciliation(k)
<1>1. At(k, "reconcile", "commit") /\ call'[k] = Idle /\ docs' # docs
  BY DEF Committing
<1>2. call[k] # Idle /\ call'[k] # call[k]
  BY <1>1, IdleParts DEF At
<1>3. PICK j \in Calls : CommitReconciliation(j) \/ CommitSchedule(j) \/ PatchSession(j)
  BY <1>1 DEF Next, Call, vars, LoadPlan, ListSessions, ListMeetings, Now, Kill, BeginSchedule,
              BeginEdit, SavePlan, Tick
<1>4. Become(j, Idle)
  BY <1>3 DEF CommitReconciliation, CommitSchedule, PatchSession
<1>5. j = k
  BY <1>2, <1>4 DEF Become, Inv, Knowing
<1> QED
  BY <1>1, <1>3, <1>5 DEF CommitSchedule, PatchSession, At

LEMMA CommittingParts ==
    ASSUME Inv, [Next]_vars, NEW k \in Calls, Committing(k)
    PROVE  LET x == call[k] IN
           /\ Applies(x)
           /\ docs' = Reconciled(docs, x.sessions, x.meetings, x.arg, x.now)
           /\ grade' = grade
           /\ x.arg \in Compared /\ x.now \in Times
           /\ x.sessions \in Listed /\ Placed(x.sessions) /\ x.meetings \in Graded
           /\ docs \in Listed /\ Placed(docs)
<1>1. CommitReconciliation(k) /\ docs' # docs
  BY CommittingIsCommit DEF Committing
<1>2. docs \in Listed /\ Placed(docs)
  BY TypeParts DEF Inv
<1>3. At(k, "reconcile", "commit") /\ grade' = grade
  BY <1>1 DEF CommitReconciliation
<1> QED
  BY <1>1, <1>2, <1>3, ReconciliationCommits, ReconciliationKnows

(* What becomes of one session. *)
Spared(x, old, new, read) ==
    \/ new = old
    \/ old # read /\ (new # None => old.updated <= x.now)
    \/ new = None /\ <<old.mark, old.calendar, old.title>> = <<None, "scheduled", None>>
    \/ /\ new # None /\ old.title = None
       /\ <<new.mark, new.calendar>> = <<old.mark, old.calendar>>

LEMMA SessionSpared ==
    ASSUME NEW d \in Listed, NEW s \in Listed, Placed(s), NEW g, NEW p \in Compared,
           NEW x, x.now \in Times, NEW i \in There(d),
           i \in Created(s, g, p) \union Linked(s, g, p) => Allowed(d[i], Written(s, p, i, x.now))
    PROVE  Spared(x, d[i], Reconciled(d, s, g, p, x.now)[i], s[i])
<1> DEFINE now == x.now
           new == Reconciled(d, s, g, p, now)[i]
<1>1. i \in Id /\ d[i] # None /\ d[i] \in Doc
  BY ThereIsDoc
<1>2. CASE i \in Created(s, g, p)
  <2>1. s[i] = None /\ i \in Occurrence /\ new = Added(p, i, now)
    BY <1>1, <1>2, ReconciledAt
  <2>2. new.updated = now /\ Written(s, p, i, now) = Added(p, i, now)
    BY <2>1, AddedDoc DEF Written
  <2>3. now >= d[i].updated
    BY <1>1, <1>2, <2>1, <2>2 DEF Allowed
  <2>4. now \in Int /\ d[i].updated \in Int
    BY <1>1, DocParts DEF Times
  <2>5. d[i].updated <= now
    BY <2>3, <2>4
  <2> QED
    BY <1>1, <2>1, <2>5 DEF Spared
<1>3. CASE i \in Linked(s, g, p)
  <2>1. i \in There(s) /\ new = Written(s, p, i, now) /\ s[i].title = None
    BY <1>1, <1>3, ReconciledAt DEF Linked
  <2>2. /\ new \in Doc /\ new.mark = s[i].mark /\ new.calendar = s[i].calendar
        /\ new.updated = now
    BY <2>1, TitledDoc
  <2>3. CASE d[i] = s[i]
    BY <2>1, <2>2, <2>3, NoneAssumption DEF Spared
  <2>4. CASE d[i] # s[i]
    <3>1. now >= d[i].updated
      BY <1>1, <1>3, <2>1, <2>2 DEF Allowed
    <3>2. now \in Int /\ d[i].updated \in Int
      BY <1>1, DocParts DEF Times
    <3>3. d[i].updated <= now
      BY <3>1, <3>2
    <3> QED
      BY <2>4, <3>3 DEF Spared
  <2> QED
    BY <2>3, <2>4
<1>4. CASE i \in Removed(s, g, p)
  <2>1. new = None /\ Unmodified(s[i])
    BY <1>1, <1>4, ReconciledAt DEF Removed
  <2>2. CASE d[i] = s[i]
    BY <2>1, <2>2 DEF Spared, Unmodified
  <2>3. CASE d[i] # s[i]
    BY <2>1, <2>3 DEF Spared
  <2> QED
    BY <2>2, <2>3
<1>5. CASE i \notin Created(s, g, p) \union Linked(s, g, p) \union Removed(s, g, p)
  BY <1>1, <1>5, ReconciledAt DEF Spared
<1> QED
  BY <1>2, <1>3, <1>4, <1>5

Losses ==
    \A k \in Calls : Committing(k) =>
        \A i \in There(docs) : Spared(call[k], docs[i], docs'[i], call[k].sessions[i])

LEMMA NextLosses == Inv /\ [Next]_vars => Losses
<1> SUFFICES ASSUME Inv, [Next]_vars, NEW k \in Calls, Committing(k), NEW i \in There(docs)
             PROVE  Spared(call[k], docs[i], docs'[i], call[k].sessions[i])
  BY DEF Losses
<1> DEFINE x == call[k]
<1>1. /\ Applies(x)
      /\ docs' = Reconciled(docs, x.sessions, x.meetings, x.arg, x.now)
      /\ x.arg \in Compared /\ x.now \in Times
      /\ x.sessions \in Listed /\ Placed(x.sessions)
      /\ docs \in Listed
  BY CommittingParts
<1> HIDE DEF x
<1>2. i \in Writes(x) => Allowed(docs[i], Written(x.sessions, x.arg, i, x.now))
  BY <1>1 DEF Applies
<1>3. Spared(x, docs[i], Reconciled(docs, x.sessions, x.meetings, x.arg, x.now)[i], x.sessions[i])
  BY <1>1, <1>2, SessionSpared DEF Writes
<1> QED
  BY <1>1, <1>3 DEF x

(* What the user entered for a session, or another plan's title, is lost   *)
(* to reconcile only if it was stored after the sessions were listed, and  *)
(* overwritten only if it is not dated after the reconciliation.           *)
THEOREM PlanLosses == Spec => ReconcileLossHasCause
<1>1. Losses <=> (\A k \in Calls : Committing(k) =>
         \A i \in There(docs) :
            LET old == docs[i] new == docs'[i] IN
            \/ new = old
            \/ old # call[k].sessions[i] /\ (new # None => old.updated <= call[k].now)
            \/ new = None /\ <<old.mark, old.calendar, old.title>> = <<None, "scheduled", None>>
            \/ /\ new # None /\ old.title = None
               /\ <<new.mark, new.calendar>> = <<old.mark, old.calendar>>)
  BY DEF Losses, Spared
<1>2. Spec => [][Losses]_vars
  BY InitInv, NextInv, NextLosses, PTL DEF Spec
<1> QED
  BY <1>1, <1>2, PTL DEF ReconcileLossHasCause

TellsAll ==
    \A k \in Calls : Committing(k) =>
        LET x == call[k] IN
        StillAsRead(x) =>
           /\ Removed(docs', grade', x.arg) = {}
           /\ Linked(docs', grade', x.arg) = {}
           /\ \A o \in Created(docs', grade', x.arg) :
                \E r \in Removed(x.sessions, x.meetings, x.arg) : Overlap(SlotOf(o), SlotOf(r))
           /\ Told(x.sessions, x.meetings, x.arg, x.now) = Workload(docs')

LEMMA NextTellsAll == Inv /\ [Next]_vars => TellsAll
<1> SUFFICES ASSUME Inv, [Next]_vars, NEW k \in Calls, Committing(k), StillAsRead(call[k])
             PROVE  LET x == call[k] IN
                    /\ Removed(docs', grade', x.arg) = {}
                    /\ Linked(docs', grade', x.arg) = {}
                    /\ \A o \in Created(docs', grade', x.arg) :
                         \E r \in Removed(x.sessions, x.meetings, x.arg) :
                             Overlap(SlotOf(o), SlotOf(r))
                    /\ Told(x.sessions, x.meetings, x.arg, x.now) = Workload(docs')
  BY DEF TellsAll
<1> DEFINE x == call[k]
           after == Reconciled(x.sessions, x.sessions, x.meetings, x.arg, x.now)
<1>1. /\ docs' = Reconciled(docs, x.sessions, x.meetings, x.arg, x.now)
      /\ grade' = grade
      /\ x.arg \in Compared /\ x.now \in Times
      /\ x.sessions \in Listed /\ Placed(x.sessions)
  BY CommittingParts
<1> HIDE DEF x
<1>2. docs' = after /\ grade' = x.meetings
  BY <1>1 DEF StillAsRead, x
<1>3. Removed(after, x.meetings, x.arg) = {} /\ Linked(after, x.meetings, x.arg) = {}
  BY <1>1, NothingToRemove, NothingToLink
<1>4. \A o \in Created(after, x.meetings, x.arg) :
        \E r \in Removed(x.sessions, x.meetings, x.arg) : Overlap(SlotOf(o), SlotOf(r))
  BY <1>1, LittleToCreate
<1>5. Told(x.sessions, x.meetings, x.arg, x.now) = Workload(after)
  BY <1>1, WorkloadTold
<1> HIDE DEF after
<1> QED
  BY <1>2, <1>3, <1>4, <1>5 DEF x

(* An applied reconciliation of what is stored (reconcile) does all that   *)
(* reconcile_teaching_plan_schedule announced, and leaves the workload     *)
(* that _validate_workload answered.                                       *)
THEOREM PlanTellsAll == Spec => AppliedAsTold
<1>1. Spec => [][TellsAll]_vars
  BY InitInv, NextInv, NextTellsAll, PTL DEF Spec
<1> QED
  BY <1>1 DEF AppliedAsTold, TellsAll

=============================================================================
